--------------------------- MODULE MCPaymentStream ---------------------------
EXTENDS PaymentStream

(* The terms of a proxy that charges for its channel, and of one that does  *)
(* not: prices and periods around each other and around MaxAmt.             *)
PaidServes == {[ppp |-> p, period |-> d] : p \in 1 .. 2, d \in 1 .. 3}
AnyServes == PaidServes \cup {Free}
=============================================================================
