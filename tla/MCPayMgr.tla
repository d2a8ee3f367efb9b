------------------------------ MODULE MCPayMgr ------------------------------
EXTENDS PayMgr, TLC

(* Terms without a surcharge: what a stream of payments costs under others  *)
(* is checked in MCPaymentStream.                                           *)
FreeOffer == {Free}

CallerSymmetry == Permutations(Caller)
=============================================================================
