----------------------------- MODULE PayLedger -----------------------------
(***************************************************************************)
(* What the payment protocol promises about every payment channel: the     *)
(* voucher its payee has recorded and the one its payer has recorded move  *)
(* in turns.  The payee accepts one more voucher only when both records    *)
(* agree; the payer then learns of it, by the receipt or, when the receipt *)
(* got lost, by a network loss it bears later.  No payer therefore owes,   *)
(* or may ever have to bear, more than one voucher it has not recorded.    *)
(***************************************************************************)
EXTENDS Integers

CONSTANTS Chan

VARIABLES known,   \* known[c]: the last voucher the payer of c has recorded
          paid     \* paid[c]: the last voucher the payee of c has recorded

NoPayment == [nonce |-> 0, redeemed |-> 0]

Init == /\ known = [c \in Chan |-> NoPayment]
        /\ paid = [c \in Chan |-> NoPayment]

(* The payee records the next voucher, for any positive amount more.        *)
Accept(c) ==
    LET redeemed == paid'[c].redeemed IN
    /\ known[c] = paid[c]
    /\ redeemed \in Nat /\ redeemed > paid[c].redeemed
    /\ paid' = [paid EXCEPT ![c] = [nonce |-> @.nonce + 1, redeemed |-> redeemed]]
    /\ UNCHANGED known

(* The payer records what the payee has.                                    *)
Learn(c) ==
    /\ known[c] # paid[c]
    /\ known' = [known EXCEPT ![c] = paid[c]]
    /\ UNCHANGED paid

Next == \E c \in Chan : Accept(c) \/ Learn(c)

vars == <<known, paid>>

Spec == Init /\ [][Next]_vars

-----------------------------------------------------------------------------
Voucher == [nonce : Nat, redeemed : Nat]

(* The records of both ends agree, or the payee's is one voucher ahead.     *)
OneApart ==
    /\ known \in [Chan -> Voucher] /\ paid \in [Chan -> Voucher]
    /\ \A c \in Chan : \/ known[c] = paid[c]
                        \/ /\ paid[c].nonce = known[c].nonce + 1
                           /\ paid[c].redeemed > known[c].redeemed

=============================================================================
