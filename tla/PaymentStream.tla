---------------------------- MODULE PaymentStream ----------------------------
(***************************************************************************)
(* A stream of payments along a route: the source, which is the payer of   *)
(* hop 1, and the proxies, which are the payers of hops 2 .. Hops (the     *)
(* payer of hop Hops pays the destination).  Every payer keeps one         *)
(* reservation for the stream.  The route is quoted backwards, from the    *)
(* last proxy to the source, and then carries payments of petty amounts    *)
(* the source chooses; each hop adds the surcharges of the proxies behind  *)
(* it, and each proxy recomputes from the gross amount it receives the     *)
(* petty amount it is asked to pass on, and refuses when they differ.      *)
(*                                                                         *)
(* Concurrency, expiry and message loss are not here: the module PayMgr    *)
(* models a reservation's life.  A payment is one step, because a hop that *)
(* fails makes every hop before it revert.                                 *)
(***************************************************************************)
EXTENDS Surcharge

CONSTANTS Hops,       \* number of reservations on the route
          Serves,     \* the terms a proxy may serve its channel at
          MaxAmt      \* bound on the petty amount a route is reserved for

ASSUME HopsAssumption == Hops \in Nat /\ Hops > 1
ASSUME ServesAssumption == \A t \in Serves : t.ppp \in Nat /\ t.period \in Nat /\ LegalTerms(t)
ASSUME MaxAmtAssumption == MaxAmt \in Nat

VARIABLES amt,        \* the petty amount the source asks the route to cover
          res,        \* res[i]: the reservation the payer of hop i holds
          refused     \* some proxy has refused a payment its payer could afford

vars == <<amt, res, refused>>

Hop == 1 .. Hops
Proxy == 2 .. Hops
Nothing == [petty |-> 0, surcharge |-> 0]

(* "No reservation yet": its inbound terms are not looked at.               *)
Unquoted == [quoted |-> FALSE, inbound |-> Free, outbound |-> Free,
             received |-> Nothing, paid |-> Nothing, remain |-> 0]

(* The reservation Reserve makes with the offer it has received.  The code  *)
(* deletes one whose remain reaches 0; here it stays, with remain 0, and    *)
(* pays nothing more.                                                       *)
NewReservation(inbound, outbound) ==
    [quoted |-> TRUE, inbound |-> inbound, outbound |-> outbound,
     received |-> Nothing, paid |-> Nothing,
     remain |-> GrossRequired(outbound, amt)]

Init == /\ amt \in 1 .. MaxAmt
        /\ res = [i \in Hop |-> Unquoted]
        /\ refused = FALSE

(* ReserveForOthersFinal: the last proxy, which has received no offer.      *)
ReserveFinal(serve) ==
    /\ ~res[Hops].quoted
    /\ res' = [res EXCEPT ![Hops] = NewReservation(InboundTerms(serve, Free), Free)]
    /\ UNCHANGED <<amt, refused>>

(* ReserveForOthersIntermediate, with the offer of the proxy behind.        *)
(* QueryOffer and Reserve both refuse an offer whose terms are not legal.   *)
ReserveIntermediate(i, serve) ==
    LET offer == res[i + 1].inbound IN
    /\ ~res[i].quoted /\ res[i + 1].quoted
    /\ LegalTerms(offer)
    /\ res' = [res EXCEPT ![i] = NewReservation(InboundTerms(serve, offer), offer)]
    /\ UNCHANGED <<amt, refused>>

(* ReserveForSelfWithOffer: the source, which is served by nobody.          *)
ReserveSelf ==
    LET offer == res[2].inbound IN
    /\ ~res[1].quoted /\ res[2].quoted
    /\ LegalTerms(offer)
    /\ res' = [res EXCEPT ![1] = NewReservation(Free, offer)]
    /\ UNCHANGED <<amt, refused>>

Payment(i, petty) == GrossToPay(res[i].outbound, res[i].paid, petty)
Receipt(i, petty) == PettyToReceive(res[i].inbound, res[i].received,
                                    Payment(i - 1, petty).gross)

(* Pay's two checks: what has come in is the petty amount asked for (only   *)
(* when the payment is for others), and the reservation covers what goes    *)
(* out.                                                                     *)
Affords(i, petty) == Payment(i, petty).gross <= res[i].remain
Matches(i, petty) == i = 1 \/ Receipt(i, petty).now = petty

(* Mutant: the surcharge that has come in is not recorded.                  *)
AfterPayNoSurcharge(i, petty) ==
    LET out == Payment(i, petty) IN
    [res[i] EXCEPT
        !.received.petty = IF i = 1 THEN @ ELSE Receipt(i, petty).petty,
        !.paid           = [petty |-> out.petty, surcharge |-> out.surcharge],
        !.remain         = @ - out.gross]

(* The provisional reservation that a payment commits.                      *)
AfterPay(i, petty) ==
    LET out == Payment(i, petty) IN
    [res[i] EXCEPT
        !.received = IF i = 1 THEN @ ELSE [petty |-> Receipt(i, petty).petty,
                                           surcharge |-> Receipt(i, petty).surcharge],
        !.paid     = [petty |-> out.petty, surcharge |-> out.surcharge],
        !.remain   = @ - out.gross]

(* The source pays a petty amount its reservation covers.  Every proxy pays *)
(* on and commits, or one refuses and all of them revert.                   *)
Pay(petty) ==
    /\ \A i \in Hop : res[i].quoted
    /\ Affords(1, petty)
    /\ IF \A i \in Hop : Matches(i, petty) /\ Affords(i, petty)
       THEN /\ res' = [i \in Hop |-> AfterPay(i, petty)]
            /\ UNCHANGED refused
       ELSE /\ refused' = TRUE
            /\ UNCHANGED res
    /\ UNCHANGED amt

Next == \/ \E s \in Serves : ReserveFinal(s)
        \/ \E i \in 2 .. Hops - 1, s \in Serves : ReserveIntermediate(i, s)
        \/ ReserveSelf
        \/ \E p \in 1 .. MaxAmt : Pay(p)

Spec == Init /\ [][Next]_vars

-----------------------------------------------------------------------------
Total(ledger) == ledger.petty + ledger.surcharge

LedgerType == [petty : Nat, surcharge : Nat]
TermsType == [ppp : Nat, period : Nat]

(* Types.  That remain never goes below 0 is part of it: the reservation    *)
(* never pays more than was set aside.                                      *)
TypeOK == /\ amt \in 1 .. MaxAmt
          /\ refused \in BOOLEAN
          /\ res \in [Hop -> [quoted : BOOLEAN, inbound : TermsType, outbound : TermsType,
                              received : LedgerType, paid : LedgerType, remain : Nat]]

(* A proxy that only sees gross amounts reconstructs exactly the petty      *)
(* amounts and surcharges its payer has recorded, however the source splits *)
(* the stream: the two ends of a hop never disagree on what was bought.     *)
Agreement == \A i \in Proxy : res[1].quoted => res[i].received = res[i - 1].paid

(* Whatever payment the source's reservation covers, every proxy accepts:   *)
(* neither the petty-amount check nor the remain check of Pay fails behind  *)
(* an honest payer.                                                         *)
NoRefusal == ~refused

(* A proxy is never out of pocket, whatever the terms on the route and the  *)
(* split of the payments: what it has received covers what it has paid on.  *)
NoProxyLoss == \A i \in Proxy : Total(res[i].received) >= Total(res[i].paid)

(* A reservation costs the same however it is split: what is paid is the    *)
(* price of the petty amount paid, and what remains is the rest of the      *)
(* amount Reserve set aside.                                                *)
SplitInvariant ==
    \A i \in Hop : res[i].quoted =>
        /\ res[i].paid.petty > 0 =>
              Total(res[i].paid) = GrossRequired(res[i].outbound, res[i].paid.petty)
        /\ res[i].paid.petty = 0 => res[i].paid.surcharge = 0
        /\ res[i].remain + Total(res[i].paid) = GrossRequired(res[i].outbound, amt)

(* Every reservation of the route is used up by the same payment, the one   *)
(* that completes the petty amount: none is deleted while another still     *)
(* expects payments, none keeps funds locked after the stream is complete.  *)
CompleteTogether ==
    (\A i \in Hop : res[i].quoted) =>
        \A i \in Hop : res[i].remain = 0 <=> res[1].paid.petty = amt

(* "inbound ppp and period must be either both 0 or both positive"          *)
(* (paymgr/paymentmgr_impl.go:499), said of the terms Reserve quotes.  A    *)
(* channel served for free behind an offer with a surcharge is quoted at a  *)
(* positive price per period of 0, which the next node refuses.             *)
QuotedTermsLegal == \A i \in Proxy : res[i].quoted => LegalTerms(res[i].inbound)
=============================================================================
