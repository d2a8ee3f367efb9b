------------------------------ MODULE PayRoute ------------------------------
(***************************************************************************)
(* The payment protocol (paynet/protos/payproto) between the nodes of a    *)
(* route, over a network that loses and delays messages: requests that     *)
(* travel hop by hop, each carrying a voucher on the channel of its hop,   *)
(* and receipts, failures and network losses that travel back.             *)
(*                                                                         *)
(* Hop i of a request is a leg.  Its payer's half ("sender") is one of the *)
(* four request functions of requesters.go: it holds the write lock of the *)
(* outbound channel while it waits, until commit or revert.  Its payee's   *)
(* half ("payee") is a handler of handlers.go: it holds the write lock of  *)
(* the inbound channel from Receive to commit or revert, which at a proxy  *)
(* includes the whole of the next leg.  The two halves part when a message *)
(* is lost or late: the payer gives up, the handler goes on.               *)
(*                                                                         *)
(* The remaining amount, the expiry and the clean-up of a reservation are  *)
(* in PayMgr; here they are reasons to refuse.  Nodes do not restart.      *)
(***************************************************************************)
EXTENDS Surcharge, Sequences, FiniteSets, FiniteSetsExt

CONSTANTS Chan,       \* payment channels
          Stream,     \* streams: one reservation at the payer of every hop
          Route,      \* Route[s]: the channels of a stream, from its source on
          Terms,      \* Terms[s]: the terms of the reservations along it
          Request,    \* payment requests
          Wants,      \* Wants[q]: the streams the request q may pay on
          NoLeg, NoVoucher,
          MaxPetty    \* bound on the petty amount of a request

ASSUME RouteAssumption == Route \in [Stream -> Seq(Chan) \ {<<>>}]
ASSUME TermsAssumption ==
    \A s \in Stream : \A i \in 1 .. Len(Route[s]) :
        Terms[s][i] \in [ppp : Nat, period : Nat] /\ LegalTerms(Terms[s][i])
ASSUME WantsAssumption == Wants \in [Request -> SUBSET Stream]
ASSUME MaxPettyAssumption == MaxPetty \in Nat

VARIABLES out,      \* out[c]: what the payer of c has recorded
          inb,      \* inb[c]: what the payee of c has recorded
          book,     \* book[s][i]: the reservation the payer of hop i holds for s
          request,  \* request[q]: what has been asked for, or NoLeg
          leg,      \* leg[q][i]: hop i of the request q, or NoLeg
          credit    \* credit[s]: what the destination has credited the source

vars == <<out, inb, book, request, leg, credit>>

Last(s) == Len(Route[s])
Hop == UNION {1 .. Last(s) : s \in Stream}
Voucher == [nonce : Nat, redeemed : Nat]
NoPayment == [nonce |-> 0, redeemed |-> 0]
(* What a handler replies.  Nothing yet, a receipt, an error, or the voucher *)
(* that proves a network loss.                                              *)
NoReply == [is |-> "none"]
Receipt == [is |-> "receipt"]
Failure == [is |-> "failure"]
Loss(v) == [is |-> "loss", voucher |-> v]
NothingPaid == [petty |-> 0, surcharge |-> 0]

Legs == {h \in Request \X Hop : leg[h[1]][h[2]] # NoLeg}
L(h) == leg[h[1]][h[2]]
NextHop(h) == <<h[1], h[2] + 1>>
StreamOf(h) == request[h[1]].stream
ChanOf(h) == Route[StreamOf(h)][h[2]]
PettyOf(h) == request[h[1]].petty
IsLast(h) == h[2] = Last(StreamOf(h))

Init ==
    /\ out = [c \in Chan |-> [nonce |-> 0, redeemed |-> 0, loss |-> NoVoucher]]
    /\ inb = [c \in Chan |-> NoPayment]
    /\ book = [s \in Stream |-> [i \in Hop |->
                 [here |-> FALSE, got |-> NothingPaid, paid |-> NothingPaid]]]
    /\ request = [q \in Request |-> NoLeg]
    /\ leg = [q \in Request |-> [i \in Hop |-> NoLeg]]
    /\ credit = [s \in Stream |-> 0]

-----------------------------------------------------------------------------
(* Mutant: the payer does not hold its channel over the round trip.         *)
PayerLockedNever(c) == FALSE

(* The write lock of the outbound channel, from Pay to commit or revert.    *)
PayerLocked(c) == \E h \in Legs : ChanOf(h) = c /\ L(h).sender = "waiting"

(* The write lock of the inbound channel, from Receive to commit or revert. *)
PayeeLocked(c) == \E h \in Legs : ChanOf(h) = c /\ L(h).payee = "held"

(* The reservations along the route have been made (by the offer protocol). *)
Open(s) ==
    /\ \A i \in Hop : ~book[s][i].here /\ book[s][i].paid = NothingPaid
    /\ \A i \in 1 .. Last(s) : out[Route[s][i]].loss = NoVoucher
    /\ book' = [book EXCEPT ![s] = [i \in Hop |-> [@[i] EXCEPT !.here = i <= Last(s)]]]
    /\ UNCHANGED <<out, inb, request, leg, credit>>

(* What Pay signs for a petty amount: the next nonce, and the price on top  *)
(* of what has been recorded.                                               *)
Price(s, i, petty) == GrossToPay(Terms[s][i], book[s][i].paid, petty)
NextVoucher(s, i, petty) ==
    LET c == Route[s][i] IN
    [nonce |-> out[c].nonce + 1, redeemed |-> out[c].redeemed + Price(s, i, petty).gross]

CanPay(s, i) ==
    /\ book[s][i].here
    /\ out[Route[s][i]].loss = NoVoucher
    /\ ~PayerLocked(Route[s][i])

NewLeg(s, i, petty) == [voucher |-> NextVoucher(s, i, petty), sender |-> "waiting",
                        payee |-> "asked", reply |-> NoReply]

(* PayForSelf (a route of one hop) and PayForSelfWithOffer: the source pays *)
(* and sends the request.                                                   *)
Start(q, s, petty) ==
    /\ request[q] = NoLeg
    /\ CanPay(s, 1)
    /\ request' = [request EXCEPT ![q] = [stream |-> s, petty |-> petty]]
    /\ leg' = [leg EXCEPT ![q][1] = NewLeg(s, 1, petty)]
    /\ UNCHANGED <<out, inb, book, credit>>

-----------------------------------------------------------------------------
(* The payee's half.                                                        *)
Reply(h, r) == leg' = [leg EXCEPT ![h[1]][h[2]].payee = "done", ![h[1]][h[2]].reply = r]

(* "Nonce is not increasing, there is network loss."                        *)
Stale(h) == L(h).voucher.nonce <= inb[ChanOf(h)].nonce
Shrinks(h) == L(h).voucher.redeemed < inb[ChanOf(h)].redeemed

(* Mutant: the voucher that has just come in is sent back.                  *)
EvidenceSent(h) == L(h).voucher

(* The voucher recorded last, which the payer has signed.                   *)
Evidence(h) == inb[ChanOf(h)]

(* Receive, the provisional check under the read lock.                      *)
Probe(h) ==
    /\ L(h).payee = "asked"
    /\ ~PayeeLocked(ChanOf(h))
    /\ IF Stale(h) \/ Shrinks(h)
       THEN Reply(h, Loss(Evidence(h)))
       ELSE leg' = [leg EXCEPT ![h[1]][h[2]].payee = "probed"]
    /\ UNCHANGED <<out, inb, book, request, credit>>

(* Mutant: Receive trusts its provisional check.                            *)
StaleProbed(h) == FALSE

(* The nonce check once more, under the write lock.                         *)
StaleNow(h) == Stale(h)

(* Receive, under the write lock, which it returns with.  An amount that    *)
(* has become smaller is an error here, and not a network loss.             *)
Hold(h) ==
    /\ L(h).payee = "probed"
    /\ ~PayeeLocked(ChanOf(h))
    /\ IF StaleNow(h) THEN Reply(h, Loss(Evidence(h)))
       ELSE IF Shrinks(h) THEN Reply(h, Failure)
       ELSE leg' = [leg EXCEPT ![h[1]][h[2]].payee = "held"]
    /\ UNCHANGED <<out, inb, book, request, credit>>

(* What the voucher adds to what has been received.                         *)
GrossReceived(h) == L(h).voucher.redeemed - inb[ChanOf(h)].redeemed

(* commit() of Receive, and the reply.                                      *)
Keep(h) ==
    /\ inb' = [inb EXCEPT ![ChanOf(h)] = L(h).voucher]
    /\ Reply(h, Receipt)

(* handleDirectPay: the destination credits the source with the petty       *)
(* amount, commits and replies with the receipt.                            *)
Settle(h) ==
    /\ L(h).payee = "held" /\ IsLast(h)
    /\ GrossReceived(h) >= PettyOf(h)
    /\ credit' = [credit EXCEPT ![StreamOf(h)] = @ + PettyOf(h)]
    /\ Keep(h)
    /\ UNCHANGED <<out, book, request>>

(* How the next leg stands, if it has begun.                               *)
Onward(h) == IF IsLast(h) \/ L(NextHop(h)) = NoLeg THEN "none" ELSE L(NextHop(h)).sender

(* Pay's check at a proxy: the gross amount that has come in buys exactly   *)
(* the petty amount that is to be passed on.                                *)
Incoming(h) == PettyToReceive(Terms[StreamOf(h)][h[2]],
                              book[StreamOf(h)][h[2] + 1].got, GrossReceived(h))
Matches(h) == Incoming(h).now = PettyOf(h)

(* handleProxyPay: the proxy pays the next hop, for the source, while it    *)
(* holds the incoming channel.                                              *)
Forward(h) ==
    /\ L(h).payee = "held" /\ ~IsLast(h)
    /\ Onward(h) = "none"
    /\ CanPay(StreamOf(h), h[2] + 1)
    /\ Matches(h)
    /\ leg' = [leg EXCEPT ![h[1]][h[2] + 1] = NewLeg(StreamOf(h), h[2] + 1, PettyOf(h))]
    /\ UNCHANGED <<out, inb, book, request, credit>>

(* Mutant: the proxy does not tell an error of its own payment.             *)
PassedOnAnyhow(h) == Onward(h) \in {"paid", "failed"}

(* payForOthersFinal or payForOthersIntermediate has returned no error.     *)
PassedOn(h) == Onward(h) = "paid"

(* The proxy commits what it has received after its own payment.            *)
Collect(h) ==
    /\ L(h).payee = "held" /\ ~IsLast(h)
    /\ PassedOn(h)
    /\ Keep(h)
    /\ UNCHANGED <<out, book, request, credit>>

(* Mutant: the error of the proxy's own payment leaves the incoming channel *)
(* locked.                                                                  *)
HopelessEarly(h) == Onward(h) = "none"

(* Mutant: the proxy may still fail once its own payment is made.           *)
HopelessLate(h) == Onward(h) \in {"none", "failed", "paid"}

(* Nothing has been paid onward, or it has come back.                       *)
Hopeless(h) == Onward(h) \in {"none", "failed"}

(* An error, or the end of a context: before Receive has the write lock, or *)
(* at the destination, or at a proxy that cannot pay or whose payment has   *)
(* failed.  revert() gives the lock back.                                   *)
Refuse(h) ==
    /\ \/ L(h).payee \in {"asked", "probed"}
       \/ L(h).payee = "held" /\ Hopeless(h)
    /\ Reply(h, Failure)
    /\ UNCHANGED <<out, inb, book, request, credit>>

-----------------------------------------------------------------------------
(* The payer's half.                                                        *)
Resolve(h, how) == leg' = [leg EXCEPT ![h[1]][h[2]].sender = how]

(* The answer carries the destination's signature under the petty amount    *)
(* and the secret of the request.                                           *)
Answered(h) == L(h).reply = Receipt

(* commit(time.Now()): the voucher is recorded, and the reservation has     *)
(* paid and, at a proxy, received.                                          *)
Confirm(h) ==
    LET s     == StreamOf(h)
        i     == h[2]
        price == Price(s, i, PettyOf(h))
    IN
    /\ L(h).sender = "waiting" /\ Answered(h)
    /\ out' = [out EXCEPT ![ChanOf(h)].nonce = L(h).voucher.nonce,
                          ![ChanOf(h)].redeemed = L(h).voucher.redeemed]
    /\ book' = [book EXCEPT
          ![s][i].paid = [petty |-> price.petty, surcharge |-> price.surcharge],
          ![s][i].got  = IF i = 1 THEN @
                         ELSE LET came == Incoming(<<h[1], i - 1>>)
                              IN  [petty |-> came.petty, surcharge |-> came.surcharge]]
    /\ Resolve(h, "paid")
    /\ UNCHANGED <<inb, request, credit>>

(* revert's check of a network loss voucher.                                *)
Proves(c, v) == v.nonce > out[c].nonce /\ v.redeemed >= out[c].redeemed

(* revert(v): the loss is recorded and every reservation on the channel is  *)
(* deleted.  A voucher that proves nothing changes nothing.                 *)
Lose(h) ==
    LET c == ChanOf(h) IN
    /\ L(h).sender = "waiting" /\ L(h).reply.is = "loss"
    /\ IF Proves(c, L(h).reply.voucher)
       THEN /\ out' = [out EXCEPT ![c].loss = L(h).reply.voucher]
            /\ book' = [s \in Stream |-> [i \in Hop |->
                 IF i <= Last(s) /\ Route[s][i] = c THEN [book[s][i] EXCEPT !.here = FALSE]
                                                    ELSE book[s][i]]]
       ELSE UNCHANGED <<out, book>>
    /\ Resolve(h, "failed")
    /\ UNCHANGED <<inb, request, credit>>

(* revert(""): a failure has been answered, or nothing has been in time.    *)
GiveUp(h) ==
    /\ L(h).sender = "waiting"
    /\ Resolve(h, "failed")
    /\ UNCHANGED <<out, inb, book, request, credit>>

(* BearNetworkLoss, by the user.                                            *)
Bear(c) ==
    /\ out[c].loss # NoVoucher
    /\ ~PayerLocked(c)
    /\ out' = [out EXCEPT ![c] = [nonce |-> @.loss.nonce, redeemed |-> @.loss.redeemed,
                                  loss |-> NoVoucher]]
    /\ UNCHANGED <<inb, book, request, leg, credit>>

-----------------------------------------------------------------------------
Paying(h) == Confirm(h) \/ Lose(h) \/ GiveUp(h)
Receiving(h) == Probe(h) \/ Hold(h) \/ Settle(h) \/ Forward(h) \/ Collect(h) \/ Refuse(h)

Next ==
    \/ \E s \in Stream : Open(s)
    \/ \E q \in Request, petty \in 1 .. MaxPetty : \E s \in Wants[q] : Start(q, s, petty)
    \/ \E h \in Legs : Paying(h) \/ Receiving(h)
    \/ \E c \in Chan : Bear(c)

(* Waiting for an answer ends with it or at its deadline, and so does       *)
(* waiting for a lock: every handler that holds a channel either gets on or *)
(* fails.  A request on the network may never arrive (no fairness).         *)
Fairness ==
    \A c \in Chan :
        /\ WF_vars(\E h \in Legs : ChanOf(h) = c /\ Paying(h))
        /\ WF_vars(\E h \in Legs : ChanOf(h) = c /\ L(h).payee = "held" /\ Receiving(h))

Spec == Init /\ [][Next]_vars /\ Fairness

-----------------------------------------------------------------------------
Leg == [voucher : Voucher, sender : {"waiting", "paid", "failed"},
        payee : {"asked", "probed", "held", "done"},
        reply : {NoReply, Receipt, Failure} \cup [is : {"loss"}, voucher : Voucher]]
Ledger == [petty : Nat, surcharge : Nat]
Ask == [stream : Stream, petty : 1 .. MaxPetty]

ASSUME NoneAssumption == NoLeg \notin Leg /\ NoLeg \notin Ask /\ NoVoucher \notin Voucher

(* Types, and that a handler replies once and then is done.                 *)
TypeOK ==
    /\ out \in [Chan -> [nonce : Nat, redeemed : Nat, loss : Voucher \cup {NoVoucher}]]
    /\ inb \in [Chan -> Voucher]
    /\ book \in [Stream -> [Hop -> [here : BOOLEAN, got : Ledger, paid : Ledger]]]
    /\ request \in [Request -> Ask \cup {NoLeg}]
    /\ leg \in [Request -> [Hop -> Leg \cup {NoLeg}]]
    /\ \A h \in Legs : L(h).reply = NoReply <=> L(h).payee # "done"
    /\ credit \in [Stream -> Nat]

(* The payers and payees of all channels behave as their abstract ledgers.  *)
Abstract == INSTANCE PayLedger WITH
                known <- [c \in Chan |-> [nonce |-> out[c].nonce, redeemed |-> out[c].redeemed]],
                paid  <- inb
ImplementsLedger == Abstract!Spec

(* A network loss a payer has recorded is still exactly what its payee      *)
(* holds, however many requests signed before are delivered in the          *)
(* meantime: bearing it brings the two records together.                    *)
LossIsCurrent == \A c \in Chan : out[c].loss # NoVoucher => out[c].loss = inb[c]

(* Whatever was lost, delayed, reverted or borne before: a voucher that     *)
(* reaches the write lock of a proxy whose reservation is in place buys     *)
(* exactly the petty amount it comes with, by the proxy's own ledger.       *)
ProxyMatches ==
    \A h \in Legs : L(h).payee = "held" /\ ~IsLast(h) =>
        (Onward(h) = "none" /\ book[StreamOf(h)][h[2] + 1].here => Matches(h))

(* The proxy's leg of a channel between its two commits.                    *)
Late(c) == {h \in Legs : /\ ChanOf(h) = c /\ ~IsLast(h)
                         /\ L(h).payee = "held" /\ PassedOn(h)}

(* What a node has been given on a channel: the recorded voucher or, in the *)
(* moment between a proxy's two commits, the one it is about to record.     *)
Given(c) == Max({inb[c].redeemed} \cup {L(h).voucher.redeemed : h \in Late(c)})

(* What it has given for it on a hop x of a stream: the credit of a stream  *)
(* that ends there, and the payments made for any other.                    *)
GivenOn(x) == IF x[2] = Last(x[1]) THEN credit[x[1]]
              ELSE book[x[1]][x[2] + 1].got.petty + book[x[1]][x[2] + 1].got.surcharge

(* The hops over a channel, and every unit given on one of them.            *)
Over(c) == {x \in Stream \X Hop : x[2] <= Last(x[1]) /\ Route[x[1]][x[2]] = c}
UnitsGiven(c) == UNION {{x} \X (1 .. GivenOn(x)) : x \in Over(c)}

(* No node passes on, or credits, more than the vouchers it can redeem: a   *)
(* proxy is paid for every payment it has made and heard of, and the        *)
(* destination's credits are backed by the channels they came over.         *)
NothingForNothing == \A c \in Chan : Cardinality(UnitsGiven(c)) <= Given(c)

(* Along a stream nobody upstream has recorded more than was passed on: a   *)
(* source that has recorded a payment has been credited for it.             *)
PaidIsCredited ==
    \A s \in Stream :
        /\ \A i \in 1 .. Last(s) - 1 : book[s][i].paid.petty <= book[s][i + 1].paid.petty
        /\ book[s][Last(s)].paid.petty <= credit[s]

(* No channel stays locked for good at either end, not even when payments   *)
(* wait for one another's channels in a circle.                             *)
ChannelsComeFree ==
    \A c \in Chan : PayerLocked(c) \/ PayeeLocked(c) ~> ~PayerLocked(c) /\ ~PayeeLocked(c)
=============================================================================
