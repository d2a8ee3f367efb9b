--------------------------- MODULE PayRouteProofs ---------------------------
(***************************************************************************)
(* Proofs about PayRoute, for any routes, terms, requests and amounts.     *)
(*                                                                         *)
(* The first part follows the two records of a channel: what its payer and *)
(* its payee have recorded, and what each voucher on its way was signed on *)
(* top of.  It gives LossIsCurrent and the implementation of PayLedger.    *)
(* The second part follows the reservations along a route, the last one    *)
(* what a node has been given on a channel and what it has given for it.   *)
(***************************************************************************)
EXTENDS PayRoute, SurchargeProofs, FiniteSetTheorems

(* The answers of a handler.                                                *)
Answer == {NoReply, Receipt, Failure} \cup [is : {"loss"}, voucher : Voucher]

(* Types, without the sign of what a proxy has received: that its amounts   *)
(* are never negative takes the second part.                                *)
Typed ==
    /\ out \in [Chan -> [nonce : Nat, redeemed : Nat, loss : Voucher \cup {NoVoucher}]]
    /\ inb \in [Chan -> Voucher]
    /\ book \in [Stream -> [Hop -> [here : BOOLEAN, paid : Ledger,
                                    got : [petty : Int, surcharge : Int]]]]
    /\ request \in [Request -> Ask \cup {NoLeg}]
    /\ leg \in [Request -> [Hop -> Leg \cup {NoLeg}]]
    /\ credit \in [Stream -> Nat]

(* Legs belong to a request that has been made, and follow its route.       *)
Back(h) == <<h[1], h[2] - 1>>
Routed ==
    /\ \A q \in Request, i \in Hop : request[q] = NoLeg => leg[q][i] = NoLeg
    /\ \A h \in Legs : h[2] \in 1 .. Last(StreamOf(h)) /\ (h[2] = 1 \/ Back(h) \in Legs)

(* What the payer of every hop has paid is priced exactly.                  *)
Exact == \A s \in Stream : \A i \in 1 .. Last(s) : LedgerExact(Terms[s][i], book[s][i].paid)

(* The voucher of a leg is on top of what the payer has recorded by now.    *)
Current(h) == L(h).voucher.nonce = out[ChanOf(h)].nonce + 1

(* The payee has recorded what its payer has, or one voucher more.          *)
Level(c) == inb[c].nonce = out[c].nonce /\ inb[c].redeemed = out[c].redeemed
Ahead(c) == inb[c].nonce = out[c].nonce + 1 /\ inb[c].redeemed > out[c].redeemed

(* The two records of a channel, and the loss its payer has recorded.       *)
ChanOK(c) == /\ Level(c) \/ Ahead(c)
             /\ out[c].loss # NoVoucher => Ahead(c) /\ out[c].loss = inb[c]

(* What a leg's two halves know of the records of its channel.              *)
LegOK(h) ==
    LET c == ChanOf(h)
        v == L(h).voucher
        r == L(h).reply
    IN
    /\ v.nonce <= out[c].nonce + 1
    /\ Current(h) => v.redeemed > out[c].redeemed
    /\ L(h).sender = "waiting" => Current(h) /\ out[c].loss = NoVoucher
    /\ L(h).payee = "held" => v.nonce > inb[c].nonce
    /\ r = Receipt => v.nonce <= inb[c].nonce /\ (Current(h) => v = inb[c])
    /\ r.is = "loss" => /\ r.voucher.nonce <= inb[c].nonce
                        /\ r.voucher.nonce = inb[c].nonce => r.voucher = inb[c]

(* Two legs of a channel are one when both payers hold it, both payees hold *)
(* it, or both have been given a receipt for the voucher that is due.       *)
Alone(g, h) ==
    ChanOf(g) = ChanOf(h) =>
        /\ L(g).sender = "waiting" /\ L(h).sender = "waiting" => g = h
        /\ L(g).payee = "held" /\ L(h).payee = "held" => g = h
        /\ Current(g) /\ Current(h) /\ L(g).reply = Receipt /\ L(h).reply = Receipt => g = h

ChannelInv ==
    /\ Typed
    /\ Routed
    /\ Exact
    /\ \A c \in Chan : ChanOK(c)
    /\ \A h \in Legs : LegOK(h)
    /\ \A g \in Legs, h \in Legs : Alone(g, h)

-----------------------------------------------------------------------------
(* The hops of a route are hops, over channels.                             *)
LEMMA RouteFacts ==
  ASSUME NEW s \in Stream
  PROVE  /\ Last(s) \in Nat \ {0}
         /\ \A i \in 1 .. Last(s) : /\ i \in Hop /\ Route[s][i] \in Chan
                                    /\ Terms[s][i].ppp \in Nat /\ Terms[s][i].period \in Nat
                                    /\ LegalTerms(Terms[s][i])
<1>1. Route[s] \in Seq(Chan) /\ Route[s] # <<>>
  BY RouteAssumption
<1>2. Last(s) \in Nat \ {0} /\ \A i \in 1 .. Last(s) : Route[s][i] \in Chan
  BY <1>1 DEF Last
<1>3. ASSUME NEW i \in 1 .. Last(s)
      PROVE  /\ Terms[s][i].ppp \in Nat /\ Terms[s][i].period \in Nat
             /\ LegalTerms(Terms[s][i])
  BY TermsAssumption, Zenon DEF Last
<1>4. \A i \in 1 .. Last(s) : i \in Hop
  BY DEF Hop
<1> QED
  BY <1>2, <1>3, <1>4

(* What a leg consists of.                                                  *)
LEMMA LegFacts ==
  ASSUME Typed, Routed, NEW h \in Legs
  PROVE  /\ h \in Request \X Hop /\ h[1] \in Request /\ h[2] \in Hop
         /\ L(h) \in Leg /\ request[h[1]] \in Ask
         /\ StreamOf(h) \in Stream /\ PettyOf(h) \in Nat \ {0}
         /\ h[2] \in 1 .. Last(StreamOf(h))
         /\ ChanOf(h) \in Chan
<1>1. /\ h \in Request \X Hop /\ h[1] \in Request /\ h[2] \in Hop
      /\ leg[h[1]][h[2]] # NoLeg /\ h[2] \in 1 .. Last(StreamOf(h))
  BY DEF Legs, Routed
<1>2. leg[h[1]][h[2]] \in Leg /\ request[h[1]] \in Ask
  BY <1>1 DEF Typed, Routed
<1>3. StreamOf(h) \in Stream /\ PettyOf(h) \in Nat \ {0}
  BY <1>2, MaxPettyAssumption DEF Ask, StreamOf, PettyOf
<1>4. ChanOf(h) \in Chan
  BY <1>1, <1>3, RouteFacts DEF ChanOf
<1> QED
  BY <1>1, <1>2, <1>3, <1>4 DEF L

(* What a leg and a channel's records consist of, field by field.           *)
LEMMA FieldFacts ==
  ASSUME Typed
  PROVE  /\ \A x \in Leg : /\ x.voucher \in Voucher
                           /\ x.voucher.nonce \in Nat /\ x.voucher.redeemed \in Nat
                           /\ x.reply \in Answer
                           /\ x.sender \in {"waiting", "paid", "failed"}
                           /\ x.payee \in {"asked", "probed", "held", "done"}
         /\ \A c \in Chan : /\ out[c].nonce \in Nat /\ out[c].redeemed \in Nat
                            /\ out[c].loss \in Voucher \cup {NoVoucher}
                            /\ inb[c] \in Voucher
                            /\ inb[c].nonce \in Nat /\ inb[c].redeemed \in Nat
         /\ \A s \in Stream, i \in Hop : book[s][i].paid \in Ledger /\ book[s][i].here \in BOOLEAN
BY DEF Typed, Leg, Voucher, Answer

(* One leg that changes, or begins, leaves the others as they are.          *)
LEMMA LegEffect ==
  ASSUME Typed, NEW h \in Request \X Hop, NEW new \in Leg,
         leg' = [leg EXCEPT ![h[1]][h[2]] = new]
  PROVE  /\ leg' \in [Request -> [Hop -> Leg \cup {NoLeg}]]
         /\ L(h)' = new
         /\ \A g \in Request \X Hop : g # h => L(g)' = L(g)
         /\ Legs' = Legs \cup {h}
<1>1. h[1] \in Request /\ h[2] \in Hop /\ h = <<h[1], h[2]>>
  OBVIOUS
<1>2. leg \in [Request -> [Hop -> Leg \cup {NoLeg}]]
  BY DEF Typed
<1>3. leg' \in [Request -> [Hop -> Leg \cup {NoLeg}]]
  BY <1>1, <1>2
<1>4. L(h)' = new
  BY <1>1, <1>2 DEF L
<1>5. ASSUME NEW g \in Request \X Hop, g # h
      PROVE  L(g)' = L(g)
  <2>1. g[1] \in Request /\ g[2] \in Hop /\ g = <<g[1], g[2]>>
    OBVIOUS
  <2>2. g[1] # h[1] \/ g[2] # h[2]
    BY <1>1, <1>5, <2>1
  <2> QED
    BY <1>1, <1>2, <2>1, <2>2 DEF L
<1>6. Legs = {g \in Request \X Hop : L(g) # NoLeg}
  BY DEF Legs, L
<1>7. Legs' = {g \in Request \X Hop : L(g)' # NoLeg}
  BY DEF Legs, L
<1>8. new # NoLeg
  BY NoneAssumption
<1> QED
  BY <1>3, <1>4, <1>5, <1>6, <1>7, <1>8

(* The channel of a leg is the channel of its request's route.              *)
LEMMA SameRequest ==
  ASSUME NEW h, request'[h[1]] = request[h[1]]
  PROVE  StreamOf(h)' = StreamOf(h) /\ ChanOf(h)' = ChanOf(h) /\ PettyOf(h)' = PettyOf(h)
BY DEF StreamOf, ChanOf, PettyOf

(* Requests and their routes stay when the legs do.                         *)
LEMMA RoutedKept ==
  ASSUME Routed, request' = request, Legs' = Legs
  PROVE  Routed'
<1>1. ASSUME NEW q \in Request, NEW i \in Hop, request'[q] = NoLeg
      PROVE  leg'[q][i] = NoLeg
  <2>1. leg[q][i] = NoLeg
    BY <1>1 DEF Routed
  <2>2. <<q, i>> \notin Legs'
    BY <2>1 DEF Legs
  <2> QED
    BY <2>2 DEF Legs
<1>2. \A g \in Legs : StreamOf(g)' = StreamOf(g)
  BY SameRequest
<1> QED
  BY <1>1, <1>2 DEF Routed

(* A leg is as sound as before when neither it nor its channel has changed. *)
LEMMA LegOKKept ==
  ASSUME NEW h, LegOK(h), L(h)' = L(h), ChanOf(h)' = ChanOf(h),
         out'[ChanOf(h)] = out[ChanOf(h)], inb'[ChanOf(h)] = inb[ChanOf(h)]
  PROVE  LegOK(h)'
BY DEF LegOK, Current

(* Neither are two legs less alone.                                         *)
LEMMA AloneKept ==
  ASSUME NEW g, NEW h, Alone(g, h),
         L(g)' = L(g), L(h)' = L(h), ChanOf(g)' = ChanOf(g), ChanOf(h)' = ChanOf(h),
         out'[ChanOf(g)] = out[ChanOf(g)]
  PROVE  Alone(g, h)'
BY DEF Alone, Current

(* A handler that gets on without recording anything, and a payer that      *)
(* gives up.                                                                *)
LEMMA QuietStep ==
  ASSUME ChannelInv, NEW h \in Legs, NEW new \in Leg,
         leg' = [leg EXCEPT ![h[1]][h[2]] = new],
         UNCHANGED <<out, inb, book, request, credit>>,
         new.voucher = L(h).voucher,
         new.sender = L(h).sender \/ new.sender # "waiting",
         new.payee = "held" => L(h).payee = "held"
                               \/ /\ new.voucher.nonce > inb[ChanOf(h)].nonce
                                  /\ ~PayeeLocked(ChanOf(h)),
         new.reply = L(h).reply \/ new.reply = Failure \/ new.reply = Loss(inb[ChanOf(h)])
  PROVE  ChannelInv'
<1> DEFINE c == ChanOf(h)
<1>0. Typed /\ Routed /\ Exact
  BY DEF ChannelInv
<1>1. /\ h \in Request \X Hop /\ L(h) \in Leg /\ request[h[1]] \in Ask /\ c \in Chan
      /\ h[1] \in Request /\ h[2] \in Hop
  BY <1>0, LegFacts
<1>2. /\ leg' \in [Request -> [Hop -> Leg \cup {NoLeg}]]
      /\ L(h)' = new
      /\ \A g \in Request \X Hop : g # h => L(g)' = L(g)
      /\ Legs' = Legs \cup {h}
  BY <1>0, <1>1, LegEffect
<1>3. Legs' = Legs /\ \A g \in Legs : g \in Request \X Hop
  BY <1>2 DEF Legs
<1>4. \A g \in Legs : ChanOf(g)' = ChanOf(g) /\ StreamOf(g)' = StreamOf(g)
  BY SameRequest
<1>5. Typed'
  BY <1>0, <1>2 DEF Typed
<1>6. Routed'
  BY <1>0, <1>3, RoutedKept
<1>7. Exact'
  BY <1>0 DEF Exact
<1>8. \A d \in Chan : ChanOK(d)'
  BY DEF ChannelInv, ChanOK, Level, Ahead
<1>9. ASSUME NEW g \in Legs
      PROVE  LegOK(g)'
  <2>1. CASE g # h
    BY <1>2, <1>3, <1>4, <2>1, LegOKKept DEF ChannelInv
  <2>2. CASE g = h
    <3> DEFINE v == L(h).voucher
               r == L(h).reply
    <3>1. /\ v.nonce <= out[c].nonce + 1
          /\ Current(h) => v.redeemed > out[c].redeemed
          /\ L(h).sender = "waiting" => Current(h) /\ out[c].loss = NoVoucher
          /\ L(h).payee = "held" => v.nonce > inb[c].nonce
          /\ r = Receipt => v.nonce <= inb[c].nonce /\ (Current(h) => v = inb[c])
          /\ r.is = "loss" => /\ r.voucher.nonce <= inb[c].nonce
                              /\ r.voucher.nonce = inb[c].nonce => r.voucher = inb[c]
      BY DEF ChannelInv, LegOK
    <3>2. L(h)' = new /\ ChanOf(h)' = c /\ (Current(h)' <=> Current(h))
      BY <1>2, <1>4 DEF Current
    <3>3. inb[c].nonce <= inb[c].nonce
      BY <1>0, <1>1, FieldFacts
    <3>4. /\ new.reply = Receipt => r = Receipt
          /\ new.reply.is = "loss" =>
                /\ new.reply.voucher.nonce <= inb[c].nonce
                /\ new.reply.voucher.nonce = inb[c].nonce => new.reply.voucher = inb[c]
      BY <3>1, <3>3 DEF Receipt, Failure, Loss
    <3> QED
      BY <2>2, <3>1, <3>2, <3>4 DEF LegOK
  <2> QED
    BY <2>1, <2>2
<1>10. ASSUME NEW f \in Legs, NEW g \in Legs
       PROVE  Alone(f, g)'
  <2>1. Alone(f, g)
    BY DEF ChannelInv
  <2>2. ASSUME NEW e \in Legs
        PROVE  /\ L(e)'.voucher = L(e).voucher
               /\ L(e)'.sender = "waiting" => L(e).sender = "waiting"
               /\ L(e)'.reply = Receipt => L(e).reply = Receipt
               /\ Current(e)' <=> Current(e)
    BY <1>2, <1>3, <1>4 DEF Current, Receipt, Failure, Loss
  <2>3. ASSUME L(f)'.payee = "held", L(g)'.payee = "held", ChanOf(f) = ChanOf(g), f # g
        PROVE  FALSE
    <3>1. CASE f # h /\ g # h
      BY <1>2, <1>3, <2>1, <2>3, <3>1 DEF Alone
    <3>2. CASE f = h
      BY <1>2, <1>3, <2>1, <2>3, <3>2 DEF Alone, PayeeLocked
    <3>3. CASE g = h
      BY <1>2, <1>3, <2>1, <2>3, <3>3 DEF Alone, PayeeLocked
    <3> QED
      BY <3>1, <3>2, <3>3
  <2> QED
    BY <1>4, <2>1, <2>2, <2>3 DEF Alone
<1> QED
  BY <1>3, <1>5, <1>6, <1>7, <1>8, <1>9, <1>10 DEF ChannelInv

(* What is priced costs at least the petty amount.                          *)
LEMMA PriceFacts ==
  ASSUME Typed, Exact, NEW s \in Stream, NEW i \in 1 .. Last(s), NEW petty \in Nat \ {0}
  PROVE  LET price == Price(s, i, petty)
             after == [petty |-> price.petty, surcharge |-> price.surcharge]
         IN  /\ after \in Ledger /\ LedgerExact(Terms[s][i], after)
             /\ price.gross \in Nat /\ price.gross >= petty
             /\ price.petty = book[s][i].paid.petty + petty
             /\ price.gross = (price.petty + price.surcharge)
                              - (book[s][i].paid.petty + book[s][i].paid.surcharge)
<1>1. /\ i \in Hop /\ Terms[s][i].ppp \in Nat /\ Terms[s][i].period \in Nat
      /\ LegalTerms(Terms[s][i])
  BY RouteFacts
<1>2. /\ book[s][i].paid \in [petty : Nat, surcharge : Nat]
      /\ LedgerExact(Terms[s][i], book[s][i].paid)
  BY <1>1, FieldFacts DEF Ledger, Exact
<1> QED
  BY <1>1, <1>2, GrossToPayLemma DEF Price, Ledger

(* A payment that is begun, at the source or at a proxy, is on top of what  *)
(* its payer has recorded, and has its channel to itself.                   *)
LEMMA BeginStep ==
  ASSUME ChannelInv, NEW h \in Request \X Hop, L(h) = NoLeg,
         NEW s \in Stream, NEW petty \in 1 .. MaxPetty, h[2] \in 1 .. Last(s),
         CanPay(s, h[2]), h[2] = 1 \/ Back(h) \in Legs,
         request' \in [Request -> Ask \cup {NoLeg}],
         request'[h[1]] = [stream |-> s, petty |-> petty],
         \A q \in Request : request'[q] = request[q] \/ (q = h[1] /\ request[q] = NoLeg),
         leg' = [leg EXCEPT ![h[1]][h[2]] = NewLeg(s, h[2], petty)],
         UNCHANGED <<out, inb, book, credit>>
  PROVE  /\ ChannelInv'
         /\ h \notin Legs /\ Legs' = Legs \cup {h}
         /\ L(h)' = NewLeg(s, h[2], petty)
         /\ \A g \in Legs : /\ L(g)' = L(g) /\ ChanOf(g)' = ChanOf(g)
                            /\ StreamOf(g)' = StreamOf(g) /\ PettyOf(g)' = PettyOf(g)
         /\ StreamOf(h)' = s /\ PettyOf(h)' = petty /\ ChanOf(h)' = Route[s][h[2]]
<1> DEFINE c == Route[s][h[2]]
           new == NewLeg(s, h[2], petty)
           v == new.voucher
           price == Price(s, h[2], petty)
<1>0. Typed /\ Routed /\ Exact
  BY DEF ChannelInv
<1>1. h[1] \in Request /\ h[2] \in Hop /\ c \in Chan /\ petty \in Nat \ {0}
  BY RouteFacts, MaxPettyAssumption
<1>2. /\ out[c].nonce \in Nat /\ out[c].redeemed \in Nat
  BY <1>0, <1>1, FieldFacts
<1>3. price.gross \in Nat /\ price.gross >= petty
  BY <1>0, <1>1, PriceFacts
<1>4. v = [nonce |-> out[c].nonce + 1, redeemed |-> out[c].redeemed + price.gross]
  BY DEF NewLeg, NextVoucher
<1>5. new = [voucher |-> v, sender |-> "waiting", payee |-> "asked", reply |-> NoReply]
  BY <1>4 DEF NewLeg, NextVoucher
<1> HIDE DEF price
<1>6. /\ v \in Voucher /\ v.nonce = out[c].nonce + 1 /\ v.redeemed > out[c].redeemed
  BY <1>1, <1>2, <1>3, <1>4 DEF Voucher
<1> HIDE DEF v
<1>7. new \in Leg
  BY <1>5, <1>6 DEF Leg
<1> HIDE DEF new
<1>8. /\ leg' \in [Request -> [Hop -> Leg \cup {NoLeg}]]
      /\ L(h)' = new
      /\ \A g \in Request \X Hop : g # h => L(g)' = L(g)
      /\ Legs' = Legs \cup {h}
  BY <1>0, <1>7, LegEffect DEF new
<1>9. h \notin Legs
  BY DEF Legs, L
<1>10. \A g \in Legs : /\ g \in Request \X Hop /\ g[1] \in Request
                       /\ request[g[1]] # NoLeg /\ ChanOf(g) \in Chan
                       /\ L(g).sender \in {"waiting", "paid", "failed"}
  BY <1>0, LegFacts, FieldFacts, NoneAssumption
<1>11. \A g \in Legs : /\ L(g)' = L(g) /\ ChanOf(g)' = ChanOf(g)
                       /\ StreamOf(g)' = StreamOf(g) /\ PettyOf(g)' = PettyOf(g)
  BY <1>8, <1>9, <1>10, SameRequest
<1>12. StreamOf(h)' = s /\ PettyOf(h)' = petty /\ ChanOf(h)' = c
  BY DEF StreamOf, PettyOf, ChanOf
<1>13. Typed'
  BY <1>0, <1>8 DEF Typed
<1>14. Routed'
  <2>1. ASSUME NEW q \in Request, NEW i \in Hop, request'[q] = NoLeg
        PROVE  leg'[q][i] = NoLeg
    <3>1. [stream |-> s, petty |-> petty] \in Ask
      BY DEF Ask
    <3>2. request[q] = NoLeg /\ q # h[1]
      BY <1>1, <2>1, <3>1, NoneAssumption
    <3>3. leg'[q] = leg[q]
      BY <1>0, <1>1, <3>2 DEF Typed
    <3> QED
      BY <1>0, <3>2, <3>3 DEF Routed
  <2>2. \A g \in Legs : /\ g[2] \in 1 .. Last(StreamOf(g)')
                        /\ g[2] = 1 \/ Back(g) \in Legs
    BY <1>0, <1>11 DEF Routed
  <2>3. Routed' <=> /\ \A q \in Request, i \in Hop : request'[q] = NoLeg => leg'[q][i] = NoLeg
                    /\ \A g \in Legs' : /\ g[2] \in 1 .. Last(StreamOf(g)')
                                        /\ g[2] = 1 \/ Back(g) \in Legs'
    BY DEF Routed, Back
  <2> QED
    BY <1>8, <1>12, <2>1, <2>2, <2>3
<1>15. Exact'
  BY <1>0 DEF Exact
<1>16. \A d \in Chan : ChanOK(d)'
  BY DEF ChannelInv, ChanOK, Level, Ahead
<1>17. ASSUME NEW g \in Legs
       PROVE  LegOK(g)'
  BY <1>11, LegOKKept DEF ChannelInv
<1>18. Current(h)'
  BY <1>5, <1>6, <1>8, <1>12 DEF Current
<1>19. LegOK(h)'
  <2>1. /\ new.voucher = v /\ new.sender = "waiting" /\ new.payee # "held"
        /\ new.reply # Receipt /\ new.reply.is # "loss"
    BY <1>5 DEF NoReply, Receipt
  <2>2. out[c].loss = NoVoucher
    BY DEF CanPay
  <2>3. v.nonce <= out[c].nonce + 1
    BY <1>2, <1>6
  <2> QED
    BY <1>6, <1>8, <1>12, <1>18, <2>1, <2>2, <2>3 DEF LegOK
<1>20. \A f \in Legs, g \in Legs : Alone(f, g)'
  BY <1>11, AloneKept DEF ChannelInv
<1>21. ASSUME NEW g \in Legs
       PROVE  Alone(g, h)' /\ Alone(h, g)'
  <2>1. ChanOf(g) = c => L(g).sender # "waiting"
    BY DEF CanPay, PayerLocked
  <2> QED
    BY <1>5, <1>8, <1>11, <1>12, <2>1 DEF Alone, NoReply, Receipt
<1>22. Alone(h, h)'
  BY DEF Alone
<1> QED
  BY <1>8, <1>9, <1>11, <1>12, <1>13, <1>14, <1>15, <1>16, <1>17, <1>19, <1>20, <1>21, <1>22
  DEF ChannelInv, new

(* A voucher whose handler holds the channel is the one after what both     *)
(* ends have recorded; nothing else of the channel is due, and no loss.     *)
LEMMA HeldFacts ==
  ASSUME ChannelInv, NEW h \in Legs, L(h).payee = "held"
  PROVE  /\ Level(ChanOf(h)) /\ ~Ahead(ChanOf(h)) /\ Current(h)
         /\ out[ChanOf(h)].loss = NoVoucher
         /\ L(h).voucher.redeemed > inb[ChanOf(h)].redeemed
         /\ L(h).voucher.nonce = inb[ChanOf(h)].nonce + 1
         /\ \A g \in Legs : ChanOf(g) = ChanOf(h) =>
               /\ L(g).payee = "held" => g = h
               /\ ~(Current(g) /\ L(g).reply = Receipt)
<1> DEFINE c == ChanOf(h)
           v == L(h).voucher
<1>0. Typed /\ Routed
  BY DEF ChannelInv
<1>1. L(h) \in Leg /\ c \in Chan
  BY <1>0, LegFacts
<1>2. /\ v.nonce \in Nat /\ v.redeemed \in Nat
      /\ out[c].nonce \in Nat /\ out[c].redeemed \in Nat
      /\ inb[c].nonce \in Nat /\ inb[c].redeemed \in Nat
  BY <1>0, <1>1, FieldFacts
<1>3. /\ v.nonce <= out[c].nonce + 1 /\ v.nonce > inb[c].nonce
      /\ Current(h) => v.redeemed > out[c].redeemed
  BY DEF ChannelInv, LegOK
<1>4. ChanOK(c)
  BY <1>1 DEF ChannelInv
<1>5. ~Ahead(c)
  BY <1>2, <1>3 DEF Ahead
<1>6. Level(c) /\ out[c].loss = NoVoucher
  BY <1>4, <1>5 DEF ChanOK
<1>7. Current(h) /\ v.nonce = inb[c].nonce + 1
  BY <1>2, <1>3, <1>6 DEF Level, Current
<1>8. ASSUME NEW g \in Legs, ChanOf(g) = c
      PROVE  /\ L(g).payee = "held" => g = h
             /\ ~(Current(g) /\ L(g).reply = Receipt)
  <2>1. Alone(g, h) /\ LegOK(g)
    BY DEF ChannelInv
  <2>2. L(g).payee = "held" => g = h
    BY <1>8, <2>1 DEF Alone
  <2>3. L(g).reply = Receipt => L(g).voucher.nonce <= inb[c].nonce
    BY <1>8, <2>1 DEF LegOK
  <2>4. Current(g) => L(g).voucher.nonce = inb[c].nonce + 1
    BY <1>6, <1>8 DEF Current, Level
  <2> QED
    BY <1>2, <2>2, <2>3, <2>4
<1> QED
  BY <1>3, <1>5, <1>6, <1>7, <1>8 DEF Level

(* The payee records the next voucher.                                      *)
LEMMA KeepStep ==
  ASSUME ChannelInv, NEW h \in Legs, L(h).payee = "held", Keep(h),
         UNCHANGED <<out, book, request>>, credit' \in [Stream -> Nat]
  PROVE  ChannelInv'
<1> DEFINE c == ChanOf(h)
           v == L(h).voucher
           new == [L(h) EXCEPT !.payee = "done", !.reply = Receipt]
<1>0. Typed /\ Routed /\ Exact
  BY DEF ChannelInv
<1>1. /\ h \in Request \X Hop /\ L(h) \in Leg /\ request[h[1]] \in Ask /\ c \in Chan
      /\ h[1] \in Request /\ h[2] \in Hop
  BY <1>0, LegFacts
<1>2. /\ new \in Leg /\ new.voucher = v /\ new.sender = L(h).sender
      /\ new.payee = "done" /\ new.reply = Receipt
  BY <1>1 DEF Leg
<1>3. leg' = [leg EXCEPT ![h[1]][h[2]] = new]
  BY <1>0, <1>1 DEF Keep, Reply, L, Typed
<1> HIDE DEF new
<1>4. /\ leg' \in [Request -> [Hop -> Leg \cup {NoLeg}]]
      /\ L(h)' = new
      /\ \A g \in Request \X Hop : g # h => L(g)' = L(g)
      /\ Legs' = Legs \cup {h}
  BY <1>0, <1>1, <1>2, <1>3, LegEffect
<1>5. Legs' = Legs /\ \A g \in Legs : g \in Request \X Hop
  BY <1>4 DEF Legs
<1>6. \A g \in Legs : ChanOf(g)' = ChanOf(g) /\ StreamOf(g)' = StreamOf(g)
  BY SameRequest
<1>7. /\ inb' = [inb EXCEPT ![c] = v] /\ v \in Voucher
      /\ inb'[c] = v
      /\ \A d \in Chan : d # c => inb'[d] = inb[d]
  BY <1>0, <1>1, FieldFacts DEF Keep, Typed
<1>8. Typed'
  BY <1>0, <1>4, <1>7 DEF Typed
<1>9. Routed'
  BY <1>0, <1>5, RoutedKept
<1>10. Exact'
  BY <1>0 DEF Exact
<1>11. /\ Level(c) /\ Current(h) /\ out[c].loss = NoVoucher
       /\ v.redeemed > inb[c].redeemed /\ v.nonce = inb[c].nonce + 1
       /\ \A g \in Legs : ChanOf(g) = c => /\ L(g).payee = "held" => g = h
                                           /\ ~(Current(g) /\ L(g).reply = Receipt)
  BY HeldFacts
<1>12. ASSUME NEW d \in Chan
       PROVE  ChanOK(d)'
  <2>1. CASE d = c
    BY <1>7, <1>11, <2>1 DEF ChanOK, Ahead, Level
  <2>2. CASE d # c
    BY <1>7, <2>2 DEF ChannelInv, ChanOK, Ahead, Level
  <2> QED
    BY <2>1, <2>2
<1>13. \A g \in Legs : Current(g)' <=> Current(g)
  BY <1>2, <1>4, <1>5, <1>6 DEF Current
<1>14. ASSUME NEW g \in Legs
       PROVE  LegOK(g)'
  <2>1. /\ ChanOf(g) \in Chan /\ L(g) \in Leg
    BY <1>0, LegFacts
  <2>2. LegOK(g)
    BY DEF ChannelInv
  <2>3. CASE ChanOf(g) # c
    <3>1. g # h
      BY <2>3
    <3> QED
      BY <1>4, <1>5, <1>6, <1>7, <2>1, <2>2, <2>3, <3>1, LegOKKept
  <2>4. CASE g = h
    <3>1. v.nonce <= v.nonce
      BY <1>0, <1>1, FieldFacts
    <3> QED
      BY <1>2, <1>4, <1>6, <1>7, <1>13, <2>2, <2>4, <3>1 DEF LegOK, Receipt
  <2>5. CASE ChanOf(g) = c /\ g # h
    <3>1. L(g)' = L(g) /\ ChanOf(g)' = c /\ L(g).payee # "held"
      BY <1>4, <1>5, <1>6, <1>11, <2>5
    <3>2. /\ inb[c].nonce \in Nat
          /\ L(g).voucher.nonce \in Nat
      BY <1>0, <1>1, <2>1, FieldFacts
    <3>3. L(g).reply.is = "loss" => L(g).reply.voucher.nonce \in Nat
      BY <1>0, <2>1, FieldFacts DEF Answer, NoReply, Receipt, Failure, Voucher
    <3>4. L(g).reply.is = "loss" => /\ L(g).reply.voucher.nonce <= inb'[c].nonce
                                    /\ L(g).reply.voucher.nonce # inb'[c].nonce
      BY <1>7, <1>11, <2>2, <2>5, <3>2, <3>3 DEF LegOK
    <3>5. L(g).reply = Receipt => L(g).voucher.nonce <= inb'[c].nonce /\ ~Current(g)
      BY <1>7, <1>11, <2>2, <2>5, <3>2 DEF LegOK
    <3> QED
      BY <1>13, <2>2, <2>5, <3>1, <3>4, <3>5 DEF LegOK
  <2> QED
    BY <2>3, <2>4, <2>5
<1>15. ASSUME NEW f \in Legs, NEW g \in Legs
       PROVE  Alone(f, g)'
  <2>1. Alone(f, g)
    BY DEF ChannelInv
  <2>2. ASSUME NEW e \in Legs
        PROVE  /\ L(e)'.sender = L(e).sender
               /\ L(e)'.payee = "held" => L(e).payee = "held"
               /\ e # h => L(e)' = L(e)
    BY <1>2, <1>4, <1>5
  <2>3. ASSUME ChanOf(f) = ChanOf(g), Current(f), Current(g),
               L(f)'.reply = Receipt, L(g)'.reply = Receipt, f # g
        PROVE  FALSE
    BY <1>11, <2>1, <2>2, <2>3 DEF Alone
  <2> QED
    BY <1>6, <1>13, <2>1, <2>2, <2>3 DEF Alone
<1> QED
  BY <1>5, <1>8, <1>9, <1>10, <1>12, <1>14, <1>15 DEF ChannelInv

(* The payer of a channel records what its payee has: by a receipt, or by   *)
(* bearing a loss.  Nothing signed before is on top of it.                  *)
LEMMA LearnStep ==
  ASSUME ChannelInv, NEW c \in Chan, Ahead(c),
         out'[c].nonce = inb[c].nonce, out'[c].redeemed = inb[c].redeemed,
         out'[c].loss = NoVoucher, \A d \in Chan : d # c => out'[d] = out[d],
         inb' = inb, request' = request, Legs' = Legs, Typed', Exact',
         \A g \in Legs : /\ L(g)'.voucher = L(g).voucher
                         /\ L(g)'.payee = L(g).payee /\ L(g)'.reply = L(g).reply
                         /\ ChanOf(g) # c => L(g)' = L(g)
                         /\ ChanOf(g) = c => L(g)'.sender # "waiting"
  PROVE  /\ ChannelInv'
         /\ \A g \in Legs : ChanOf(g) = c => ~Current(g)'
<1>0. Typed /\ Routed /\ Exact
  BY DEF ChannelInv
<1>1. \A g \in Legs : ChanOf(g)' = ChanOf(g)
  BY SameRequest
<1>3. /\ out[c].nonce \in Nat /\ inb[c].nonce \in Nat /\ inb[c].nonce = out[c].nonce + 1
  BY <1>0, FieldFacts DEF Ahead
<1>4. Routed'
  BY <1>0, RoutedKept
<1>5. ASSUME NEW d \in Chan
      PROVE  ChanOK(d)'
  <2>1. CASE d = c
    BY <2>1 DEF ChanOK, Level
  <2>2. CASE d # c
    BY <2>2 DEF ChannelInv, ChanOK, Level, Ahead
  <2> QED
    BY <2>1, <2>2
<1>6. ASSUME NEW g \in Legs, ChanOf(g) = c
      PROVE  ~Current(g)' /\ L(g)'.voucher.nonce <= out'[c].nonce + 1
  <2>1. L(g).voucher.nonce \in Nat /\ L(g).voucher.nonce <= out[c].nonce + 1
    BY <1>0, <1>6, LegFacts, FieldFacts DEF ChannelInv, LegOK
  <2> QED
    BY <1>1, <1>3, <1>6, <2>1 DEF Current
<1>7. ASSUME NEW g \in Legs
      PROVE  LegOK(g)'
  <2>1. ChanOf(g) \in Chan /\ LegOK(g)
    BY <1>0, LegFacts DEF ChannelInv
  <2>2. CASE ChanOf(g) # c
    BY <1>1, <2>1, <2>2, LegOKKept
  <2>3. CASE ChanOf(g) = c
    BY <1>1, <1>6, <2>1, <2>3 DEF LegOK
  <2> QED
    BY <2>2, <2>3
<1>8. ASSUME NEW f \in Legs, NEW g \in Legs
      PROVE  Alone(f, g)'
  <2>1. Alone(f, g) /\ ChanOf(f) \in Chan /\ ChanOf(g) \in Chan
    BY <1>0, LegFacts DEF ChannelInv
  <2>2. CASE ChanOf(f) # c /\ ChanOf(g) # c
    BY <1>1, <2>1, <2>2, AloneKept
  <2>3. CASE ChanOf(f) = c /\ ChanOf(g) = c
    BY <1>1, <1>6, <2>1, <2>3 DEF Alone
  <2>4. CASE ChanOf(f) # ChanOf(g)
    BY <1>1, <2>4 DEF Alone
  <2> QED
    BY <2>2, <2>3, <2>4
<1> QED
  BY <1>4, <1>5, <1>6, <1>7, <1>8 DEF ChannelInv

(* A payer that records a loss holds no channel any more.                   *)
LEMMA LossStep ==
  ASSUME ChannelInv, NEW c \in Chan, Ahead(c),
         out' = [out EXCEPT ![c].loss = inb[c]],
         inb' = inb, request' = request, Legs' = Legs, Typed', Exact',
         \A g \in Legs : /\ L(g)'.voucher = L(g).voucher
                         /\ L(g)'.payee = L(g).payee /\ L(g)'.reply = L(g).reply
                         /\ ChanOf(g) # c => L(g)' = L(g)
                         /\ ChanOf(g) = c => L(g)'.sender # "waiting"
  PROVE  /\ ChannelInv'
         /\ \A g \in Legs : Current(g)' <=> Current(g)
<1>0. Typed /\ Routed /\ Exact
  BY DEF ChannelInv
<1>1. \A g \in Legs : ChanOf(g)' = ChanOf(g)
  BY SameRequest
<1>2. /\ out'[c].nonce = out[c].nonce /\ out'[c].redeemed = out[c].redeemed
      /\ out'[c].loss = inb[c]
      /\ \A d \in Chan : d # c => out'[d] = out[d]
  BY <1>0 DEF Typed
<1>3. Routed'
  BY <1>0, RoutedKept
<1>4. ASSUME NEW d \in Chan
      PROVE  ChanOK(d)'
  <2>1. CASE d = c
    BY <1>2, <2>1 DEF ChanOK, Ahead
  <2>2. CASE d # c
    BY <1>2, <2>2 DEF ChannelInv, ChanOK, Level, Ahead
  <2> QED
    BY <2>1, <2>2
<1>5. \A g \in Legs : ChanOf(g) \in Chan /\ (Current(g)' <=> Current(g))
  BY <1>0, <1>1, <1>2, LegFacts DEF Current
<1>6. ASSUME NEW g \in Legs
      PROVE  LegOK(g)'
  <2>1. ChanOf(g) \in Chan /\ LegOK(g)
    BY <1>5 DEF ChannelInv
  <2>2. CASE ChanOf(g) # c
    BY <1>1, <1>2, <2>1, <2>2, LegOKKept
  <2>3. CASE ChanOf(g) = c
    BY <1>1, <1>2, <1>5, <2>1, <2>3 DEF LegOK
  <2> QED
    BY <2>2, <2>3
<1>7. ASSUME NEW f \in Legs, NEW g \in Legs
      PROVE  Alone(f, g)'
  <2>1. Alone(f, g)
    BY DEF ChannelInv
  <2> QED
    BY <1>1, <1>5, <2>1 DEF Alone
<1> QED
  BY <1>3, <1>4, <1>5, <1>6, <1>7 DEF ChannelInv

-----------------------------------------------------------------------------
(* What a proxy makes of a gross amount is an amount, of whatever sign.     *)
LEMMA ReceiveIsInt ==
  ASSUME NEW terms, terms.ppp \in Nat, terms.period \in Nat, LegalTerms(terms),
         NEW received \in [petty : Int, surcharge : Int], NEW gross \in Int
  PROVE  /\ PettyToReceive(terms, received, gross).petty \in Int
         /\ PettyToReceive(terms, received, gross).surcharge \in Int
<1> DEFINE came == PettyToReceive(terms, received, gross)
<1>1. CASE terms.ppp > 0
  <2> DEFINE ppp  == terms.ppp
             due  == IF received.surcharge = 0 THEN ppp
                     ELSE Periods(received.surcharge, ppp) * ppp - received.surcharge
             s1   == Lesser(due, gross)
             g1   == gross - s1
             left == ((received.surcharge + s1) \div ppp) * terms.period - received.petty
             p2   == IF g1 > 0 THEN Lesser(left, g1) ELSE 0
             g2   == g1 - p2
             n    == g2 \div (terms.period + ppp)
             g3   == g2 % (terms.period + ppp)
             s4   == Lesser(ppp, g3)
             p4   == g3 - s4
             now  == p2 + n * terms.period + p4
  <2>1. ppp \in Nat \ {0} /\ terms.period \in Nat \ {0}
    BY <1>1 DEF LegalTerms
  <2>2. received.surcharge \in Int /\ received.petty \in Int
    OBVIOUS
  <2>3. due \in Int
    BY <2>1, <2>2 DEF Periods
  <2> HIDE DEF due
  <2>4. s1 \in Int /\ g1 \in Int
    BY <2>3 DEF Lesser
  <2> HIDE DEF s1, g1
  <2>5. left \in Int
    BY <2>1, <2>2, <2>4
  <2> HIDE DEF left
  <2>6. p2 \in Int /\ g2 \in Int
    BY <2>4, <2>5 DEF Lesser
  <2> HIDE DEF p2, g2
  <2>7. n \in Int /\ g3 \in Int
    BY <2>1, <2>6
  <2> HIDE DEF n, g3
  <2>8. s4 \in Int /\ p4 \in Int
    BY <2>1, <2>7 DEF Lesser
  <2> HIDE DEF s4, p4
  <2>9. now \in Int /\ n * ppp \in Int
    BY <2>1, <2>6, <2>7, <2>8
  <2> HIDE DEF now
  <2>10. came = [petty |-> received.petty + now,
                 surcharge |-> received.surcharge + s1 + n * ppp + s4, now |-> now]
    BY <1>1, Zenon DEF PettyToReceive, now, s4, p4, n, g3, p2, g2, left, s1, g1, due
  <2>11. received.petty + now \in Int /\ received.surcharge + s1 + n * ppp + s4 \in Int
    BY <2>2, <2>4, <2>8, <2>9
  <2> QED
    BY <2>10, <2>11
<1>2. CASE ~(terms.ppp > 0)
  BY <1>2 DEF PettyToReceive
<1> QED
  BY <1>1, <1>2

(* An answer that records nothing.                                          *)
LEMMA AnswerStep ==
  ASSUME ChannelInv, NEW h \in Legs, NEW r, Reply(h, r),
         r = Failure \/ r = Loss(inb[ChanOf(h)]),
         UNCHANGED <<out, inb, book, request, credit>>
  PROVE  ChannelInv'
<1> DEFINE new == [L(h) EXCEPT !.payee = "done", !.reply = r]
<1>0. Typed /\ Routed
  BY DEF ChannelInv
<1>1. /\ h \in Request \X Hop /\ L(h) \in Leg /\ h[1] \in Request /\ h[2] \in Hop
      /\ inb[ChanOf(h)] \in Voucher
  BY <1>0, LegFacts, FieldFacts
<1>2. /\ new \in Leg /\ new.voucher = L(h).voucher /\ new.sender = L(h).sender
      /\ new.payee = "done" /\ new.reply = r
  <2>1. r \in Answer
    BY <1>1 DEF Answer, Loss
  <2> QED
    BY <1>1, <2>1 DEF Leg, Answer
<1>3. leg' = [leg EXCEPT ![h[1]][h[2]] = new]
  BY <1>0, <1>1 DEF Reply, L, Typed
<1> HIDE DEF new
<1> QED
  BY <1>2, <1>3, QuietStep

(* A handler that passes a check.                                           *)
LEMMA PassStep ==
  ASSUME ChannelInv, NEW h \in Legs, NEW where \in {"probed", "held"},
         leg' = [leg EXCEPT ![h[1]][h[2]].payee = where],
         where = "held" => L(h).voucher.nonce > inb[ChanOf(h)].nonce /\ ~PayeeLocked(ChanOf(h)),
         UNCHANGED <<out, inb, book, request, credit>>
  PROVE  ChannelInv'
<1> DEFINE new == [L(h) EXCEPT !.payee = where]
<1>0. Typed /\ Routed
  BY DEF ChannelInv
<1>1. /\ h \in Request \X Hop /\ L(h) \in Leg /\ h[1] \in Request /\ h[2] \in Hop
  BY <1>0, LegFacts
<1>2. /\ new \in Leg /\ new.voucher = L(h).voucher /\ new.sender = L(h).sender
      /\ new.payee = where /\ new.reply = L(h).reply
  BY <1>1 DEF Leg
<1>3. leg' = [leg EXCEPT ![h[1]][h[2]] = new]
  BY <1>0, <1>1 DEF L, Typed
<1> HIDE DEF new
<1> QED
  BY <1>2, <1>3, QuietStep

(* What the payer's half of a leg comes to.                                 *)
LEMMA ResolveEffect ==
  ASSUME ChannelInv, NEW h \in Legs, L(h).sender = "waiting",
         NEW how \in {"paid", "failed"}, Resolve(h, how)
  PROVE  /\ leg' \in [Request -> [Hop -> Leg \cup {NoLeg}]]
         /\ Legs' = Legs
         /\ leg' = [leg EXCEPT ![h[1]][h[2]] = [L(h) EXCEPT !.sender = how]]
         /\ [L(h) EXCEPT !.sender = how] \in Leg
         /\ L(h)'.sender = how
         /\ \A g \in Legs : /\ L(g)'.voucher = L(g).voucher
                            /\ L(g)'.payee = L(g).payee /\ L(g)'.reply = L(g).reply
                            /\ g # h => L(g)' = L(g)
                            /\ ChanOf(g) # ChanOf(h) => L(g)' = L(g)
                            /\ ChanOf(g) = ChanOf(h) => L(g)'.sender # "waiting"
<1> DEFINE new == [L(h) EXCEPT !.sender = how]
<1>0. Typed /\ Routed
  BY DEF ChannelInv
<1>1. /\ h \in Request \X Hop /\ L(h) \in Leg /\ h[1] \in Request /\ h[2] \in Hop
  BY <1>0, LegFacts
<1>2. /\ new \in Leg /\ new.voucher = L(h).voucher /\ new.sender = how
      /\ new.payee = L(h).payee /\ new.reply = L(h).reply
  BY <1>1 DEF Leg
<1>3. leg' = [leg EXCEPT ![h[1]][h[2]] = new]
  BY <1>0, <1>1 DEF Resolve, L, Typed
<1> HIDE DEF new
<1>4. /\ leg' \in [Request -> [Hop -> Leg \cup {NoLeg}]]
      /\ L(h)' = new
      /\ \A g \in Request \X Hop : g # h => L(g)' = L(g)
      /\ Legs' = Legs \cup {h}
  BY <1>0, <1>1, <1>2, <1>3, LegEffect
<1>5. \A g \in Legs : g \in Request \X Hop /\ Alone(g, h)
  BY DEF Legs, ChannelInv
<1>6. \A g \in Legs : ChanOf(g) = ChanOf(h) /\ g # h => L(g).sender # "waiting"
  BY <1>5 DEF Alone
<1> QED
  BY <1>2, <1>3, <1>4, <1>5, <1>6 DEF new

(* The reservations of a stream: only the payers' books change.             *)
LEMMA OpenStep == ASSUME ChannelInv, NEW s \in Stream, Open(s) PROVE ChannelInv'
<1>0. Typed /\ Routed /\ Exact
  BY DEF ChannelInv
<1>1. UNCHANGED <<out, inb, request, leg, credit>>
  BY DEF Open
<1>2. /\ book' \in [Stream -> [Hop -> [here : BOOLEAN, paid : Ledger,
                                       got : [petty : Int, surcharge : Int]]]]
      /\ \A t \in Stream, i \in Hop : book'[t][i].paid = book[t][i].paid
  <2> DEFINE opened == [i \in Hop |-> [book[s][i] EXCEPT !.here = i <= Last(s)]]
             Entry == [here : BOOLEAN, paid : Ledger, got : [petty : Int, surcharge : Int]]
  <2>1. book' = [book EXCEPT ![s] = opened]
    BY DEF Open
  <2>2. ASSUME NEW i \in Hop
        PROVE  opened[i] \in Entry /\ opened[i].paid = book[s][i].paid
    <3>1. book[s][i] \in Entry
      BY <1>0 DEF Typed
    <3>2. (i <= Last(s)) \in BOOLEAN
      OBVIOUS
    <3> QED
      BY <3>1, <3>2
  <2>3. opened \in [Hop -> Entry]
    BY <2>2
  <2> HIDE DEF opened
  <2> QED
    BY <1>0, <2>1, <2>2, <2>3 DEF Typed
<1>3. Typed'
  BY <1>0, <1>1, <1>2 DEF Typed
<1>4. Exact'
  BY <1>0, <1>2, RouteFacts DEF Exact
<1>5. /\ Legs' = Legs
      /\ \A g \in Legs : L(g)' = L(g) /\ ChanOf(g)' = ChanOf(g)
  BY <1>1, SameRequest DEF Legs, L
<1>6. Routed'
  BY <1>0, <1>1, <1>5, RoutedKept
<1>7. \A d \in Chan : ChanOK(d)'
  BY <1>1 DEF ChannelInv, ChanOK, Level, Ahead
<1>8. \A g \in Legs : LegOK(g)'
  BY <1>1, <1>5, LegOKKept DEF ChannelInv
<1>9. \A f \in Legs, g \in Legs : Alone(f, g)'
  BY <1>1, <1>5, AloneKept DEF ChannelInv
<1> QED
  BY <1>3, <1>4, <1>5, <1>6, <1>7, <1>8, <1>9 DEF ChannelInv

(* A payer that waits and has a receipt has paid for what the payee has     *)
(* recorded.                                                                *)
LEMMA ReceiptFacts ==
  ASSUME ChannelInv, NEW h \in Legs, L(h).sender = "waiting", L(h).reply = Receipt
  PROVE  /\ Current(h) /\ Ahead(ChanOf(h)) /\ L(h).voucher = inb[ChanOf(h)]
         /\ out[ChanOf(h)].loss = NoVoucher
<1> DEFINE c == ChanOf(h)
<1>0. Typed /\ Routed /\ LegOK(h)
  BY DEF ChannelInv
<1>1. c \in Chan /\ L(h) \in Leg
  BY <1>0, LegFacts
<1>2. ChanOK(c) /\ out[c].nonce \in Nat /\ inb[c].nonce \in Nat
  BY <1>0, <1>1, FieldFacts DEF ChannelInv
<1>3. Current(h) /\ L(h).voucher = inb[c] /\ out[c].loss = NoVoucher
  BY <1>0 DEF LegOK
<1>4. ~Level(c)
  BY <1>2, <1>3 DEF Level, Current
<1> QED
  BY <1>2, <1>3, <1>4 DEF ChanOK

(* A payer that waits and is shown a voucher that proves a loss is shown    *)
(* what the payee has recorded.                                             *)
LEMMA ProofFacts ==
  ASSUME ChannelInv, NEW h \in Legs, L(h).reply.is = "loss",
         Proves(ChanOf(h), L(h).reply.voucher)
  PROVE  Ahead(ChanOf(h)) /\ L(h).reply.voucher = inb[ChanOf(h)]
<1> DEFINE c == ChanOf(h)
           e == L(h).reply.voucher
<1>0. Typed /\ Routed /\ LegOK(h)
  BY DEF ChannelInv
<1>1. c \in Chan /\ L(h) \in Leg /\ L(h).reply \in Answer
  BY <1>0, LegFacts, FieldFacts
<1>2. ChanOK(c) /\ out[c].nonce \in Nat /\ inb[c].nonce \in Nat
  BY <1>0, <1>1, FieldFacts DEF ChannelInv
<1>3. e.nonce \in Nat
  BY <1>1 DEF Answer, NoReply, Receipt, Failure, Voucher
<1>4. e.nonce <= inb[c].nonce /\ (e.nonce = inb[c].nonce => e = inb[c]) /\ e.nonce > out[c].nonce
  BY <1>0 DEF LegOK, Proves
<1>5. ~Level(c)
  BY <1>2, <1>3, <1>4 DEF Level
<1>6. Ahead(c)
  BY <1>2, <1>5 DEF ChanOK
<1> QED
  BY <1>2, <1>3, <1>4, <1>6 DEF Ahead

(* What came in on the hop before, at a leg's proxy.                        *)
LEMMA IncomingIsInt ==
  ASSUME ChannelInv, NEW h \in Legs, h[2] # 1
  PROVE  /\ Back(h) \in Legs /\ StreamOf(Back(h)) = StreamOf(h)
         /\ Back(h)[1] = h[1] /\ Back(h)[2] = h[2] - 1 /\ h[2] - 1 \in 1 .. Last(StreamOf(h))
         /\ Incoming(Back(h)).petty \in Int /\ Incoming(Back(h)).surcharge \in Int
<1> DEFINE g == Back(h)
           s == StreamOf(h)
           i == h[2]
<1>0. Typed /\ Routed
  BY DEF ChannelInv
<1>1. /\ s \in Stream /\ i \in 1 .. Last(s) /\ i \in Hop /\ Last(s) \in Nat
  BY <1>0, LegFacts, RouteFacts
<1>2. g[1] = h[1] /\ g[2] = i - 1 /\ g \in Legs
  BY <1>0 DEF Back, Routed
<1>3. StreamOf(g) = s
  BY <1>2 DEF StreamOf
<1>4. i - 1 \in 1 .. Last(s) /\ g[2] + 1 = i
  BY <1>1, <1>2
<1>5. L(g) \in Leg /\ ChanOf(g) \in Chan
  BY <1>0, <1>2, LegFacts
<1>6. GrossReceived(g) \in Int
  BY <1>0, <1>5, FieldFacts DEF GrossReceived
<1>7. book[s][i].got \in [petty : Int, surcharge : Int]
  BY <1>0, <1>1 DEF Typed
<1>8. /\ Terms[s][i - 1].ppp \in Nat /\ Terms[s][i - 1].period \in Nat
      /\ LegalTerms(Terms[s][i - 1])
  BY <1>1, <1>4, RouteFacts
<1>9. Incoming(g) = PettyToReceive(Terms[s][i - 1], book[s][i].got, GrossReceived(g))
  BY <1>2, <1>3, <1>4 DEF Incoming
<1> QED
  BY <1>2, <1>3, <1>4, <1>6, <1>7, <1>8, <1>9, ReceiveIsInt

(* The payer commits.                                                       *)
LEMMA ConfirmStep ==
  ASSUME ChannelInv, NEW h \in Legs, Confirm(h)
  PROVE  /\ ChannelInv'
         /\ \A g \in Legs : ChanOf(g) = ChanOf(h) => ~Current(g)'
<1> DEFINE c == ChanOf(h)
           s == StreamOf(h)
           i == h[2]
           price == Price(s, i, PettyOf(h))
           came == Incoming(Back(h))
           after == [petty |-> price.petty, surcharge |-> price.surcharge]
           got == IF i = 1 THEN book[s][i].got
                  ELSE [petty |-> came.petty, surcharge |-> came.surcharge]
           Entry == [here : BOOLEAN, paid : Ledger, got : [petty : Int, surcharge : Int]]
           new == [[book[s][i] EXCEPT !.paid = after] EXCEPT !.got = got]
<1>0. Typed /\ Routed /\ Exact
  BY DEF ChannelInv
<1>1. /\ h \in Request \X Hop /\ L(h) \in Leg /\ c \in Chan /\ s \in Stream /\ i \in Hop
      /\ i \in 1 .. Last(s) /\ PettyOf(h) \in Nat \ {0}
  BY <1>0, LegFacts
<1>2. /\ L(h).sender = "waiting" /\ L(h).reply = Receipt
      /\ inb' = inb /\ request' = request /\ credit' = credit /\ Resolve(h, "paid")
      /\ out' = [out EXCEPT ![c].nonce = L(h).voucher.nonce, ![c].redeemed = L(h).voucher.redeemed]
      /\ book' = [book EXCEPT ![s][i].paid = after, ![s][i].got = IF i = 1 THEN @ ELSE
                     [petty |-> came.petty, surcharge |-> came.surcharge]]
  BY DEF Confirm, Answered, Back
<1>3. Ahead(c) /\ L(h).voucher = inb[c] /\ out[c].loss = NoVoucher
  BY <1>2, ReceiptFacts
<1>4. /\ out' \in [Chan -> [nonce : Nat, redeemed : Nat, loss : Voucher \cup {NoVoucher}]]
      /\ out'[c].nonce = inb[c].nonce /\ out'[c].redeemed = inb[c].redeemed
      /\ out'[c].loss = NoVoucher /\ \A d \in Chan : d # c => out'[d] = out[d]
  <2> DEFINE Entry0 == [nonce : Nat, redeemed : Nat, loss : Voucher \cup {NoVoucher}]
             o == [[out[c] EXCEPT !.nonce = inb[c].nonce] EXCEPT !.redeemed = inb[c].redeemed]
  <2>1. out[c] \in Entry0 /\ inb[c].nonce \in Nat /\ inb[c].redeemed \in Nat
    BY <1>0, <1>1, FieldFacts DEF Typed
  <2>2. out' = [out EXCEPT ![c] = o]
    BY <1>0, <1>1, <1>2, <1>3 DEF Typed
  <2>3. /\ o \in Entry0 /\ o.nonce = inb[c].nonce /\ o.redeemed = inb[c].redeemed
        /\ o.loss = NoVoucher
    BY <1>3, <2>1
  <2> HIDE DEF o
  <2> QED
    BY <1>0, <1>1, <2>2, <2>3 DEF Typed
<1>5. after \in Ledger /\ LedgerExact(Terms[s][i], after)
  BY <1>0, <1>1, PriceFacts
<1>6. got \in [petty : Int, surcharge : Int]
  <2>1. book[s][i].got \in [petty : Int, surcharge : Int]
    BY <1>0, <1>1 DEF Typed
  <2>2. i # 1 => came.petty \in Int /\ came.surcharge \in Int
    BY IncomingIsInt
  <2> QED
    BY <2>1, <2>2
<1> HIDE DEF after, price, came
<1>7. book' = [book EXCEPT ![s][i] = new]
  BY <1>0, <1>1, <1>2 DEF Typed
<1> HIDE DEF got
<1>8. new \in Entry /\ new.paid = after
  <2>1. book[s][i] \in Entry
    BY <1>0, <1>1 DEF Typed
  <2>2. ASSUME NEW r \in Entry, NEW p \in Ledger, NEW g \in [petty : Int, surcharge : Int]
        PROVE  LET x == [[r EXCEPT !.paid = p] EXCEPT !.got = g] IN x \in Entry /\ x.paid = p
    <3>1. [r EXCEPT !.paid = p] \in Entry /\ [r EXCEPT !.paid = p].paid = p
      OBVIOUS
    <3>2. ASSUME NEW y \in Entry
          PROVE  [y EXCEPT !.got = g] \in Entry /\ [y EXCEPT !.got = g].paid = y.paid
      OBVIOUS
    <3> QED
      BY <3>1, <3>2
  <2> HIDE DEF Entry
  <2> QED
    BY <1>5, <1>6, <2>1, <2>2
<1> HIDE DEF new
<1>9. /\ book' \in [Stream -> [Hop -> Entry]]
      /\ \A t \in Stream, j \in Hop : book'[t][j].paid = IF t = s /\ j = i THEN after
                                                         ELSE book[t][j].paid
  BY <1>0, <1>1, <1>7, <1>8 DEF Typed
<1>10. /\ leg' \in [Request -> [Hop -> Leg \cup {NoLeg}]]
       /\ Legs' = Legs
       /\ \A g \in Legs : /\ L(g)'.voucher = L(g).voucher
                          /\ L(g)'.payee = L(g).payee /\ L(g)'.reply = L(g).reply
                          /\ ChanOf(g) # c => L(g)' = L(g)
                          /\ ChanOf(g) = c => L(g)'.sender # "waiting"
  BY <1>2, ResolveEffect
<1>12. Typed'
  BY <1>0, <1>2, <1>4, <1>9, <1>10 DEF Typed
<1>13. Exact'
  BY <1>0, <1>1, <1>5, <1>9, RouteFacts DEF Exact
<1> QED
  BY <1>1, <1>2, <1>3, <1>4, <1>10, <1>12, <1>13, LearnStep

(* The payer gives up.                                                      *)
LEMMA GiveUpStep == ASSUME ChannelInv, NEW h \in Legs, GiveUp(h) PROVE ChannelInv'
<1> DEFINE new == [L(h) EXCEPT !.sender = "failed"]
<1>1. /\ L(h).sender = "waiting" /\ Resolve(h, "failed")
      /\ UNCHANGED <<out, inb, book, request, credit>>
  BY DEF GiveUp
<1>2. leg' = [leg EXCEPT ![h[1]][h[2]] = new] /\ new \in Leg
  BY <1>1, ResolveEffect
<1>3. L(h) \in Leg
  BY LegFacts DEF ChannelInv
<1>4. /\ new.voucher = L(h).voucher /\ new.sender = "failed"
      /\ new.payee = L(h).payee /\ new.reply = L(h).reply
  BY <1>3 DEF Leg
<1> HIDE DEF new
<1> QED
  BY <1>1, <1>2, <1>4, QuietStep

(* The payer records a loss.                                                *)
LEMMA LoseStep ==
  ASSUME ChannelInv, NEW h \in Legs, Lose(h), Proves(ChanOf(h), L(h).reply.voucher)
  PROVE  /\ ChannelInv'
         /\ \A g \in Legs : Current(g)' <=> Current(g)
         /\ Legs' = Legs /\ Ahead(ChanOf(h))
         /\ out' = [out EXCEPT ![ChanOf(h)].loss = inb[ChanOf(h)]]
<1> DEFINE c == ChanOf(h)
           Entry == [here : BOOLEAN, paid : Ledger, got : [petty : Int, surcharge : Int]]
<1>0. Typed /\ Routed /\ Exact
  BY DEF ChannelInv
<1>1. c \in Chan /\ inb[c] \in Voucher
  BY <1>0, LegFacts, FieldFacts
<1>2. /\ L(h).sender = "waiting" /\ L(h).reply.is = "loss" /\ Resolve(h, "failed")
      /\ UNCHANGED <<inb, request, credit>>
      /\ out' = [out EXCEPT ![c].loss = L(h).reply.voucher]
      /\ book' = [t \in Stream |-> [j \in Hop |->
                     IF j <= Last(t) /\ Route[t][j] = c THEN [book[t][j] EXCEPT !.here = FALSE]
                                                        ELSE book[t][j]]]
  BY DEF Lose
<1>3. Ahead(c) /\ L(h).reply.voucher = inb[c]
  BY <1>2, ProofFacts
<1>4. out' = [out EXCEPT ![c].loss = inb[c]]
  BY <1>2, <1>3
<1>5. /\ book' \in [Stream -> [Hop -> Entry]]
      /\ \A t \in Stream, j \in Hop : book'[t][j].paid = book[t][j].paid
  <2> DEFINE E(t, j) == IF j <= Last(t) /\ Route[t][j] = c THEN [book[t][j] EXCEPT !.here = FALSE]
                        ELSE book[t][j]
  <2>1. ASSUME NEW t \in Stream, NEW j \in Hop
        PROVE  E(t, j) \in Entry /\ E(t, j).paid = book[t][j].paid
    <3>1. book[t][j] \in Entry
      BY <1>0 DEF Typed
    <3> QED
      BY <3>1
  <2> HIDE DEF E
  <2>2. book' = [t \in Stream |-> [j \in Hop |-> E(t, j)]]
    BY <1>2 DEF E
  <2> HIDE DEF Entry
  <2> QED
    BY <2>1, <2>2
<1>6. /\ leg' \in [Request -> [Hop -> Leg \cup {NoLeg}]]
      /\ Legs' = Legs
      /\ \A g \in Legs : /\ L(g)'.voucher = L(g).voucher
                         /\ L(g)'.payee = L(g).payee /\ L(g)'.reply = L(g).reply
                         /\ ChanOf(g) # c => L(g)' = L(g)
                         /\ ChanOf(g) = c => L(g)'.sender # "waiting"
  BY <1>2, ResolveEffect
<1>7. out' \in [Chan -> [nonce : Nat, redeemed : Nat, loss : Voucher \cup {NoVoucher}]]
  BY <1>0, <1>1, <1>4 DEF Typed
<1>8. Typed'
  BY <1>0, <1>2, <1>5, <1>6, <1>7 DEF Typed
<1>9. Exact'
  BY <1>0, <1>5, RouteFacts DEF Exact
<1> QED
  BY <1>1, <1>2, <1>3, <1>4, <1>6, <1>8, <1>9, LossStep

(* The user bears a loss.                                                   *)
LEMMA BearStep ==
  ASSUME ChannelInv, NEW c \in Chan, Bear(c)
  PROVE  /\ ChannelInv'
         /\ \A g \in Legs : ChanOf(g) = c => ~Current(g)'
         /\ Ahead(c)
         /\ out' = [out EXCEPT ![c] = [nonce |-> inb[c].nonce, redeemed |-> inb[c].redeemed,
                                       loss |-> NoVoucher]]
<1>0. Typed /\ Routed /\ Exact
  BY DEF ChannelInv
<1>1. /\ out[c].loss # NoVoucher /\ ~PayerLocked(c)
      /\ UNCHANGED <<inb, book, request, leg, credit>>
      /\ out' = [out EXCEPT ![c] = [nonce |-> out[c].loss.nonce, redeemed |-> out[c].loss.redeemed,
                                    loss |-> NoVoucher]]
  BY DEF Bear
<1>2. Ahead(c) /\ out[c].loss = inb[c]
  BY <1>1 DEF ChannelInv, ChanOK
<1>3. out' = [out EXCEPT ![c] = [nonce |-> inb[c].nonce, redeemed |-> inb[c].redeemed,
                                 loss |-> NoVoucher]]
  BY <1>1, <1>2
<1>4. /\ out' \in [Chan -> [nonce : Nat, redeemed : Nat, loss : Voucher \cup {NoVoucher}]]
      /\ out'[c].nonce = inb[c].nonce /\ out'[c].redeemed = inb[c].redeemed
      /\ out'[c].loss = NoVoucher /\ \A d \in Chan : d # c => out'[d] = out[d]
  BY <1>0, <1>3, FieldFacts DEF Typed
<1>5. Typed' /\ Exact'
  BY <1>0, <1>1, <1>4 DEF Typed, Exact
<1>6. /\ Legs' = Legs
      /\ \A g \in Legs : L(g)' = L(g) /\ (ChanOf(g) = c => L(g).sender # "waiting")
  BY <1>1 DEF Legs, L, PayerLocked
<1> QED
  BY <1>1, <1>2, <1>3, <1>4, <1>5, <1>6, LearnStep

(* The source begins a payment.                                             *)
LEMMA StartStep ==
  ASSUME ChannelInv, NEW q \in Request, NEW petty \in 1 .. MaxPetty, NEW s \in Wants[q],
         Start(q, s, petty)
  PROVE  LET h == <<q, 1>>
         IN  /\ ChannelInv' /\ s \in Stream
             /\ h \notin Legs /\ Legs' = Legs \cup {h} /\ h[1] = q /\ h[2] = 1
             /\ L(h)' = NewLeg(s, 1, petty)
             /\ \A g \in Legs : /\ L(g)' = L(g) /\ ChanOf(g)' = ChanOf(g)
                                /\ StreamOf(g)' = StreamOf(g) /\ PettyOf(g)' = PettyOf(g)
             /\ StreamOf(h)' = s /\ PettyOf(h)' = petty /\ ChanOf(h)' = Route[s][1]
<1> DEFINE h == <<q, 1>>
<1>0. Typed /\ Routed
  BY DEF ChannelInv
<1>1. s \in Stream
  BY WantsAssumption
<1>2. 1 \in 1 .. Last(s) /\ 1 \in Hop
  BY <1>1, RouteFacts
<1>3. h \in Request \X Hop /\ h[1] = q /\ h[2] = 1
  BY <1>2
<1>4. /\ request[q] = NoLeg /\ CanPay(s, 1)
      /\ request' = [request EXCEPT ![q] = [stream |-> s, petty |-> petty]]
      /\ leg' = [leg EXCEPT ![q][1] = NewLeg(s, 1, petty)]
      /\ UNCHANGED <<out, inb, book, credit>>
  BY DEF Start
<1>5. L(h) = NoLeg
  BY <1>0, <1>2, <1>3, <1>4 DEF L, Routed
<1> DEFINE ask == [stream |-> s, petty |-> petty]
<1>6. ask \in Ask
  BY <1>1 DEF Ask
<1>7. /\ request' \in [Request -> Ask \cup {NoLeg}]
      /\ request'[h[1]] = ask
      /\ \A p \in Request : request'[p] = request[p] \/ (p = h[1] /\ request[p] = NoLeg)
  <2>1. request' = [request EXCEPT ![q] = ask] /\ request \in [Request -> Ask \cup {NoLeg}]
    BY <1>0, <1>4 DEF Typed
  <2> HIDE DEF ask, h
  <2>2. request' \in [Request -> Ask \cup {NoLeg}] /\ request'[q] = ask
    BY <1>6, <2>1
  <2>3. \A p \in Request : p # q => request'[p] = request[p]
    BY <2>1
  <2>4. request[q] = NoLeg /\ h[1] = q
    BY <1>3, <1>4
  <2> QED
    BY <2>2, <2>3, <2>4
<1>8. /\ CanPay(s, h[2]) /\ h[2] \in 1 .. Last(s)
      /\ leg' = [leg EXCEPT ![h[1]][h[2]] = NewLeg(s, h[2], petty)]
  BY <1>2, <1>3, <1>4
<1> HIDE DEF h
<1>9. /\ ChannelInv'
      /\ h \notin Legs /\ Legs' = Legs \cup {h}
      /\ L(h)' = NewLeg(s, h[2], petty)
      /\ \A g \in Legs : /\ L(g)' = L(g) /\ ChanOf(g)' = ChanOf(g)
                         /\ StreamOf(g)' = StreamOf(g) /\ PettyOf(g)' = PettyOf(g)
      /\ StreamOf(h)' = s /\ PettyOf(h)' = petty /\ ChanOf(h)' = Route[s][h[2]]
  BY <1>1, <1>3, <1>4, <1>5, <1>7, <1>8, BeginStep
<1> QED
  BY <1>1, <1>3, <1>9 DEF h

(* The proxy begins the next payment.                                       *)
LEMMA ForwardStep ==
  ASSUME ChannelInv, NEW h \in Legs, Forward(h)
  PROVE  LET n == NextHop(h)
             s == StreamOf(h)
         IN  /\ ChannelInv'
             /\ n \notin Legs /\ Legs' = Legs \cup {n} /\ n[1] = h[1] /\ n[2] = h[2] + 1
             /\ n[2] \in 1 .. Last(s)
             /\ L(n)' = NewLeg(s, h[2] + 1, PettyOf(h))
             /\ \A g \in Legs : /\ L(g)' = L(g) /\ ChanOf(g)' = ChanOf(g)
                                /\ StreamOf(g)' = StreamOf(g) /\ PettyOf(g)' = PettyOf(g)
             /\ StreamOf(n)' = s /\ PettyOf(n)' = PettyOf(h) /\ ChanOf(n)' = Route[s][h[2] + 1]
<1> DEFINE n == NextHop(h)
           s == StreamOf(h)
           petty == PettyOf(h)
<1>0. Typed /\ Routed
  BY DEF ChannelInv
<1>1. /\ h \in Request \X Hop /\ h[1] \in Request /\ request[h[1]] \in Ask
      /\ s \in Stream /\ h[2] \in 1 .. Last(s) /\ Last(s) \in Nat
  BY <1>0, LegFacts, RouteFacts
<1>2. /\ ~IsLast(h) /\ Onward(h) = "none" /\ CanPay(s, h[2] + 1)
      /\ leg' = [leg EXCEPT ![h[1]][h[2] + 1] = NewLeg(s, h[2] + 1, petty)]
      /\ UNCHANGED <<out, inb, book, request, credit>>
  BY DEF Forward
<1>3. h[2] + 1 \in 1 .. Last(s) /\ h[2] + 1 \in Hop
  BY <1>1, <1>2, RouteFacts DEF IsLast
<1>4. n \in Request \X Hop /\ n[1] = h[1] /\ n[2] = h[2] + 1 /\ Back(n) = h
  BY <1>1, <1>3 DEF NextHop, Back
<1>5. L(n) = NoLeg
  <2>1. L(n) \in Leg \cup {NoLeg}
    BY <1>0, <1>1, <1>3, <1>4 DEF Typed, L
  <2>2. \A x \in Leg : x.sender # "none"
    BY DEF Leg
  <2> QED
    BY <1>2, <2>1, <2>2 DEF Onward
<1>6. petty \in 1 .. MaxPetty /\ request[h[1]] = [stream |-> s, petty |-> petty]
  BY <1>1 DEF Ask, StreamOf, PettyOf
<1>7. /\ request' \in [Request -> Ask \cup {NoLeg}]
      /\ \A p \in Request : request'[p] = request[p] \/ (p = n[1] /\ request[p] = NoLeg)
  <2>1. request' = request /\ request \in [Request -> Ask \cup {NoLeg}]
    BY <1>0, <1>2 DEF Typed
  <2> HIDE DEF n, s, petty
  <2> QED
    BY <2>1
<1> HIDE DEF n, s, petty
<1>8. request'[n[1]] = [stream |-> s, petty |-> petty]
  BY <1>2, <1>4, <1>6
<1>9. /\ CanPay(s, n[2]) /\ n[2] \in 1 .. Last(s) /\ Back(n) \in Legs
      /\ leg' = [leg EXCEPT ![n[1]][n[2]] = NewLeg(s, n[2], petty)]
  BY <1>2, <1>3, <1>4
<1>10. /\ ChannelInv'
       /\ n \notin Legs /\ Legs' = Legs \cup {n}
       /\ L(n)' = NewLeg(s, n[2], petty)
       /\ \A g \in Legs : /\ L(g)' = L(g) /\ ChanOf(g)' = ChanOf(g)
                          /\ StreamOf(g)' = StreamOf(g) /\ PettyOf(g)' = PettyOf(g)
       /\ StreamOf(n)' = s /\ PettyOf(n)' = petty /\ ChanOf(n)' = Route[s][n[2]]
  BY <1>1, <1>2, <1>4, <1>5, <1>6, <1>7, <1>8, <1>9, BeginStep
<1> QED
  BY <1>4, <1>9, <1>10 DEF n, s, petty

(* The destination, or a proxy, has been paid.                              *)
LEMMA PaidStep ==
  ASSUME ChannelInv, NEW h \in Legs, Settle(h) \/ Collect(h)
  PROVE  /\ ChannelInv'
         /\ L(h).payee = "held" /\ Keep(h) /\ UNCHANGED <<out, book, request>>
<1>1. L(h).payee = "held" /\ Keep(h) /\ UNCHANGED <<out, book, request>>
  BY DEF Settle, Collect
<1>2. credit' \in [Stream -> Nat]
  <2>1. credit \in [Stream -> Nat] /\ StreamOf(h) \in Stream /\ PettyOf(h) \in Nat
    BY LegFacts DEF ChannelInv, Typed
  <2> QED
    BY <2>1 DEF Settle, Collect
<1> QED
  BY <1>1, <1>2, KeepStep

(* A handler checks, or refuses.                                            *)
LEMMA CheckStep ==
  ASSUME ChannelInv, NEW h \in Legs, Probe(h) \/ Hold(h) \/ Refuse(h)
  PROVE  ChannelInv'
<1>0. Typed /\ Routed
  BY DEF ChannelInv
<1>1. L(h) \in Leg /\ ChanOf(h) \in Chan /\ UNCHANGED <<out, inb, book, request, credit>>
  BY <1>0, LegFacts DEF Probe, Hold, Refuse
<1>2. CASE Reply(h, Loss(Evidence(h)))
  BY <1>1, <1>2, AnswerStep DEF Evidence
<1>3. CASE Reply(h, Failure)
  BY <1>1, <1>3, AnswerStep
<1>4. CASE leg' = [leg EXCEPT ![h[1]][h[2]].payee = "probed"]
  BY <1>1, <1>4, PassStep
<1>5. CASE Hold(h) /\ leg' = [leg EXCEPT ![h[1]][h[2]].payee = "held"]
  <2>1. CASE ~StaleNow(h)
    <3>1. L(h).voucher.nonce > inb[ChanOf(h)].nonce
      BY <1>0, <1>1, <2>1, FieldFacts DEF StaleNow, Stale
    <3> QED
      BY <1>1, <1>5, <3>1, PassStep DEF Hold
  <2>2. CASE StaleNow(h)
    BY <1>1, <1>5, <2>2, AnswerStep DEF Hold, Evidence
  <2> QED
    BY <2>1, <2>2
<1> QED
  BY <1>2, <1>3, <1>4, <1>5 DEF Probe, Hold, Refuse

(* Before anything is paid, both ends of every channel agree.                *)
LEMMA ChannelInit == Init => ChannelInv
<1> SUFFICES ASSUME Init PROVE ChannelInv
  OBVIOUS
<1>1. Legs = {}
  BY DEF Init, Legs
<1>2. Typed
  BY DEF Init, Typed, NoPayment, NothingPaid, Voucher, Ledger
<1>3. Exact
  BY RouteFacts DEF Init, Exact, LedgerExact, NothingPaid
<1>4. \A c \in Chan : ChanOK(c)
  BY DEF Init, ChanOK, Level, NoPayment
<1>5. Routed
  BY <1>1 DEF Init, Routed
<1> QED
  BY <1>1, <1>2, <1>3, <1>4, <1>5 DEF ChannelInv

(* Every step keeps the two ends of all channels, and the legs, in line.     *)
LEMMA ChannelNext == ChannelInv /\ [Next]_vars => ChannelInv'
<1> SUFFICES ASSUME ChannelInv, [Next]_vars PROVE ChannelInv'
  OBVIOUS
<1>1. ASSUME NEW s \in Stream, Open(s) PROVE ChannelInv'
  BY <1>1, OpenStep
<1>2. ASSUME NEW q \in Request, NEW petty \in 1 .. MaxPetty, NEW s \in Wants[q],
             Start(q, s, petty)
      PROVE  ChannelInv'
  BY <1>2, StartStep
<1>3. ASSUME NEW h \in Legs, Paying(h) PROVE ChannelInv'
  <2>1. CASE Confirm(h)
    BY <2>1, ConfirmStep
  <2>2. CASE GiveUp(h)
    BY <2>2, GiveUpStep
  <2>3. CASE Lose(h) /\ Proves(ChanOf(h), L(h).reply.voucher)
    BY <2>3, LoseStep
  <2>4. CASE Lose(h) /\ ~Proves(ChanOf(h), L(h).reply.voucher)
    BY <2>4, GiveUpStep DEF Lose, GiveUp
  <2> QED
    BY <1>3, <2>1, <2>2, <2>3, <2>4 DEF Paying
<1>4. ASSUME NEW h \in Legs, Receiving(h) PROVE ChannelInv'
  BY <1>4, CheckStep, PaidStep, ForwardStep DEF Receiving
<1>5. ASSUME NEW c \in Chan, Bear(c) PROVE ChannelInv'
  BY <1>5, BearStep
<1>6. CASE UNCHANGED vars
  <2>1. UNCHANGED <<out, inb, book, request, leg, credit>>
    BY <1>6 DEF vars
  <2>2. /\ Legs' = Legs
        /\ \A g \in Legs : L(g)' = L(g) /\ ChanOf(g)' = ChanOf(g)
    BY <2>1, SameRequest DEF Legs, L
  <2>3. Routed'
    BY <2>1, <2>2, RoutedKept DEF ChannelInv
  <2>4. \A g \in Legs : LegOK(g)'
    BY <2>1, <2>2, LegOKKept DEF ChannelInv
  <2>5. \A f \in Legs, g \in Legs : Alone(f, g)'
    BY <2>1, <2>2, AloneKept DEF ChannelInv
  <2>6. Typed' /\ Exact' /\ \A c \in Chan : ChanOK(c)'
    BY <2>1 DEF ChannelInv, Typed, Exact, ChanOK, Level, Ahead
  <2> QED
    BY <2>2, <2>3, <2>4, <2>5, <2>6 DEF ChannelInv
<1> QED
  BY <1>1, <1>2, <1>3, <1>4, <1>5, <1>6 DEF Next

(* The invariant of the channels' two ends and of what is on its way.       *)
THEOREM ChannelInvariant == Spec => []ChannelInv
BY ChannelInit, ChannelNext, PTL DEF Spec

(* A network loss a payer has recorded is what its payee holds, whatever is *)
(* delivered in the meantime (Receive, revert, BearNetworkLoss).            *)
THEOREM LossIsCurrentHolds == Spec => []LossIsCurrent
<1>1. ChannelInv => LossIsCurrent
  BY DEF ChannelInv, ChanOK, LossIsCurrent
<1> QED
  BY <1>1, ChannelInvariant, PTL

-----------------------------------------------------------------------------
(* The ledgers of PayLedger in terms of the payment protocol.               *)
Known == [c \in Chan |-> [nonce |-> out[c].nonce, redeemed |-> out[c].redeemed]]

(* The ledger follows what both ends have recorded.                         *)
LEMMA KnownFacts ==
  ASSUME Typed
  PROVE  /\ Known = [c \in Chan |-> Known[c]] /\ inb = [c \in Chan |-> inb[c]]
         /\ \A c \in Chan : Known[c] = [nonce |-> out[c].nonce, redeemed |-> out[c].redeemed]
         /\ \A c \in Chan : inb[c] = [nonce |-> inb[c].nonce, redeemed |-> inb[c].redeemed]
         /\ \A c \in Chan : Level(c) => Known[c] = inb[c]
         /\ \A c \in Chan : Ahead(c) => Known[c] # inb[c]
<1>1. Known = [c \in Chan |-> Known[c]]
  BY DEF Known
<1>2. inb = [c \in Chan |-> inb[c]]
  BY DEF Typed
<1>3. \A c \in Chan : Known[c] = [nonce |-> out[c].nonce, redeemed |-> out[c].redeemed]
  BY DEF Known
<1>4. \A c \in Chan : inb[c] = [nonce |-> inb[c].nonce, redeemed |-> inb[c].redeemed]
  BY DEF Typed, Voucher
<1>5. \A c \in Chan : Level(c) => Known[c] = inb[c]
  BY <1>3, <1>4 DEF Level
<1>6. \A c \in Chan : Ahead(c) => Known[c] # inb[c]
  <2>1. ASSUME NEW c \in Chan, Ahead(c), Known[c] = inb[c] PROVE FALSE
    <3>1. Known[c].nonce = out[c].nonce
      BY DEF Known
    <3>2. out[c].nonce \in Nat
      BY FieldFacts
    <3> QED
      BY <2>1, <3>1, <3>2 DEF Ahead
  <2> QED
    BY <2>1
<1> QED
  BY <1>1, <1>2, <1>3, <1>4, <1>5, <1>6

(* A voucher the payee records is a step of its ledger.                     *)
LEMMA KeepAccepts ==
  ASSUME ChannelInv, NEW h \in Legs, L(h).payee = "held", Keep(h), out' = out
  PROVE  Abstract!Accept(ChanOf(h))
<1> DEFINE c == ChanOf(h)
           v == L(h).voucher
<1>0. Typed /\ Routed
  BY DEF ChannelInv
<1>1. c \in Chan /\ L(h) \in Leg /\ v.redeemed \in Nat
  BY <1>0, LegFacts, FieldFacts
<1>2. Level(c) /\ v.nonce = inb[c].nonce + 1 /\ v.redeemed > inb[c].redeemed
  BY HeldFacts
<1>3. v = [nonce |-> v.nonce, redeemed |-> v.redeemed]
  BY <1>1 DEF Leg, Voucher
<1>4. inb' = [inb EXCEPT ![c] = v] /\ inb'[c] = v
  BY <1>0, <1>1 DEF Keep, Typed
<1>5. Known[c] = inb[c] /\ Known' = Known
  BY <1>0, <1>1, <1>2, KnownFacts DEF Known
<1> HIDE DEF c, v
<1>6. inb' = [inb EXCEPT ![c] = [nonce |-> inb[c].nonce + 1, redeemed |-> inb'[c].redeemed]]
  BY <1>2, <1>3, <1>4
<1> QED
  BY <1>1, <1>2, <1>4, <1>5, <1>6 DEF Abstract!Accept, Known, c

(* What the payer records is a step of its ledger.                          *)
LEMMA LearnLearns ==
  ASSUME ChannelInv, Typed', NEW c \in Chan, Ahead(c), inb' = inb,
         out'[c].nonce = inb[c].nonce, out'[c].redeemed = inb[c].redeemed,
         \A d \in Chan : d # c => out'[d] = out[d]
  PROVE  Abstract!Learn(c)
<1>1. Known[c] # inb[c]
  BY KnownFacts DEF ChannelInv
<1>2. Known'[c] = inb[c] /\ \A d \in Chan : d # c => Known'[d] = Known[d]
  <2>1. \A d \in Chan : Known'[d] = [nonce |-> out'[d].nonce, redeemed |-> out'[d].redeemed]
    BY DEF Known
  <2> QED
    BY <2>1, KnownFacts DEF ChannelInv
<1>3. Known' = [Known EXCEPT ![c] = inb[c]]
  BY <1>2 DEF Known
<1> QED
  BY <1>1, <1>3 DEF Abstract!Learn, Known

(* The payment protocol implements the ledger of every channel: payee and   *)
(* payer record the same vouchers in turns, over any routes and with any    *)
(* messages lost or late (Receive, Pay, revert, BearNetworkLoss).           *)
THEOREM ImplementsLedgerHolds == Spec => ImplementsLedger
<1>1. Init => Abstract!Init
  BY DEF Init, Abstract!Init, NoPayment, Abstract!NoPayment
<1>2. ChannelInv /\ ChannelInv' /\ [Next]_vars => [Abstract!Next]_(Abstract!vars)
  <2> SUFFICES ASSUME ChannelInv, ChannelInv', [Next]_vars
               PROVE  Abstract!Next \/ (Known' = Known /\ inb' = inb)
    BY DEF Abstract!vars, Known
  <2>0. Typed /\ Routed /\ Typed'
    BY DEF ChannelInv
  <2>1. ASSUME inb' = inb, out' = out
        PROVE  Known' = Known
    BY <2>1 DEF Known
  <2>2. ASSUME NEW h \in Legs, Settle(h) \/ Collect(h)
        PROVE  Abstract!Next
    BY <2>0, <2>2, PaidStep, KeepAccepts, LegFacts DEF Abstract!Next
  <2>3. ASSUME NEW h \in Legs, Confirm(h)
        PROVE  Abstract!Next
    <3>0. PICK c \in Chan : c = ChanOf(h)
      BY <2>0, LegFacts
    <3>1. L(h).sender = "waiting" /\ L(h).reply = Receipt /\ inb' = inb
      BY <2>3 DEF Confirm, Answered
    <3>2. Ahead(c) /\ L(h).voucher = inb[c]
      BY <3>0, <3>1, ReceiptFacts
    <3>3. out' = [out EXCEPT ![c].nonce = L(h).voucher.nonce, ![c].redeemed = L(h).voucher.redeemed]
      BY <2>3, <3>0 DEF Confirm
    <3>4. /\ out'[c].nonce = inb[c].nonce /\ out'[c].redeemed = inb[c].redeemed
          /\ \A d \in Chan : d # c => out'[d] = out[d]
      BY <2>0, <3>1, <3>2, <3>3 DEF Typed
    <3>5. Abstract!Learn(c)
      BY <2>0, <3>1, <3>2, <3>4, LearnLearns
    <3> QED
      BY <3>5 DEF Abstract!Next
  <2>4. ASSUME NEW c \in Chan, Bear(c)
        PROVE  Abstract!Next
    <3>1. /\ out' = [out EXCEPT ![c] = [nonce |-> inb[c].nonce, redeemed |-> inb[c].redeemed,
                                        loss |-> NoVoucher]]
          /\ Ahead(c) /\ inb' = inb
      BY <2>4, BearStep DEF Bear
    <3>2. /\ out'[c].nonce = inb[c].nonce /\ out'[c].redeemed = inb[c].redeemed
          /\ \A d \in Chan : d # c => out'[d] = out[d]
      BY <2>0, <3>1 DEF Typed
    <3>3. Abstract!Learn(c)
      BY <2>0, <3>1, <3>2, LearnLearns
    <3> QED
      BY <3>3 DEF Abstract!Next
  <2>5. ASSUME NEW h \in Legs, Lose(h)
        PROVE  Known' = Known /\ inb' = inb
    <3> DEFINE c == ChanOf(h)
    <3>1. c \in Chan /\ inb' = inb
      BY <2>0, <2>5, LegFacts DEF Lose
    <3>2. out' = out \/ out' = [out EXCEPT ![c].loss = L(h).reply.voucher]
      BY <2>5 DEF Lose
    <3>3. \A d \in Chan : out'[d].nonce = out[d].nonce /\ out'[d].redeemed = out[d].redeemed
      BY <2>0, <3>1, <3>2 DEF Typed
    <3> QED
      BY <3>1, <3>3 DEF Known
  <2>6. ASSUME NEW h \in Legs, GiveUp(h) \/ Probe(h) \/ Hold(h) \/ Forward(h) \/ Refuse(h)
        PROVE  Known' = Known /\ inb' = inb
    BY <2>1, <2>6 DEF GiveUp, Probe, Hold, Forward, Refuse
  <2>7. CASE UNCHANGED vars \/ \E s \in Stream : Open(s)
    BY <2>1, <2>7 DEF vars, Open
  <2>8. CASE \E q \in Request, petty \in 1 .. MaxPetty : \E s \in Wants[q] : Start(q, s, petty)
    BY <2>1, <2>8 DEF Start
  <2>9. CASE \E h \in Legs : Paying(h) \/ Receiving(h)
    <3>1. PICK h \in Legs : Paying(h) \/ Receiving(h)
      BY <2>9
    <3> QED
      BY <2>2, <2>3, <2>5, <2>6, <3>1 DEF Paying, Receiving
  <2>10. CASE \E c \in Chan : Bear(c)
    BY <2>4, <2>10
  <2> QED
    BY <2>7, <2>8, <2>9, <2>10 DEF Next
<1> QED
  BY <1>1, <1>2, ChannelInvariant, PTL DEF Spec, ImplementsLedger, Abstract!Spec

(* The two ends of a channel are at most one voucher apart.                 *)
LEMMA WithinOne == ChannelInv => Abstract!OneApart
<1> SUFFICES ASSUME ChannelInv
             PROVE  Abstract!OneApart
  OBVIOUS
<1>1. Typed
  BY DEF ChannelInv
<1>2. /\ Known \in [Chan -> Abstract!Voucher] /\ inb \in [Chan -> Abstract!Voucher]
      /\ \A c \in Chan : Known[c].nonce = out[c].nonce /\ Known[c].redeemed = out[c].redeemed
  BY <1>1, FieldFacts DEF Known, Typed, Voucher, Abstract!Voucher
<1>3. ASSUME NEW c \in Chan
      PROVE  \/ Known[c] = inb[c]
             \/ /\ inb[c].nonce = Known[c].nonce + 1
                /\ inb[c].redeemed > Known[c].redeemed
  <2>1. Level(c) \/ Ahead(c)
    BY DEF ChannelInv, ChanOK
  <2> QED
    BY <1>1, <1>2, <2>1, KnownFacts DEF Ahead
<1> QED
  BY <1>2, <1>3 DEF Abstract!OneApart, Known

(* Payer and payee of a channel have recorded the same voucher, or the      *)
(* payee has one more: nobody ever has to bear more than one voucher.       *)
THEOREM OneApartHolds == Spec => []Abstract!OneApart
BY ChannelInvariant, WithinOne, PTL

-----------------------------------------------------------------------------
(* The reservations along a route.                                          *)

(* What the payer of a leg will have paid once it commits.                  *)
After(h) == LET price == Price(StreamOf(h), h[2], PettyOf(h))
            IN  [petty |-> price.petty, surcharge |-> price.surcharge]

(* A leg is due when its payment has been made onward, or credited, and its *)
(* payer has not recorded it yet.                                           *)
Due(h) == /\ Current(h)
          /\ L(h).reply = Receipt \/ (L(h).payee = "held" /\ Onward(h) = "paid")
DueAt(s, i) == {h \in Legs : StreamOf(h) = s /\ h[2] = i /\ Due(h)}

(* What a leg was priced at, and what holds of the leg before it.           *)
LegBooked(h) ==
    LET c == ChanOf(h)
        s == StreamOf(h)
    IN
    /\ Current(h) =>
          /\ L(h).voucher.redeemed = out[c].redeemed + Price(s, h[2], PettyOf(h)).gross
          /\ book[s][h[2]].here \/ out[c].loss # NoVoucher
    /\ L(h).reply = NoReply <=> L(h).payee # "done"
    /\ h[2] # 1 => /\ L(Back(h)).payee \in {"held", "done"}
                   /\ L(h).sender = "waiting" => L(Back(h)).payee = "held"

(* What has been paid onward, or credited, for what the payer of a hop pays.*)
Passed(s, i) == IF i = Last(s) THEN credit[s] ELSE book[s][i + 1].paid.petty

(* The ledgers at both ends of a hop: they say the same unless a leg is due,*)
(* and then what they will say.                                             *)
HopBooked(s, i) ==
    LET paid == book[s][i].paid IN
    /\ book[s][i].here => out[Route[s][i]].loss = NoVoucher
    /\ book[s][i].got \in Ledger
    /\ paid = NothingPaid => book[s][i].got = NothingPaid
    /\ paid.petty <= Passed(s, i)
    /\ \A h \in DueAt(s, i) : paid.petty + PettyOf(h) <= Passed(s, i)
    /\ i # Last(s) /\ book[s][i].here /\ book[s][i + 1].here =>
          /\ \A h \in DueAt(s, i) : book[s][i + 1].got = After(h)
          /\ DueAt(s, i) = {} => book[s][i + 1].got = paid

RouteInv == /\ \A h \in Legs : LegBooked(h)
            /\ \A s \in Stream : \A i \in 1 .. Last(s) : HopBooked(s, i)
            /\ \A s \in Stream, i \in Hop : i > Last(s) => book[s][i].got \in Ledger

-----------------------------------------------------------------------------
(* A leg and the legs before and after it on the same request.              *)
LEMMA Neighbours ==
  ASSUME Typed, Routed
  PROVE  /\ \A h \in Legs : /\ Back(NextHop(h)) = h /\ NextHop(Back(h)) = h
                            /\ Back(h) # h /\ NextHop(h) # h
                            /\ NextHop(h) \in Legs => NextHop(h)[2] # 1
         /\ \A h \in Legs : h[2] # 1 => Back(h) \in Legs
<1>1. ASSUME NEW h \in Legs
      PROVE  /\ Back(NextHop(h)) = h /\ NextHop(Back(h)) = h
             /\ Back(h) # h /\ NextHop(h) # h
             /\ NextHop(h)[2] # 1
  <2>1. h \in Request \X Hop /\ h[2] \in 1 .. Last(StreamOf(h)) /\ StreamOf(h) \in Stream
    BY LegFacts
  <2>2. h[2] \in Nat /\ h[2] >= 1 /\ h = <<h[1], h[2]>>
    BY <2>1, RouteFacts
  <2>3. /\ Back(h)[1] = h[1] /\ Back(h)[2] = h[2] - 1
        /\ NextHop(h)[1] = h[1] /\ NextHop(h)[2] = h[2] + 1
    BY DEF Back, NextHop
  <2>4. /\ Back(NextHop(h)) = <<NextHop(h)[1], NextHop(h)[2] - 1>>
        /\ NextHop(Back(h)) = <<Back(h)[1], Back(h)[2] + 1>>
    BY DEF Back, NextHop
  <2>5. h[2] + 1 - 1 = h[2] /\ h[2] - 1 + 1 = h[2] /\ h[2] + 1 # h[2] /\ h[2] - 1 # h[2] /\ h[2] + 1 # 1
    BY <2>2
  <2>6. Back(NextHop(h)) = h /\ NextHop(Back(h)) = h
    <3>1. NextHop(h)[2] - 1 = h[2] /\ Back(h)[2] + 1 = h[2]
      BY <2>2, <2>3
    <3> QED
      BY <2>2, <2>3, <2>4, <3>1, Zenon
  <2>7. Back(h) # h /\ NextHop(h) # h
    BY <2>3, <2>5
  <2> QED
    BY <2>3, <2>5, <2>6, <2>7
<1>2. \A h \in Legs : h[2] # 1 => Back(h) \in Legs
  BY DEF Routed
<1> QED
  BY <1>1, <1>2

(* How the next leg stands.                                                 *)
LEMMA OnwardIs ==
  Typed /\ Routed =>
    \A h \in Legs : Onward(h) = IF NextHop(h) \in Legs THEN L(NextHop(h)).sender ELSE "none"
<1> SUFFICES ASSUME Typed, Routed, NEW h \in Legs
             PROVE  Onward(h) = IF NextHop(h) \in Legs THEN L(NextHop(h)).sender ELSE "none"
  OBVIOUS
<1>1. /\ h[1] \in Request /\ h[2] \in 1 .. Last(StreamOf(h)) /\ StreamOf(h) \in Stream
  BY LegFacts
<1>2. Last(StreamOf(h)) \in Nat
  BY <1>1, RouteFacts
<1>3. NextHop(h)[1] = h[1] /\ NextHop(h)[2] = h[2] + 1
  BY DEF NextHop
<1>4. StreamOf(NextHop(h)) = StreamOf(h)
  BY <1>3 DEF StreamOf
<1>5. NextHop(h) \in Legs => ~IsLast(h) /\ L(NextHop(h)) # NoLeg
  <2>1. NextHop(h) \in Legs => h[2] + 1 \in 1 .. Last(StreamOf(h))
    BY <1>3, <1>4, LegFacts
  <2> QED
    BY <1>1, <1>2, <2>1 DEF IsLast, Legs, L
<1>6. ~IsLast(h) /\ L(NextHop(h)) # NoLeg => NextHop(h) \in Legs
  <2>1. ~IsLast(h) => h[2] + 1 \in Hop
    BY <1>1, <1>2, RouteFacts DEF IsLast
  <2> QED
    BY <1>1, <1>3, <2>1 DEF Legs, L, NextHop
<1> QED
  BY <1>5, <1>6 DEF Onward

(* How the next leg stands after a step.                                    *)
LEMMA OnwardIsNext ==
  Typed' /\ Routed' =>
    \A h \in Legs' : Onward(h)' = IF NextHop(h) \in Legs' THEN L(NextHop(h))'.sender ELSE "none"
<1>1. (Typed /\ Routed =>
    \A h \in Legs : Onward(h) = IF NextHop(h) \in Legs THEN L(NextHop(h)).sender ELSE "none")'
  BY OnwardIs, PTL
<1> QED
  BY <1>1 DEF NextHop

(* The ledgers of a hop are as before when they, the price and the due legs *)
(* of the hop are.                                                          *)
LEMMA HopKept ==
  ASSUME NEW s, NEW i, HopBooked(s, i),
         book'[s][i] = book[s][i],
         i = Last(s) \/ book'[s][i + 1] = book[s][i + 1],
         i # Last(s) \/ credit'[s] = credit[s],
         out'[Route[s][i]].loss = out[Route[s][i]].loss,
         DueAt(s, i)' = DueAt(s, i),
         \A h \in DueAt(s, i) : PettyOf(h)' = PettyOf(h) /\ After(h)' = After(h)
  PROVE  HopBooked(s, i)'
<1>1. Passed(s, i)' = Passed(s, i)
  BY DEF Passed
<1> QED
  BY <1>1 DEF HopBooked

(* What a leg will have paid follows from the ledger of its hop.            *)
LEMMA AfterKept ==
  ASSUME NEW h, StreamOf(h)' = StreamOf(h), PettyOf(h)' = PettyOf(h),
         book'[StreamOf(h)][h[2]].paid = book[StreamOf(h)][h[2]].paid
  PROVE  After(h)' = After(h) /\ Price(StreamOf(h), h[2], PettyOf(h))'
                                 = Price(StreamOf(h), h[2], PettyOf(h))
BY DEF After, Price

(* Which legs are due changes only with the legs of the hop.                *)
LEMMA DueAtKept ==
  ASSUME NEW s, NEW i, \A h \in Legs : StreamOf(h)' = StreamOf(h),
         \A h \in Legs : StreamOf(h) = s /\ h[2] = i => (Due(h)' <=> Due(h)),
         \A h \in Legs' : h \in Legs \/ ~Due(h)', Legs \subseteq Legs'
  PROVE  DueAt(s, i)' = DueAt(s, i)
<1>1. DueAt(s, i)' = {h \in Legs' : StreamOf(h)' = s /\ h[2] = i /\ Due(h)'}
  BY DEF DueAt
<1> QED
  BY <1>1 DEF DueAt

(* A step that records nothing, and makes no leg due, leaves the ledgers of *)
(* all routes as they are.                                                  *)
LEMMA QuietRoute ==
  ASSUME ChannelInv, ChannelInv', RouteInv, NEW h \in Legs, NEW new \in Leg,
         leg' = [leg EXCEPT ![h[1]][h[2]] = new],
         UNCHANGED <<out, book, request, credit>>,
         new.voucher = L(h).voucher,
         new.sender = L(h).sender \/ (L(h).sender = "waiting" /\ new.sender = "failed"),
         new.reply = Receipt <=> L(h).reply = Receipt,
         new.reply = NoReply <=> new.payee # "done",
         \/ new.payee = L(h).payee
         \/ L(h).payee \in {"asked", "probed"}
         \/ L(h).payee = "held" /\ Hopeless(h) /\ new.payee = "done"
  PROVE  RouteInv'
<1>0. Typed /\ Routed /\ Typed' /\ Routed'
  BY DEF ChannelInv
<1>1. h \in Request \X Hop /\ L(h) \in Leg
  BY <1>0, LegFacts
<1>2. /\ L(h)' = new
      /\ \A g \in Request \X Hop : g # h => L(g)' = L(g)
      /\ Legs' = Legs
  <2>1. /\ L(h)' = new
        /\ \A g \in Request \X Hop : g # h => L(g)' = L(g)
        /\ Legs' = Legs \cup {h}
    BY <1>0, <1>1, LegEffect
  <2> QED
    BY <2>1
<1>3. \A g \in Legs : /\ g \in Request \X Hop /\ g[2] \in 1 .. Last(StreamOf(g))
                      /\ StreamOf(g) \in Stream /\ L(g) \in Leg
                      /\ ChanOf(g)' = ChanOf(g) /\ StreamOf(g)' = StreamOf(g)
                      /\ PettyOf(g)' = PettyOf(g)
  BY <1>0, LegFacts, SameRequest
<1>4. \A g \in Legs : /\ L(g)'.voucher = L(g).voucher /\ (Current(g)' <=> Current(g))
                      /\ L(g)'.reply = Receipt <=> L(g).reply = Receipt
                      /\ L(g)'.sender = "paid" <=> L(g).sender = "paid"
                      /\ L(g)'.sender = "waiting" => L(g).sender = "waiting"
  BY <1>2, <1>3 DEF Current
<1>5. \A g \in Legs : (Onward(g)' = "paid") <=> (Onward(g) = "paid")
  <2>1. \A g \in Legs : Onward(g) = IF NextHop(g) \in Legs THEN L(NextHop(g)).sender ELSE "none"
    BY <1>0, OnwardIs
  <2>2. \A g \in Legs : Onward(g)' = IF NextHop(g) \in Legs THEN L(NextHop(g))'.sender ELSE "none"
    BY <1>0, <1>2, OnwardIsNext
  <2> QED
    BY <1>4, <2>1, <2>2
(* Before it holds the channel, a handler has begun no payment of its own.  *)
<1>6. \A g \in Legs : L(g).payee \in {"asked", "probed"} => NextHop(g) \notin Legs
  <2>1. \A g \in Legs : NextHop(g) \in Legs => L(g).payee \in {"held", "done"}
    <3>1. \A g \in Legs : Back(NextHop(g)) = g /\ (NextHop(g) \in Legs => NextHop(g)[2] # 1)
      BY <1>0, Neighbours
    <3>2. \A g \in Legs : g[2] # 1 => L(Back(g)).payee \in {"held", "done"}
      BY DEF RouteInv, LegBooked
    <3> QED
      BY <3>1, <3>2
  <2> QED
    BY <2>1
<1>7. ASSUME NEW g \in Legs PROVE Due(g)' <=> Due(g)
  <2>1. CASE g # h
    BY <1>2, <1>3, <1>4, <1>5, <2>1 DEF Due
  <2>2. CASE g = h
    <3>1. Onward(h) = "paid" => NextHop(h) \in Legs
      BY <1>0, OnwardIs
    <3>2. new.payee = L(h).payee \/ Onward(h) # "paid"
      BY <1>6, <3>1 DEF Hopeless
    <3> QED
      BY <1>2, <1>4, <1>5, <2>2, <3>2 DEF Due
  <2> QED
    BY <2>1, <2>2
<1>8. ASSUME NEW g \in Legs PROVE LegBooked(g)'
  <2> DEFINE s == StreamOf(g)
             c == ChanOf(g)
  <2>0. LegBooked(g)
    BY DEF RouteInv
  <2>1. Current(g)' => /\ L(g)'.voucher.redeemed = out'[c].redeemed + Price(s, g[2], PettyOf(g))'.gross
                       /\ book'[s][g[2]].here \/ out'[c].loss # NoVoucher
    BY <1>3, <1>4, <2>0, AfterKept DEF LegBooked
  <2>2. L(g)'.reply = NoReply <=> L(g)'.payee # "done"
    BY <1>2, <1>3, <2>0 DEF LegBooked
  <2>3. ASSUME g[2] # 1
        PROVE  /\ L(Back(g))'.payee \in {"held", "done"}
               /\ L(g)'.sender = "waiting" => L(Back(g))'.payee = "held"
    <3>1. /\ L(Back(g)).payee \in {"held", "done"} /\ Back(g) \in Legs
          /\ L(g).sender = "waiting" => L(Back(g)).payee = "held"
      BY <1>0, <2>0, <2>3, Neighbours DEF LegBooked
    <3>2. CASE Back(g) # h
      BY <1>2, <1>3, <1>4, <3>1, <3>2
    <3>3. CASE Back(g) = h
      <4>1. NextHop(h) = g /\ Onward(h) = L(g).sender
        BY <1>0, <3>3, Neighbours, OnwardIs
      <4> QED
        BY <1>2, <1>4, <1>6, <3>1, <3>3, <4>1 DEF Hopeless
    <3> QED
      BY <3>2, <3>3
  <2>4. Price(StreamOf(g), g[2], PettyOf(g))' = Price(s, g[2], PettyOf(g))'
    OBVIOUS
  <2> QED
    BY <1>3, <2>1, <2>2, <2>3, <2>4 DEF LegBooked, Back
<1>9. ASSUME NEW s \in Stream, NEW i \in 1 .. Last(s) PROVE HopBooked(s, i)'
  <2>1. DueAt(s, i)' = DueAt(s, i)
    BY <1>2, <1>3, <1>7, DueAtKept
  <2>2. \A g \in DueAt(s, i) : PettyOf(g)' = PettyOf(g) /\ After(g)' = After(g)
    BY <1>3, AfterKept DEF DueAt
  <2> QED
    BY <2>1, <2>2, HopKept DEF RouteInv
<1> QED
  BY <1>2, <1>8, <1>9 DEF RouteInv

(* A handler that checks or refuses.                                        *)
LEMMA CheckRoute ==
  ASSUME ChannelInv, ChannelInv', RouteInv, NEW h \in Legs, Probe(h) \/ Hold(h) \/ Refuse(h)
  PROVE  RouteInv'
<1>0. Typed /\ Routed
  BY DEF ChannelInv
<1>1. /\ h \in Request \X Hop /\ L(h) \in Leg /\ h[1] \in Request /\ h[2] \in Hop
      /\ L(h).reply \in Answer /\ inb[ChanOf(h)] \in Voucher
  BY <1>0, LegFacts, FieldFacts
<1>2. /\ UNCHANGED <<out, book, request, credit>>
      /\ L(h).payee \in {"asked", "probed"} \/ (L(h).payee = "held" /\ Hopeless(h))
  BY DEF Probe, Hold, Refuse
<1>3. L(h).reply = NoReply
  <2>1. L(h).reply = NoReply <=> L(h).payee # "done"
    BY DEF RouteInv, LegBooked
  <2> QED
    BY <1>2, <2>1
<1>4. ASSUME NEW r \in {Failure, Loss(inb[ChanOf(h)])}, Reply(h, r)
      PROVE  RouteInv'
  <2> DEFINE new == [L(h) EXCEPT !.payee = "done", !.reply = r]
  <2>1. r \in Answer /\ r # Receipt /\ r # NoReply
    BY <1>1 DEF Answer, Failure, Loss, Receipt, NoReply
  <2>2. /\ new \in Leg /\ new.voucher = L(h).voucher /\ new.sender = L(h).sender
        /\ new.payee = "done" /\ new.reply = r
    BY <1>1, <2>1 DEF Leg, Answer
  <2>3. leg' = [leg EXCEPT ![h[1]][h[2]] = new]
    BY <1>0, <1>1, <1>4 DEF Reply, L, Typed
  <2> HIDE DEF new
  <2>4. L(h).reply # Receipt
    BY <1>3 DEF NoReply, Receipt
  <2> QED
    BY <1>2, <2>1, <2>2, <2>3, <2>4, QuietRoute
<1>5. ASSUME NEW where \in {"probed", "held"}, leg' = [leg EXCEPT ![h[1]][h[2]].payee = where],
             L(h).payee \in {"asked", "probed"}
      PROVE  RouteInv'
  <2> DEFINE new == [L(h) EXCEPT !.payee = where]
  <2>1. /\ new \in Leg /\ new.voucher = L(h).voucher /\ new.sender = L(h).sender
        /\ new.payee = where /\ new.reply = L(h).reply
    BY <1>1 DEF Leg
  <2>2. leg' = [leg EXCEPT ![h[1]][h[2]] = new]
    BY <1>0, <1>1, <1>5 DEF L, Typed
  <2> HIDE DEF new
  <2>3. new.reply = NoReply <=> new.payee # "done"
    BY <1>3, <2>1
  <2>4. new.reply = Receipt <=> L(h).reply = Receipt
    BY <2>1
  <2> QED
    BY <1>2, <1>5, <2>1, <2>2, <2>3, <2>4, QuietRoute
<1>6. CASE Probe(h)
  BY <1>4, <1>5, <1>6 DEF Probe, Evidence
<1>7. CASE Hold(h)
  BY <1>4, <1>5, <1>7 DEF Hold, Evidence
<1>8. CASE Refuse(h)
  BY <1>4, <1>8 DEF Refuse
<1> QED
  BY <1>6, <1>7, <1>8

(* A payer that gives up, or is shown a voucher that proves nothing.        *)
LEMMA GiveUpRoute ==
  ASSUME ChannelInv, ChannelInv', RouteInv, NEW h \in Legs, GiveUp(h)
  PROVE  RouteInv'
<1> DEFINE new == [L(h) EXCEPT !.sender = "failed"]
<1>1. /\ L(h).sender = "waiting" /\ Resolve(h, "failed")
      /\ UNCHANGED <<out, book, request, credit>>
  BY DEF GiveUp
<1>2. leg' = [leg EXCEPT ![h[1]][h[2]] = new] /\ new \in Leg
  BY <1>1, ResolveEffect
<1>3. L(h) \in Leg
  BY LegFacts DEF ChannelInv
<1>4. /\ new.voucher = L(h).voucher /\ new.sender = "failed"
      /\ new.payee = L(h).payee /\ new.reply = L(h).reply
  BY <1>3 DEF Leg
<1>5. L(h).reply = NoReply <=> L(h).payee # "done"
  BY DEF RouteInv, LegBooked
<1> HIDE DEF new
<1>6. /\ new.reply = NoReply <=> new.payee # "done"
      /\ new.reply = Receipt <=> L(h).reply = Receipt
  BY <1>4, <1>5
<1> QED
  BY <1>1, <1>2, <1>4, <1>6, QuietRoute

(* A payment that begins is not due.                                        *)
LEMMA BeginRoute ==
  ASSUME ChannelInv, ChannelInv', RouteInv,
         NEW s \in Stream, NEW petty, NEW h, h[2] \in 1 .. Last(s), CanPay(s, h[2]),
         h[2] # 1 => /\ Back(h) \in Legs /\ NextHop(Back(h)) = h /\ L(Back(h)).payee = "held",
         h \notin Legs, Legs' = Legs \cup {h}, L(h)' = NewLeg(s, h[2], petty),
         \A g \in Legs : /\ L(g)' = L(g) /\ ChanOf(g)' = ChanOf(g)
                         /\ StreamOf(g)' = StreamOf(g) /\ PettyOf(g)' = PettyOf(g),
         StreamOf(h)' = s, PettyOf(h)' = petty, ChanOf(h)' = Route[s][h[2]],
         UNCHANGED <<out, book, credit>>
  PROVE  RouteInv'
<1>0. Typed /\ Routed /\ Typed' /\ Routed'
  BY DEF ChannelInv
<1>1. \A g \in Legs : Current(g)' <=> Current(g)
  BY DEF Current
<1>2. \A g \in Legs : (Onward(g)' = "paid") <=> (Onward(g) = "paid")
  <2>1. \A g \in Legs : Onward(g) = IF NextHop(g) \in Legs THEN L(NextHop(g)).sender ELSE "none"
    BY <1>0, OnwardIs
  <2>2. \A g \in Legs : Onward(g)' = IF NextHop(g) \in Legs' THEN L(NextHop(g))'.sender ELSE "none"
    BY <1>0, OnwardIsNext
  <2>3. L(h)'.sender = "waiting"
    BY DEF NewLeg
  <2> QED
    BY <2>1, <2>2, <2>3
<1>3. L(h)'.reply = NoReply /\ L(h)'.payee = "asked" /\ L(h)'.sender = "waiting"
  BY DEF NewLeg
<1>4. ~Due(h)' /\ \A g \in Legs : Due(g)' <=> Due(g)
  BY <1>1, <1>2, <1>3 DEF Due, NoReply, Receipt
<1>5. ASSUME NEW g \in Legs PROVE LegBooked(g)'
  <2>1. LegBooked(g) /\ (g[2] # 1 => Back(g) \in Legs)
    BY <1>0, Neighbours DEF RouteInv
  <2>2. Price(StreamOf(g), g[2], PettyOf(g))' = Price(StreamOf(g), g[2], PettyOf(g))
    BY AfterKept
  <2>3. g[2] # 1 => L(Back(g))' = L(Back(g)) /\ Back(g)' = Back(g)
    BY <2>1 DEF Back
  <2> QED
    BY <1>1, <2>1, <2>2, <2>3 DEF LegBooked
<1>6. LegBooked(h)'
  <2>1. L(h)'.voucher.redeemed = out'[Route[s][h[2]]].redeemed + Price(s, h[2], petty)'.gross
    BY DEF NewLeg, NextVoucher, Price
  <2>2. book'[s][h[2]].here
    BY DEF CanPay
  <2>3. h[2] # 1 => L(Back(h))'.payee = "held" /\ Back(h)' = Back(h)
    BY DEF Back
  <2>4. Price(StreamOf(h), h[2], PettyOf(h))' = Price(s, h[2], petty)'
    BY DEF Price
  <2> QED
    BY <1>3, <2>1, <2>2, <2>3, <2>4 DEF LegBooked
<1>7. ASSUME NEW t \in Stream, NEW i \in 1 .. Last(t) PROVE HopBooked(t, i)'
  <2>1. DueAt(t, i)' = DueAt(t, i)
    BY <1>4, DueAtKept
  <2>2. \A g \in DueAt(t, i) : PettyOf(g)' = PettyOf(g) /\ After(g)' = After(g)
    BY AfterKept DEF DueAt
  <2> QED
    BY <2>1, <2>2, HopKept DEF RouteInv
<1> QED
  BY <1>5, <1>6, <1>7 DEF RouteInv

(* What becomes of a leg whose handler commits.                             *)
LEMMA KeepEffect ==
  ASSUME ChannelInv, NEW h \in Legs, Keep(h)
  PROVE  /\ Legs' = Legs
         /\ \A g \in Legs : /\ L(g)'.voucher = L(g).voucher /\ L(g)'.sender = L(g).sender
                            /\ g # h => L(g)' = L(g)
         /\ L(h)'.payee = "done" /\ L(h)'.reply = Receipt
<1> DEFINE new == [L(h) EXCEPT !.payee = "done", !.reply = Receipt]
<1>0. Typed /\ Routed
  BY DEF ChannelInv
<1>1. h \in Request \X Hop /\ L(h) \in Leg /\ h[1] \in Request /\ h[2] \in Hop
  BY <1>0, LegFacts
<1>2. /\ new \in Leg /\ new.voucher = L(h).voucher /\ new.sender = L(h).sender
      /\ new.payee = "done" /\ new.reply = Receipt
  BY <1>1 DEF Leg
<1>3. leg' = [leg EXCEPT ![h[1]][h[2]] = new]
  BY <1>0, <1>1 DEF Keep, Reply, L, Typed
<1> HIDE DEF new
<1>4. /\ L(h)' = new
      /\ \A g \in Request \X Hop : g # h => L(g)' = L(g)
      /\ Legs' = Legs \cup {h}
  BY <1>0, <1>1, <1>2, <1>3, LegEffect
<1>5. \A g \in Legs : g \in Request \X Hop
  BY DEF Legs
<1> QED
  BY <1>2, <1>4, <1>5

(* At most one leg of a channel is due, and none while a handler that has   *)
(* not passed its payment on holds it.                                      *)
LEMMA DueAlone ==
  ASSUME ChannelInv, NEW g \in Legs, Due(g), NEW h \in Legs, ChanOf(g) = ChanOf(h)
  PROVE  (Due(h) => g = h) /\ (L(h).payee = "held" => g = h)
<1>1. /\ L(h).payee = "held" => ~(Current(g) /\ L(g).reply = Receipt) /\ (L(g).payee = "held" => g = h)
      /\ L(g).payee = "held" => ~(Current(h) /\ L(h).reply = Receipt) /\ (L(h).payee = "held" => g = h)
  BY HeldFacts
<1>2. Alone(g, h)
  BY DEF ChannelInv
<1> QED
  BY <1>1, <1>2 DEF Due, Alone

(* The destination credits, or a proxy collects.                            *)
LEMMA PaidRoute ==
  ASSUME ChannelInv, ChannelInv', RouteInv, NEW h \in Legs, Settle(h) \/ Collect(h)
  PROVE  RouteInv'
<1>0. Typed /\ Routed /\ Typed' /\ Routed'
  BY DEF ChannelInv
<1>1. L(h).payee = "held" /\ Keep(h) /\ UNCHANGED <<out, book, request>>
  BY DEF Settle, Collect
<1>2. /\ Legs' = Legs
      /\ \A g \in Legs : /\ L(g)'.voucher = L(g).voucher /\ L(g)'.sender = L(g).sender
                         /\ g # h => L(g)' = L(g)
      /\ L(h)'.payee = "done" /\ L(h)'.reply = Receipt
  BY <1>1, KeepEffect
<1>3. \A g \in Legs : /\ g[2] \in 1 .. Last(StreamOf(g)) /\ StreamOf(g) \in Stream
                      /\ ChanOf(g)' = ChanOf(g) /\ StreamOf(g)' = StreamOf(g)
                      /\ PettyOf(g)' = PettyOf(g) /\ PettyOf(g) \in Nat
                      /\ L(g).sender # "none"
  BY <1>0, <1>1, LegFacts, SameRequest DEF Leg
<1>4. \A g \in Legs : Current(g)' <=> Current(g)
  BY <1>1, <1>2, <1>3 DEF Current
<1>5. \A g \in Legs : Onward(g) = IF NextHop(g) \in Legs THEN L(NextHop(g)).sender ELSE "none"
  BY <1>0, OnwardIs
<1>6. \A g \in Legs : Onward(g)' = Onward(g)
  <2>1. \A g \in Legs : Onward(g)' = IF NextHop(g) \in Legs THEN L(NextHop(g))'.sender ELSE "none"
    BY <1>0, <1>2, OnwardIsNext
  <2> QED
    BY <1>2, <1>5, <2>1
<1>7. Current(h) /\ Due(h)'
  <2>1. Current(h)
    BY <1>1, HeldFacts
  <2> QED
    BY <1>2, <1>4, <2>1 DEF Due
<1>8. \A g \in Legs : g # h => (Due(g)' <=> Due(g))
  BY <1>2, <1>4, <1>6 DEF Due
<1>9. Onward(h) # "waiting"
  BY DEF Settle, Collect, PassedOn, Onward
<1>10. ASSUME NEW g \in Legs PROVE LegBooked(g)'
  <2>1. LegBooked(g) /\ (g[2] # 1 => Back(g) \in Legs /\ NextHop(Back(g)) = g)
    BY <1>0, Neighbours DEF RouteInv
  <2>2. Price(StreamOf(g), g[2], PettyOf(g))' = Price(StreamOf(g), g[2], PettyOf(g))
    BY <1>1, <1>3, AfterKept
  <2>3. L(g)'.reply = NoReply <=> L(g)'.payee # "done"
    BY <1>2, <2>1 DEF LegBooked, NoReply, Receipt
  <2>4. ASSUME g[2] # 1
        PROVE  /\ L(Back(g))'.payee \in {"held", "done"}
               /\ L(g)'.sender = "waiting" => L(Back(g))'.payee = "held"
    <3>1. /\ L(Back(g)).payee \in {"held", "done"}
          /\ L(g).sender = "waiting" => L(Back(g)).payee = "held"
      BY <2>1, <2>4 DEF LegBooked
    <3>2. CASE Back(g) # h
      BY <1>2, <2>1, <2>4, <3>1, <3>2
    <3>3. CASE Back(g) = h
      BY <1>2, <1>5, <1>9, <2>1, <2>4, <3>3
    <3> QED
      BY <3>2, <3>3
  <2>5. Back(g)' = Back(g)
    BY DEF Back
  <2>6. L(g)'.voucher = L(g).voucher
    BY <1>2
  <2> QED
    BY <1>1, <1>3, <1>4, <2>1, <2>2, <2>3, <2>4, <2>5, <2>6 DEF LegBooked
<1>11. ASSUME NEW t \in Stream, NEW i \in 1 .. Last(t),
              \A g \in Legs : StreamOf(g) = t /\ g[2] = i => (Due(g)' <=> Due(g)),
              i # Last(t) \/ credit'[t] = credit[t]
       PROVE  HopBooked(t, i)'
  <2>1. DueAt(t, i)' = DueAt(t, i)
    BY <1>2, <1>3, <1>11, DueAtKept
  <2>2. \A g \in DueAt(t, i) : PettyOf(g)' = PettyOf(g) /\ After(g)' = After(g)
    BY <1>1, <1>3, AfterKept DEF DueAt
  <2> QED
    BY <1>1, <1>11, <2>1, <2>2, HopKept DEF RouteInv
<1>12. CASE Collect(h)
  <2>1. Due(h) /\ credit' = credit
    BY <1>7, <1>12 DEF Due, Collect, PassedOn
  <2> QED
    BY <1>1, <1>2, <1>7, <1>8, <1>10, <1>11, <2>1 DEF RouteInv
<1>13. CASE Settle(h)
  <2>0. PICK s \in Stream, petty \in Nat : s = StreamOf(h) /\ petty = PettyOf(h)
    BY <1>3
  <2> DEFINE i == Last(s)
  <2>1. /\ h[2] = i /\ s \in Stream /\ i \in 1 .. i /\ petty \in Nat
        /\ credit' = [credit EXCEPT ![s] = @ + petty]
    BY <1>3, <1>13, <2>0 DEF Settle, IsLast
  <2>2. /\ credit[s] \in Nat /\ credit'[s] = credit[s] + petty
        /\ \A t \in Stream : t # s => credit'[t] = credit[t]
    BY <1>0, <2>1 DEF Typed
  <2>3. \A g \in Legs : StreamOf(g) = s /\ g[2] = i => ~(Due(g) /\ g # h)
    BY <1>1, <2>0, <2>1, DueAlone DEF ChanOf
  <2>4. DueAt(s, i)' = {h}
    <3>1. DueAt(s, i)' = {g \in Legs : StreamOf(g)' = s /\ g[2] = i /\ Due(g)'}
      BY <1>2, <1>3 DEF DueAt
    <3> QED
      BY <1>3, <1>7, <1>8, <2>0, <2>1, <2>3, <3>1
  <2>5. HopBooked(s, i)'
    <3>1. HopBooked(s, i)
      BY <2>1 DEF RouteInv
    <3>2. book[s][i].paid.petty \in Nat
      BY <1>0, <2>1, RouteFacts, FieldFacts DEF Ledger
    <3>3. book[s][i].paid.petty <= credit[s]
      BY <3>1 DEF HopBooked, Passed
    <3>4. book[s][i].paid.petty + petty <= credit'[s] /\ book[s][i].paid.petty <= credit'[s]
      BY <2>1, <2>2, <3>2, <3>3
    <3>5. PettyOf(h)' = petty
      BY <1>3, <2>0
    <3>7. Passed(s, i)' = credit'[s]
      BY DEF Passed
    <3>6. HopBooked(s, i)' <=>
             /\ book'[s][i].here => out'[Route[s][i]].loss = NoVoucher
             /\ book'[s][i].got \in Ledger
             /\ book'[s][i].paid = NothingPaid => book'[s][i].got = NothingPaid
             /\ book'[s][i].paid.petty <= credit'[s]
             /\ \A g \in DueAt(s, i)' : book'[s][i].paid.petty + PettyOf(g)' <= credit'[s]
      BY <3>7 DEF HopBooked
    <3> QED
      BY <1>1, <2>4, <3>1, <3>4, <3>5, <3>6 DEF HopBooked
  <2>6. ASSUME NEW t \in Stream, NEW j \in 1 .. Last(t), t # s \/ j # i
        PROVE  HopBooked(t, j)'
    <3>1. \A g \in Legs : StreamOf(g) = t /\ g[2] = j => g # h
      BY <2>0, <2>1, <2>6
    <3> QED
      BY <1>8, <1>11, <2>2, <2>6, <3>1
  <2>7. \A t \in Stream : \A j \in 1 .. Last(t) : HopBooked(t, j)'
    BY <2>5, <2>6
  <2> HIDE DEF i
  <2> QED
    BY <1>1, <1>2, <1>10, <2>7 DEF RouteInv
<1> QED
  BY <1>12, <1>13

(* A proxy whose reservation is in place, and that has not passed the       *)
(* payment on yet, reads in what has come in what the payer will record.    *)
LEMMA ProxyReads ==
  ASSUME ChannelInv, RouteInv, NEW h \in Legs, L(h).payee = "held", ~IsLast(h),
         Onward(h) # "paid", book[StreamOf(h)][h[2] + 1].here
  PROVE  /\ Incoming(h).now = PettyOf(h)
         /\ Incoming(h).petty = After(h).petty /\ Incoming(h).surcharge = After(h).surcharge
         /\ DueAt(StreamOf(h), h[2]) = {}
         /\ GrossReceived(h) \in Nat
         /\ Incoming(h).petty + Incoming(h).surcharge
              = GivenOn(<<StreamOf(h), h[2]>>) + GrossReceived(h)
<1> DEFINE c == ChanOf(h)
           s == StreamOf(h)
           i == h[2]
           petty == PettyOf(h)
           paid == book[s][i].paid
           price == Price(s, i, petty)
<1>0. Typed /\ Routed /\ Exact
  BY DEF ChannelInv
<1>1. /\ s \in Stream /\ i \in 1 .. Last(s) /\ petty \in Nat \ {0} /\ c \in Chan
      /\ c = Route[s][i] /\ L(h) \in Leg /\ i # Last(s)
  BY <1>0, LegFacts DEF IsLast, ChanOf
<1>2. Level(c) /\ Current(h) /\ out[c].loss = NoVoucher
  BY HeldFacts
<1>3. LegBooked(h) /\ HopBooked(s, i)
  BY <1>1 DEF RouteInv
<1>4. book[s][i].here /\ L(h).voucher.redeemed = out[c].redeemed + price.gross
  BY <1>2, <1>3 DEF LegBooked
<1>5. ~Due(h)
  BY <1>3 DEF Due, LegBooked, NoReply, Receipt
<1>6. DueAt(s, i) = {}
  BY <1>5, DueAlone DEF DueAt, ChanOf
<1>7. book[s][i + 1].got = paid
  BY <1>1, <1>3, <1>4, <1>6 DEF HopBooked
<1>8. /\ paid \in [petty : Nat, surcharge : Nat] /\ LedgerExact(Terms[s][i], paid)
      /\ Terms[s][i].ppp \in Nat /\ Terms[s][i].period \in Nat /\ LegalTerms(Terms[s][i])
  BY <1>0, <1>1, RouteFacts, FieldFacts DEF Exact, Ledger
<1>9. price.gross \in Nat /\ out[c].redeemed \in Nat
  BY <1>0, <1>1, PriceFacts, FieldFacts
<1>10. GrossReceived(h) = price.gross
  BY <1>2, <1>4, <1>9 DEF GrossReceived, Level
<1>11. Incoming(h) = PettyToReceive(Terms[s][i], paid, GrossToPay(Terms[s][i], paid, petty).gross)
  BY <1>7, <1>10 DEF Incoming, Price
<1>12. After(h) = [petty |-> GrossToPay(Terms[s][i], paid, petty).petty,
                   surcharge |-> GrossToPay(Terms[s][i], paid, petty).surcharge]
  BY DEF After, Price
<1>13. /\ Incoming(h).now = petty
       /\ Incoming(h).petty = GrossToPay(Terms[s][i], paid, petty).petty
       /\ Incoming(h).surcharge = GrossToPay(Terms[s][i], paid, petty).surcharge
  BY <1>1, <1>8, <1>11, PayeeReadsPrice
<1>14. /\ price.petty \in Nat /\ price.surcharge \in Nat
       /\ price.gross = (price.petty + price.surcharge) - (paid.petty + paid.surcharge)
  <2>1. [petty |-> price.petty, surcharge |-> price.surcharge] \in Ledger
    BY <1>0, <1>1, PriceFacts
  <2>2. price.gross = (price.petty + price.surcharge) - (paid.petty + paid.surcharge)
    BY <1>0, <1>1, PriceFacts
  <2> HIDE DEF price
  <2> QED
    BY <2>1, <2>2 DEF Ledger
<1>15. GivenOn(<<s, i>>) = paid.petty + paid.surcharge
  BY <1>1, <1>7 DEF GivenOn
<1>16. Incoming(h).petty = price.petty /\ Incoming(h).surcharge = price.surcharge
  BY <1>13 DEF Price
<1>17. /\ GrossReceived(h) \in Nat
       /\ Incoming(h).petty + Incoming(h).surcharge = GivenOn(<<s, i>>) + GrossReceived(h)
  <2>1. paid.petty \in Nat /\ paid.surcharge \in Nat
    BY <1>8
  <2> QED
    BY <1>9, <1>10, <1>14, <1>15, <1>16, <2>1
<1> QED
  BY <1>6, <1>12, <1>13, <1>17

(* What a commit of the payer does to its records.                          *)
LEMMA ConfirmEffect ==
  ASSUME ChannelInv, NEW h \in Legs, Confirm(h)
  PROVE  /\ L(h).sender = "waiting" /\ L(h).reply = Receipt /\ UNCHANGED <<inb, request, credit>>
         /\ Legs' = Legs /\ L(h)'.sender = "paid"
         /\ \A g \in Legs : /\ L(g)'.voucher = L(g).voucher
                            /\ L(g)'.payee = L(g).payee /\ L(g)'.reply = L(g).reply
                            /\ g # h => L(g)' = L(g)
         /\ \A d \in Chan : out'[d].loss = out[d].loss /\ (d # ChanOf(h) => out'[d] = out[d])
         /\ \A t \in Stream, j \in Hop :
               IF t = StreamOf(h) /\ j = h[2]
               THEN /\ book'[t][j].here = book[t][j].here
                    /\ book'[t][j].paid = After(h)
                    /\ book'[t][j].got = IF j = 1 THEN book[t][j].got
                                         ELSE [petty |-> Incoming(Back(h)).petty,
                                               surcharge |-> Incoming(Back(h)).surcharge]
               ELSE book'[t][j] = book[t][j]
<1> DEFINE c == ChanOf(h)
           s == StreamOf(h)
           i == h[2]
           came == [petty |-> Incoming(Back(h)).petty, surcharge |-> Incoming(Back(h)).surcharge]
           got == IF i = 1 THEN book[s][i].got ELSE came
           new == [[book[s][i] EXCEPT !.paid = After(h)] EXCEPT !.got = got]
<1>0. Typed /\ Routed
  BY DEF ChannelInv
<1>1. s \in Stream /\ i \in Hop /\ c \in Chan
  BY <1>0, LegFacts
<1>2. /\ L(h).sender = "waiting" /\ L(h).reply = Receipt
      /\ UNCHANGED <<inb, request, credit>> /\ Resolve(h, "paid")
      /\ out' = [out EXCEPT ![c].nonce = L(h).voucher.nonce, ![c].redeemed = L(h).voucher.redeemed]
      /\ book' = [book EXCEPT ![s][i].paid = After(h), ![s][i].got = IF i = 1 THEN @ ELSE came]
  BY DEF Confirm, Answered, Back, After
<1>3. \A d \in Chan : out'[d].loss = out[d].loss /\ (d # c => out'[d] = out[d])
  BY <1>0, <1>1, <1>2 DEF Typed
<1>4. book' = [book EXCEPT ![s][i] = new]
  <2> HIDE DEF came
  <2> QED
    BY <1>0, <1>1, <1>2 DEF Typed
<1>5. new.here = book[s][i].here /\ new.paid = After(h) /\ new.got = got
  <2>1. book[s][i] \in [here : BOOLEAN, paid : Ledger, got : [petty : Int, surcharge : Int]]
    BY <1>0, <1>1 DEF Typed
  <2> HIDE DEF got
  <2>2. /\ [book[s][i] EXCEPT !.paid = After(h)].here = book[s][i].here
        /\ [book[s][i] EXCEPT !.paid = After(h)].paid = After(h)
    BY <2>1
  <2> QED
    BY <2>1, <2>2
<1> HIDE DEF new, got
<1>6. \A t \in Stream, j \in Hop : book'[t][j] = IF t = s /\ j = i THEN new ELSE book[t][j]
  BY <1>0, <1>1, <1>4 DEF Typed
<1>7. \A t \in Stream, j \in Hop :
        IF t = s /\ j = i
        THEN /\ book'[t][j].here = book[t][j].here
             /\ book'[t][j].paid = After(h)
             /\ book'[t][j].got = IF j = 1 THEN book[t][j].got ELSE came
        ELSE book'[t][j] = book[t][j]
  BY <1>5, <1>6 DEF got
<1> HIDE DEF came
<1>8. /\ Legs' = Legs /\ L(h)'.sender = "paid"
      /\ \A g \in Legs : /\ L(g)'.voucher = L(g).voucher
                         /\ L(g)'.payee = L(g).payee /\ L(g)'.reply = L(g).reply
                         /\ g # h => L(g)' = L(g)
  BY <1>2, ResolveEffect
<1> QED
  BY <1>2, <1>3, <1>7, <1>8 DEF came

(* The payer commits: its leg is no longer due, and the one before it, if   *)
(* there is one, becomes due with what the proxy has just read in it.       *)
LEMMA ConfirmRoute ==
  ASSUME ChannelInv, ChannelInv', RouteInv, NEW h \in Legs, Confirm(h)
  PROVE  RouteInv'
<1>0. Typed /\ Routed /\ Exact /\ Typed' /\ Routed'
  BY DEF ChannelInv
<1>1. /\ StreamOf(h) \in Stream /\ h[2] \in 1 .. Last(StreamOf(h)) /\ ChanOf(h) \in Chan
      /\ PettyOf(h) \in Nat \ {0} /\ After(h) \in Ledger
      /\ After(h).petty = book[StreamOf(h)][h[2]].paid.petty + PettyOf(h)
  BY <1>0, LegFacts, PriceFacts DEF After
<1> PICK s \in Stream, i \in Nat, c \in Chan, petty \in Nat, after \in Ledger :
         s = StreamOf(h) /\ i = h[2] /\ c = ChanOf(h) /\ petty = PettyOf(h) /\ after = After(h)
  BY <1>1, RouteFacts
<1>2. /\ L(h).sender = "waiting" /\ L(h).reply = Receipt /\ UNCHANGED <<inb, request, credit>>
      /\ Legs' = Legs /\ L(h)'.sender = "paid"
      /\ \A g \in Legs : /\ L(g)'.voucher = L(g).voucher
                         /\ L(g)'.payee = L(g).payee /\ L(g)'.reply = L(g).reply
                         /\ g # h => L(g)' = L(g)
      /\ \A d \in Chan : out'[d].loss = out[d].loss /\ (d # c => out'[d] = out[d])
  BY <1>1, ConfirmEffect
<1>3. /\ book'[s][i].here = book[s][i].here /\ book'[s][i].paid = after
      /\ book'[s][i].got = IF i = 1 THEN book[s][i].got
                           ELSE [petty |-> Incoming(Back(h)).petty,
                                 surcharge |-> Incoming(Back(h)).surcharge]
      /\ \A t \in Stream, j \in Hop : t # s \/ j # i => book'[t][j] = book[t][j]
  BY <1>1, RouteFacts, ConfirmEffect
<1>4. \A g \in Legs : /\ g[2] \in 1 .. Last(StreamOf(g)) /\ g[2] \in Hop
                      /\ StreamOf(g) \in Stream /\ ChanOf(g) \in Chan
                      /\ ChanOf(g) = Route[StreamOf(g)][g[2]]
                      /\ ChanOf(g)' = ChanOf(g) /\ StreamOf(g)' = StreamOf(g)
                      /\ PettyOf(g)' = PettyOf(g) /\ PettyOf(g) \in Nat
  BY <1>0, <1>2, LegFacts, SameRequest DEF ChanOf
<1>5. /\ Current(h) /\ Ahead(c) /\ out[c].loss = NoVoucher /\ Due(h)
      /\ c = Route[s][i] /\ i \in Nat /\ Last(s) \in Nat /\ i <= Last(s)
  BY <1>1, <1>2, <1>4, ReceiptFacts, RouteFacts DEF Due
<1>6. book[s][i].here
  BY <1>1, <1>5 DEF RouteInv, LegBooked
<1>7. \A g \in Legs : ChanOf(g) = c => ~Current(g)' /\ ~Due(g)'
  BY <1>1, ConfirmStep DEF Due
<1>8. \A g \in Legs : ChanOf(g) # c => (Current(g)' <=> Current(g))
  BY <1>2, <1>4 DEF Current
<1>9. ASSUME NEW g \in Legs, ChanOf(g) # c, g # Back(h)
      PROVE  Due(g)' <=> Due(g)
  <2>1. Onward(g) = IF NextHop(g) \in Legs THEN L(NextHop(g)).sender ELSE "none"
    BY <1>0, OnwardIs
  <2>2. Onward(g)' = IF NextHop(g) \in Legs THEN L(NextHop(g))'.sender ELSE "none"
    BY <1>0, <1>2, OnwardIsNext
  <2>3. NextHop(g) # h
    BY <1>0, <1>9, Neighbours
  <2> QED
    BY <1>2, <1>8, <1>9, <2>1, <2>2, <2>3 DEF Due
<1>10. \A g \in Legs : ChanOf(g) = c /\ g # h => ~Due(g)
  BY <1>1, <1>5, DueAlone
<1>11. ASSUME NEW g \in Legs PROVE LegBooked(g)'
  <2>1. LegBooked(g) /\ (g[2] # 1 => Back(g) \in Legs)
    BY <1>0, Neighbours DEF RouteInv
  <2>2. ASSUME Current(g)'
        PROVE  /\ L(g)'.voucher.redeemed = out'[ChanOf(g)].redeemed
                                           + Price(StreamOf(g), g[2], PettyOf(g))'.gross
               /\ book'[StreamOf(g)][g[2]].here \/ out'[ChanOf(g)].loss # NoVoucher
    <3>1. ChanOf(g) # c /\ Current(g)
      BY <1>7, <1>8, <2>2
    <3>2. book'[StreamOf(g)][g[2]] = book[StreamOf(g)][g[2]] /\ out'[ChanOf(g)] = out[ChanOf(g)]
      BY <1>2, <1>3, <1>4, <1>5, <3>1
    <3>3. Price(StreamOf(g), g[2], PettyOf(g))' = Price(StreamOf(g), g[2], PettyOf(g))
      BY <1>4, <3>2, AfterKept
    <3> QED
      BY <1>2, <2>1, <3>1, <3>2, <3>3 DEF LegBooked
  <2>3. Back(g)' = Back(g) /\ (L(g)'.sender = "waiting" => L(g).sender = "waiting")
    BY <1>2 DEF Back
  <2>4. g[2] # 1 => L(Back(g))'.payee = L(Back(g)).payee
    BY <1>2, <2>1
  <2>5. L(g)'.payee = L(g).payee /\ L(g)'.reply = L(g).reply
    BY <1>2
  <2> QED
    BY <1>4, <2>1, <2>2, <2>3, <2>4, <2>5 DEF LegBooked
<1>12. after # NothingPaid /\ after.petty = book[s][i].paid.petty + petty
       /\ book[s][i].paid.petty \in Nat
  <2>1. i \in Hop /\ petty # 0
    BY <1>1, RouteFacts
  <2>2. book[s][i].paid.petty \in Nat
    BY <1>0, <2>1, FieldFacts DEF Ledger
  <2>3. after.petty = book[s][i].paid.petty + petty
    BY <1>1
  <2>4. after.petty # 0
    BY <2>1, <2>2, <2>3
  <2> QED
    BY <2>2, <2>3, <2>4 DEF NothingPaid
(* Where neither the leg nor the one before it runs, nothing changes.       *)
<1>13. ASSUME NEW t \in Stream, NEW j \in 1 .. Last(t), t # s \/ (j # i /\ j + 1 # i)
       PROVE  HopBooked(t, j)'
  <2>1. ASSUME NEW g \in Legs, StreamOf(g) = t, g[2] = j
        PROVE  Due(g)' <=> Due(g)
    <3>1. g # h
      BY <1>13, <2>1
    <3>2. g = Back(h) => t = s /\ j + 1 = i
      BY <2>1, <1>5 DEF Back, StreamOf
    <3> QED
      BY <1>7, <1>9, <1>10, <1>13, <3>1, <3>2
  <2>2. DueAt(t, j)' = DueAt(t, j)
    BY <1>2, <1>4, <2>1, DueAtKept
  <2>3. j \in Hop /\ Route[t][j] \in Chan /\ book'[t][j] = book[t][j]
    BY <1>3, <1>13, RouteFacts
  <2>4. book'[t][j + 1] = book[t][j + 1] \/ j = Last(t)
    <3>1. j # Last(t) => j + 1 \in Hop
      BY RouteFacts
    <3>2. j \in Nat /\ (t # s \/ j + 1 # i)
      BY <1>13
    <3> QED
      BY <1>3, <3>1, <3>2
  <2>5. HopBooked(t, j) /\ \A g \in DueAt(t, j) : PettyOf(g)' = PettyOf(g) /\ After(g)' = After(g)
    BY <1>4, <2>3, AfterKept DEF DueAt, RouteInv
  <2>6. credit'[t] = credit[t] /\ out'[Route[t][j]].loss = out[Route[t][j]].loss
    BY <1>2, <2>3
  <2> QED
    BY <2>2, <2>3, <2>4, <2>5, <2>6, HopKept
(* What the leg's proxy has read in the leg before.                         *)
<1>15. ASSUME i # 1
       PROVE  /\ Back(h) \in Legs /\ StreamOf(Back(h)) = s /\ Back(h)[2] = i - 1
              /\ i - 1 \in 1 .. Last(s) /\ i - 1 \in Hop /\ i - 1 # Last(s)
              /\ L(Back(h)).payee = "held" /\ PettyOf(Back(h)) = petty /\ ChanOf(Back(h)) # c
              /\ DueAt(s, i - 1) = {} /\ Due(Back(h))' /\ After(Back(h)) \in Ledger
              /\ Incoming(Back(h)).petty = After(Back(h)).petty
              /\ Incoming(Back(h)).surcharge = After(Back(h)).surcharge
  <2> PICK g : g = Back(h)
    OBVIOUS
  <2>1. /\ g \in Legs /\ g # h /\ NextHop(g) = h /\ L(g).payee = "held"
    BY <1>0, <1>2, <1>15, Neighbours DEF RouteInv, LegBooked
  <2>2. g[1] = h[1] /\ g[2] = i - 1
    BY DEF Back
  <2>3. StreamOf(g) = s /\ PettyOf(g) = petty
    BY <2>2 DEF StreamOf, PettyOf
  <2>4. i - 1 \in 1 .. Last(s) /\ i - 1 \in Hop /\ i - 1 + 1 = i /\ i - 1 # Last(s)
    BY <1>1, <1>5, <1>15, RouteFacts
  <2>5. Level(ChanOf(g)) /\ ~Ahead(ChanOf(g)) /\ Current(g)
    BY <2>1, HeldFacts
  <2>6. ChanOf(g) # c
    BY <1>5, <2>5
  <2>7. Onward(g) = "waiting" /\ Onward(g)' = "paid"
    BY <1>0, <1>2, <2>1, OnwardIs, OnwardIsNext
  <2>8. /\ DueAt(s, i - 1) = {}
        /\ Incoming(g).petty = After(g).petty /\ Incoming(g).surcharge = After(g).surcharge
    <3>1. ~IsLast(g) /\ book[StreamOf(g)][g[2] + 1].here
      BY <1>6, <2>2, <2>3, <2>4 DEF IsLast
    <3> QED
      BY <2>1, <2>2, <2>3, <2>7, <3>1, ProxyReads
  <2>9. Due(g)'
    BY <1>2, <1>8, <2>1, <2>5, <2>6, <2>7 DEF Due
  <2>10. After(g) \in Ledger
    BY <1>0, <1>1, <2>1, <2>2, <2>3, <2>4, PriceFacts DEF After
  <2> QED
    BY <2>1, <2>2, <2>3, <2>4, <2>6, <2>8, <2>9, <2>10
(* At the leg's own hop, nothing is due any more.                           *)
<1>14. HopBooked(s, i)'
  <2>1. HopBooked(s, i) /\ s \in Stream /\ i \in 1 .. Last(s) /\ i \in Hop
    BY <1>1, RouteFacts DEF RouteInv
  <2>2. h \in DueAt(s, i)
    BY <1>5 DEF DueAt
  <2>3. DueAt(s, i)' = {}
    BY <1>2, <1>4, <1>5, <1>7 DEF DueAt
  <2>4. i # Last(s) => book'[s][i + 1] = book[s][i + 1]
    <3>1. i # Last(s) => i + 1 \in Hop /\ i + 1 # i
      BY <2>1, RouteFacts
    <3> QED
      BY <1>3, <3>1
  <2>5. Passed(s, i)' = Passed(s, i)
    BY <1>2, <2>4 DEF Passed
  <2>6. after.petty <= Passed(s, i)
    BY <1>12, <2>1, <2>2 DEF HopBooked
  <2>7. book'[s][i].got \in Ledger
    <3>1. CASE i = 1
      BY <1>3, <2>1, <3>1 DEF HopBooked
    <3>2. CASE i # 1
      <4>1. After(Back(h)) \in Ledger /\ Incoming(Back(h)).petty = After(Back(h)).petty
            /\ Incoming(Back(h)).surcharge = After(Back(h)).surcharge
        BY <1>15, <3>2
      <4> QED
        BY <1>3, <3>2, <4>1 DEF Ledger
    <3> QED
      BY <3>1, <3>2
  <2>8. i # Last(s) /\ book[s][i].here /\ book[s][i + 1].here => book[s][i + 1].got = after
    BY <2>1, <2>2 DEF HopBooked
  <2> QED
    BY <1>2, <1>3, <1>5, <1>12, <2>3, <2>4, <2>5, <2>6, <2>7, <2>8 DEF HopBooked
(* At the hop before, the leg before is due.                                *)
<1>16. ASSUME i # 1 PROVE HopBooked(s, i - 1)'
  <2> PICK j \in 1 .. Last(s) : j = i - 1 /\ j + 1 = i /\ j \in Hop /\ j # i /\ j # Last(s)
    BY <1>5, <1>15, <1>16
  <2> PICK g : g = Back(h)
    OBVIOUS
  <2>1. /\ g \in Legs /\ StreamOf(g) = s /\ g[2] = j /\ L(g).payee = "held" /\ PettyOf(g) = petty
        /\ ChanOf(g) # c /\ ChanOf(g) = Route[s][j] /\ Due(g)' /\ DueAt(s, j) = {}
    BY <1>4, <1>15, <1>16
  <2>2. HopBooked(s, j) /\ book'[s][j] = book[s][j]
    BY <1>3 DEF RouteInv
  <2>3. DueAt(s, j)' = {g}
    <3>1. DueAt(s, j)' = {f \in Legs : StreamOf(f) = s /\ f[2] = j /\ Due(f)'}
      BY <1>2, <1>4 DEF DueAt
    <3>2. ASSUME NEW f \in Legs, StreamOf(f) = s, f[2] = j, f # g
          PROVE  ~Due(f)'
      <4>1. ~Due(f)
        BY <2>1, <3>2 DEF DueAt
      <4> QED
        BY <1>4, <1>9, <2>1, <3>2, <4>1
    <3> QED
      BY <2>1, <3>1, <3>2
  <2>4. After(g)' = After(g) /\ PettyOf(g)' = petty
    BY <1>4, <2>1, <2>2, AfterKept
  <2>5. /\ After(g) = [petty |-> After(g).petty, surcharge |-> After(g).surcharge]
        /\ book'[s][i].got = After(g)
    BY <1>3, <1>15, <1>16 DEF After
  <2>6. Passed(s, j)' = after.petty /\ Passed(s, j) = book[s][i].paid.petty
    BY <1>3 DEF Passed
  <2>7. book[s][j].paid.petty \in Nat /\ book[s][j].paid.petty <= book[s][i].paid.petty
    BY <1>0, <2>2, <2>6, FieldFacts DEF HopBooked, Ledger
  <2>8. book[s][j].paid.petty <= after.petty /\ book[s][j].paid.petty + petty <= after.petty
    BY <1>12, <2>7
  <2>9. out'[Route[s][j]].loss = out[Route[s][j]].loss
    BY <1>2, RouteFacts
  <2>10. HopBooked(s, j)'
    BY <2>2, <2>3, <2>4, <2>5, <2>6, <2>8, <2>9 DEF HopBooked
  <2> QED
    BY <2>10
<1>17. \A t \in Stream : \A j \in 1 .. Last(t) : HopBooked(t, j)'
  <2>1. ASSUME NEW t \in Stream, NEW j \in 1 .. Last(t)
        PROVE  HopBooked(t, j)'
    <3>1. CASE t = s /\ j + 1 = i
      <4>1. j = i - 1 /\ i # 1
        BY <3>1
      <4> QED
        BY <1>16, <3>1, <4>1
    <3> QED
      BY <1>13, <1>14, <3>1
  <2> QED
    BY <2>1
<1>18. \A t \in Stream, j \in Hop : j > Last(t) => book'[t][j].got \in Ledger
  <2>1. \A t \in Stream, j \in Hop : j > Last(t) => book'[t][j] = book[t][j]
    BY <1>3, <1>5
  <2> QED
    BY <2>1 DEF RouteInv
<1> QED
  BY <1>2, <1>11, <1>17, <1>18 DEF RouteInv

(* The payer records a loss: its reservations on the channel are gone, and  *)
(* nothing else.                                                            *)
LEMMA LoseRoute ==
  ASSUME ChannelInv, ChannelInv', RouteInv,
         NEW h \in Legs, Lose(h), Proves(ChanOf(h), L(h).reply.voucher)
  PROVE  RouteInv'
<1>0. Typed /\ Routed /\ Typed' /\ Routed'
  BY DEF ChannelInv
<1> PICK c \in Chan : c = ChanOf(h)
  BY <1>0, LegFacts
<1>1. /\ L(h).sender = "waiting" /\ Resolve(h, "failed") /\ UNCHANGED <<inb, request, credit>>
      /\ book' = [t \in Stream |-> [j \in Hop |->
                     IF j <= Last(t) /\ Route[t][j] = c THEN [book[t][j] EXCEPT !.here = FALSE]
                                                        ELSE book[t][j]]]
  BY DEF Lose
<1>2. /\ Legs' = Legs /\ out' = [out EXCEPT ![c].loss = inb[c]]
      /\ \A g \in Legs : Current(g)' <=> Current(g)
  BY LoseStep
<1>3. /\ out'[c].loss # NoVoucher /\ out'[c].redeemed = out[c].redeemed
      /\ \A d \in Chan : d # c => out'[d] = out[d]
  <2>1. inb[c] # NoVoucher
    BY <1>0, NoneAssumption DEF Typed
  <2> QED
    BY <1>0, <1>2, <2>1 DEF Typed
<1>4. \A t \in Stream, j \in Hop :
        /\ book'[t][j].paid = book[t][j].paid /\ book'[t][j].got = book[t][j].got
        /\ book'[t][j].here => book[t][j].here
        /\ j <= Last(t) /\ Route[t][j] = c => ~book'[t][j].here
        /\ ~(j <= Last(t) /\ Route[t][j] = c) => book'[t][j].here = book[t][j].here
  <2> TAKE t \in Stream, j \in Hop
  <2>1. book[t][j] \in [here : BOOLEAN, paid : Ledger, got : [petty : Int, surcharge : Int]]
    BY <1>0 DEF Typed
  <2>2. book'[t][j] = IF j <= Last(t) /\ Route[t][j] = c THEN [book[t][j] EXCEPT !.here = FALSE]
                                                         ELSE book[t][j]
    BY <1>1
  <2> QED
    BY <2>1, <2>2
<1>5. \A g \in Legs : /\ L(g)'.voucher = L(g).voucher
                      /\ L(g)'.payee = L(g).payee /\ L(g)'.reply = L(g).reply
                      /\ g # h => L(g)' = L(g)
                      /\ L(h)'.sender = "failed"
  BY <1>1, ResolveEffect
<1>6. \A g \in Legs : /\ g[2] \in 1 .. Last(StreamOf(g)) /\ g[2] \in Hop /\ g[2] <= Last(StreamOf(g))
                      /\ StreamOf(g) \in Stream /\ ChanOf(g) \in Chan
                      /\ ChanOf(g) = Route[StreamOf(g)][g[2]]
                      /\ ChanOf(g)' = ChanOf(g) /\ StreamOf(g)' = StreamOf(g)
                      /\ PettyOf(g)' = PettyOf(g)
                      /\ After(g)' = After(g)
                      /\ Price(StreamOf(g), g[2], PettyOf(g))' = Price(StreamOf(g), g[2], PettyOf(g))
  <2>1. \A g \in Legs : /\ g[2] \in 1 .. Last(StreamOf(g)) /\ g[2] \in Hop
                        /\ StreamOf(g) \in Stream /\ ChanOf(g) \in Chan
                        /\ ChanOf(g) = Route[StreamOf(g)][g[2]]
                        /\ ChanOf(g)' = ChanOf(g) /\ StreamOf(g)' = StreamOf(g)
                        /\ PettyOf(g)' = PettyOf(g)
    BY <1>0, <1>1, LegFacts, SameRequest DEF ChanOf
  <2> QED
    BY <1>4, <2>1, RouteFacts, AfterKept
<1>7. \A g \in Legs : Due(g)' <=> Due(g)
  <2> TAKE g \in Legs
  <2>1. Onward(g) = IF NextHop(g) \in Legs THEN L(NextHop(g)).sender ELSE "none"
    BY <1>0, OnwardIs
  <2>2. Onward(g)' = IF NextHop(g) \in Legs THEN L(NextHop(g))'.sender ELSE "none"
    BY <1>0, <1>2, OnwardIsNext
  <2>3. Onward(g)' = "paid" <=> Onward(g) = "paid"
    BY <1>1, <1>5, <2>1, <2>2
  <2> QED
    BY <1>2, <1>5, <2>3 DEF Due
<1>8. ASSUME NEW g \in Legs PROVE LegBooked(g)'
  <2>1. LegBooked(g) /\ (g[2] # 1 => Back(g) \in Legs)
    BY <1>0, Neighbours DEF RouteInv
  <2>2. /\ Back(g)' = Back(g) /\ (L(g)'.sender = "waiting" => L(g).sender = "waiting")
        /\ g[2] # 1 => L(Back(g))'.payee = L(Back(g)).payee
    BY <1>5, <2>1 DEF Back
  <2>3. /\ out'[ChanOf(g)].redeemed = out[ChanOf(g)].redeemed
        /\ book[StreamOf(g)][g[2]].here \/ out[ChanOf(g)].loss # NoVoucher
              => book'[StreamOf(g)][g[2]].here \/ out'[ChanOf(g)].loss # NoVoucher
    BY <1>3, <1>4, <1>6
  <2>4. L(g)'.voucher = L(g).voucher /\ L(g)'.payee = L(g).payee /\ L(g)'.reply = L(g).reply
    BY <1>5
  <2> QED
    BY <1>2, <1>6, <2>1, <2>2, <2>3, <2>4 DEF LegBooked
<1>9. ASSUME NEW t \in Stream, NEW j \in 1 .. Last(t) PROVE HopBooked(t, j)'
  <2>1. HopBooked(t, j) /\ j \in Hop /\ j <= Last(t) /\ Route[t][j] \in Chan
        /\ (j # Last(t) => j + 1 \in Hop)
    BY RouteFacts DEF RouteInv
  <2>2. DueAt(t, j)' = DueAt(t, j)
    BY <1>2, <1>6, <1>7, DueAtKept
  <2>3. \A g \in DueAt(t, j) : PettyOf(g)' = PettyOf(g) /\ After(g)' = After(g)
    BY <1>6 DEF DueAt
  <2>4. Passed(t, j)' = Passed(t, j)
    BY <1>1, <1>4, <2>1 DEF Passed
  <2>5. /\ book'[t][j].here => out'[Route[t][j]].loss = NoVoucher
        /\ book'[t][j].paid = book[t][j].paid /\ book'[t][j].got = book[t][j].got
        /\ book'[t][j].here => book[t][j].here
        /\ j # Last(t) => /\ book'[t][j + 1].here => book[t][j + 1].here
                          /\ book'[t][j + 1].got = book[t][j + 1].got
    BY <1>3, <1>4, <2>1 DEF HopBooked
  <2> QED
    BY <2>1, <2>2, <2>3, <2>4, <2>5 DEF HopBooked
<1> QED
  BY <1>2, <1>4, <1>8, <1>9 DEF RouteInv

(* The user bears a loss: no reservation is left on the channel.            *)
LEMMA BearRoute ==
  ASSUME ChannelInv, ChannelInv', RouteInv, NEW c \in Chan, Bear(c)
  PROVE  RouteInv'
<1>0. Typed /\ Routed /\ Typed' /\ Routed'
  BY DEF ChannelInv
<1>1. /\ out[c].loss # NoVoucher /\ UNCHANGED <<inb, book, request, leg, credit>>
      /\ \A d \in Chan : d # c => out'[d] = out[d]
      /\ out'[c].loss = NoVoucher
  BY <1>0 DEF Bear, Typed
<1>2. /\ Legs' = Legs /\ \A g \in Legs : L(g)' = L(g)
      /\ \A g \in Legs : ChanOf(g) = c => ~Current(g)'
  BY <1>1, BearStep DEF Legs, L
<1>3. \A g \in Legs : /\ StreamOf(g) \in Stream /\ g[2] \in 1 .. Last(StreamOf(g))
                      /\ ChanOf(g) \in Chan /\ ChanOf(g) = Route[StreamOf(g)][g[2]]
                      /\ ChanOf(g)' = ChanOf(g) /\ StreamOf(g)' = StreamOf(g)
                      /\ PettyOf(g)' = PettyOf(g) /\ After(g)' = After(g)
                      /\ Price(StreamOf(g), g[2], PettyOf(g))' = Price(StreamOf(g), g[2], PettyOf(g))
  BY <1>0, <1>1, LegFacts, SameRequest, AfterKept DEF ChanOf
<1>4. \A g \in Legs : ChanOf(g) # c => (Current(g)' <=> Current(g)) /\ (Due(g)' <=> Due(g))
  <2> TAKE g \in Legs
  <2>1. Onward(g) = IF NextHop(g) \in Legs THEN L(NextHop(g)).sender ELSE "none"
    BY <1>0, OnwardIs
  <2>2. Onward(g)' = IF NextHop(g) \in Legs THEN L(NextHop(g))'.sender ELSE "none"
    BY <1>0, <1>2, OnwardIsNext
  <2>3. Onward(g)' = Onward(g)
    BY <1>2, <2>1, <2>2
  <2> QED
    BY <1>1, <1>2, <1>3, <2>3 DEF Due, Current
<1>5. \A t \in Stream : \A j \in 1 .. Last(t) : Route[t][j] = c => ~book[t][j].here
  BY <1>1 DEF RouteInv, HopBooked
<1>6. ASSUME NEW g \in Legs PROVE LegBooked(g)'
  <2>1. LegBooked(g) /\ (g[2] # 1 => Back(g) \in Legs)
    BY <1>0, Neighbours DEF RouteInv
  <2>2. Back(g)' = Back(g) /\ (g[2] # 1 => L(Back(g))' = L(Back(g)))
    BY <1>2, <2>1 DEF Back
  <2>3. Current(g)' => Current(g) /\ out'[ChanOf(g)] = out[ChanOf(g)]
    BY <1>1, <1>2, <1>3, <1>4
  <2> QED
    BY <1>1, <1>2, <1>3, <2>1, <2>2, <2>3 DEF LegBooked
<1>7. ASSUME NEW t \in Stream, NEW j \in 1 .. Last(t) PROVE HopBooked(t, j)'
  <2>1. HopBooked(t, j) /\ Route[t][j] \in Chan
    BY RouteFacts DEF RouteInv
  <2>2. CASE Route[t][j] # c
    <3>1. \A g \in Legs : StreamOf(g) = t /\ g[2] = j => ChanOf(g) # c
      BY <1>3, <2>2
    <3>2. DueAt(t, j)' = DueAt(t, j)
      BY <1>2, <1>3, <1>4, <3>1, DueAtKept
    <3>3. \A g \in DueAt(t, j) : PettyOf(g)' = PettyOf(g) /\ After(g)' = After(g)
      BY <1>3 DEF DueAt
    <3> QED
      BY <1>1, <2>1, <2>2, <3>2, <3>3, HopKept
  <2>3. CASE Route[t][j] = c
    <3>1. DueAt(t, j)' = {}
      BY <1>2, <1>3, <2>3 DEF DueAt, Due
    <3>2. ~book'[t][j].here
      BY <1>1, <1>5, <2>3
    <3>3. Passed(t, j)' = Passed(t, j)
      BY <1>1 DEF Passed
    <3> QED
      BY <1>1, <2>1, <3>1, <3>2, <3>3 DEF HopBooked
  <2> QED
    BY <2>2, <2>3
<1> QED
  BY <1>1, <1>2, <1>6, <1>7 DEF RouteInv

(* The reservations along a route are made when there are none, on channels *)
(* that have lost nothing: nothing is due on them.                          *)
LEMMA OpenRoute ==
  ASSUME ChannelInv, ChannelInv', RouteInv, NEW s \in Stream, Open(s)
  PROVE  RouteInv'
<1>0. Typed /\ Routed /\ Typed' /\ Routed'
  BY DEF ChannelInv
<1>1. /\ UNCHANGED <<out, inb, request, leg, credit>>
      /\ \A i \in Hop : ~book[s][i].here /\ book[s][i].paid = NothingPaid
      /\ \A i \in 1 .. Last(s) : out[Route[s][i]].loss = NoVoucher
      /\ book' = [book EXCEPT ![s] = [i \in Hop |-> [book[s][i] EXCEPT !.here = i <= Last(s)]]]
  BY DEF Open
<1>2. \A i \in Hop : /\ book'[s][i].paid = book[s][i].paid /\ book'[s][i].got = book[s][i].got
                     /\ i <= Last(s) => book'[s][i].here
  <2> TAKE i \in Hop
  <2>1. book[s][i] \in [here : BOOLEAN, paid : Ledger, got : [petty : Int, surcharge : Int]]
    BY <1>0 DEF Typed
  <2>2. book'[s][i] = [book[s][i] EXCEPT !.here = i <= Last(s)]
    BY <1>0, <1>1 DEF Typed
  <2> QED
    BY <2>1, <2>2
<1>3. \A t \in Stream : t # s => book'[t] = book[t]
  BY <1>0, <1>1 DEF Typed
<1>4. Legs' = Legs /\ \A g \in Legs : L(g)' = L(g)
  BY <1>1 DEF Legs, L
<1>5. \A g \in Legs : /\ StreamOf(g) \in Stream /\ g[2] \in 1 .. Last(StreamOf(g)) /\ g[2] \in Hop
                      /\ g[2] <= Last(StreamOf(g)) /\ ChanOf(g) = Route[StreamOf(g)][g[2]]
                      /\ ChanOf(g)' = ChanOf(g) /\ StreamOf(g)' = StreamOf(g)
                      /\ PettyOf(g)' = PettyOf(g) /\ After(g)' = After(g)
                      /\ Price(StreamOf(g), g[2], PettyOf(g))' = Price(StreamOf(g), g[2], PettyOf(g))
  <2>1. \A g \in Legs : /\ StreamOf(g) \in Stream /\ g[2] \in 1 .. Last(StreamOf(g)) /\ g[2] \in Hop
                        /\ ChanOf(g) = Route[StreamOf(g)][g[2]]
                        /\ ChanOf(g)' = ChanOf(g) /\ StreamOf(g)' = StreamOf(g)
                        /\ PettyOf(g)' = PettyOf(g)
    BY <1>0, <1>1, LegFacts, SameRequest DEF ChanOf
  <2>2. \A g \in Legs : book'[StreamOf(g)][g[2]].paid = book[StreamOf(g)][g[2]].paid
    BY <1>2, <1>3, <2>1
  <2> QED
    BY <2>1, <2>2, RouteFacts, AfterKept
<1>6. \A g \in Legs : (Current(g)' <=> Current(g)) /\ (Due(g)' <=> Due(g))
  <2> TAKE g \in Legs
  <2>1. Onward(g)' = Onward(g)
    BY <1>1 DEF Onward, IsLast, StreamOf, L
  <2> QED
    BY <1>1, <1>4, <1>5, <2>1 DEF Due, Current
<1>7. ASSUME NEW g \in Legs, StreamOf(g) = s PROVE ~Due(g)
  BY <1>1, <1>5, <1>7 DEF Due, RouteInv, LegBooked
<1>8. ASSUME NEW g \in Legs PROVE LegBooked(g)'
  <2>1. LegBooked(g) /\ (g[2] # 1 => Back(g) \in Legs)
    BY <1>0, Neighbours DEF RouteInv
  <2>2. Back(g)' = Back(g) /\ (g[2] # 1 => L(Back(g))' = L(Back(g)))
    BY <1>4, <2>1 DEF Back
  <2>3. book[StreamOf(g)][g[2]].here => book'[StreamOf(g)][g[2]].here
    BY <1>2, <1>3, <1>5
  <2> QED
    BY <1>1, <1>4, <1>5, <1>6, <2>1, <2>2, <2>3 DEF LegBooked
<1>9. ASSUME NEW t \in Stream, NEW j \in 1 .. Last(t) PROVE HopBooked(t, j)'
  <2>1. HopBooked(t, j) /\ j \in Hop /\ j <= Last(t) /\ (j # Last(t) => j + 1 \in Hop)
    BY RouteFacts DEF RouteInv
  <2>2. DueAt(t, j)' = DueAt(t, j)
    BY <1>4, <1>5, <1>6, DueAtKept
  <2>3. CASE t # s
    <3>1. \A g \in DueAt(t, j) : PettyOf(g)' = PettyOf(g) /\ After(g)' = After(g)
      BY <1>5 DEF DueAt
    <3> QED
      BY <1>1, <1>3, <2>1, <2>2, <2>3, <3>1, HopKept
  <2>4. CASE t = s
    <3>1. DueAt(s, j) = {}
      BY <1>7 DEF DueAt
    <3>2. j # Last(s) => book'[s][j + 1].got = NothingPaid
      <4>1. j # Last(s) => j + 1 \in 1 .. Last(s) /\ j + 1 \in Hop
        BY <2>4, RouteFacts
      <4> QED
        BY <1>1, <1>2, <4>1 DEF RouteInv, HopBooked
    <3>3. Passed(s, j)' = Passed(s, j)
      BY <1>1, <1>2, <2>1, <2>4 DEF Passed
    <3>4. book'[s][j].paid = NothingPaid /\ book[s][j].paid = NothingPaid /\ book'[s][j].got = book[s][j].got
      BY <1>1, <1>2, <2>1
    <3> QED
      BY <1>1, <2>1, <2>2, <2>4, <3>1, <3>2, <3>3, <3>4 DEF HopBooked
  <2> QED
    BY <2>3, <2>4
<1>10. \A t \in Stream, j \in Hop : book'[t][j].got = book[t][j].got
  BY <1>2, <1>3
<1> QED
  BY <1>4, <1>8, <1>9, <1>10 DEF RouteInv

(* Before anything is paid, the ledgers of every route say nothing.         *)
LEMMA RouteInit == Init => RouteInv
<1> SUFFICES ASSUME Init PROVE RouteInv
  OBVIOUS
<1>1. Legs = {}
  BY DEF Init, Legs
<1>2. \A s \in Stream, i \in Hop : /\ ~book[s][i].here /\ book[s][i].paid = NothingPaid
                                   /\ book[s][i].got = NothingPaid
  BY DEF Init
<1>3. \A s \in Stream : credit[s] = 0
  BY DEF Init
<1>4. ASSUME NEW s \in Stream, NEW i \in 1 .. Last(s) PROVE HopBooked(s, i)
  <2>1. i \in Hop /\ (i # Last(s) => i + 1 \in Hop)
    BY RouteFacts
  <2>2. DueAt(s, i) = {}
    BY <1>1 DEF DueAt
  <2>3. Passed(s, i) = 0
    BY <1>2, <1>3, <2>1 DEF Passed, NothingPaid
  <2>4. NothingPaid \in Ledger /\ NothingPaid.petty <= 0
    BY DEF NothingPaid, Ledger
  <2> QED
    BY <1>2, <2>1, <2>2, <2>3, <2>4 DEF HopBooked
<1>5. NothingPaid \in Ledger
  BY DEF NothingPaid, Ledger
<1> QED
  BY <1>1, <1>2, <1>4, <1>5 DEF RouteInv

(* Every step keeps the ledgers of all routes in line.                      *)
LEMMA RouteNext == ChannelInv /\ ChannelInv' /\ RouteInv /\ [Next]_vars => RouteInv'
<1> SUFFICES ASSUME ChannelInv, ChannelInv', RouteInv, [Next]_vars PROVE RouteInv'
  OBVIOUS
<1>0. Typed /\ Routed
  BY DEF ChannelInv
<1>1. ASSUME NEW s \in Stream, Open(s) PROVE RouteInv'
  BY <1>1, OpenRoute
<1>2. ASSUME NEW q \in Request, NEW petty \in 1 .. MaxPetty, NEW s \in Wants[q],
             Start(q, s, petty)
      PROVE  RouteInv'
  <2> PICK h : h = <<q, 1>>
    OBVIOUS
  <2>1. /\ s \in Stream
        /\ h \notin Legs /\ Legs' = Legs \cup {h} /\ h[1] = q /\ h[2] = 1
        /\ L(h)' = NewLeg(s, h[2], petty)
        /\ \A g \in Legs : /\ L(g)' = L(g) /\ ChanOf(g)' = ChanOf(g)
                           /\ StreamOf(g)' = StreamOf(g) /\ PettyOf(g)' = PettyOf(g)
        /\ StreamOf(h)' = s /\ PettyOf(h)' = petty /\ ChanOf(h)' = Route[s][h[2]]
    BY <1>2, StartStep
  <2>2. h[2] \in 1 .. Last(s) /\ CanPay(s, h[2]) /\ UNCHANGED <<out, book, credit>>
    BY <1>2, <2>1, RouteFacts DEF Start
  <2> QED
    BY <2>1, <2>2, BeginRoute
<1>3. ASSUME NEW h \in Legs, Paying(h) PROVE RouteInv'
  <2>1. CASE Confirm(h)
    BY <2>1, ConfirmRoute
  <2>2. CASE GiveUp(h)
    BY <2>2, GiveUpRoute
  <2>3. CASE Lose(h) /\ Proves(ChanOf(h), L(h).reply.voucher)
    BY <2>3, LoseRoute
  <2>4. CASE Lose(h) /\ ~Proves(ChanOf(h), L(h).reply.voucher)
    BY <2>4, GiveUpRoute DEF Lose, GiveUp
  <2> QED
    BY <1>3, <2>1, <2>2, <2>3, <2>4 DEF Paying
<1>4. ASSUME NEW h \in Legs, Forward(h) PROVE RouteInv'
  <2> PICK n : n = NextHop(h)
    OBVIOUS
  <2>1. PICK s \in Stream, petty \in Nat : s = StreamOf(h) /\ petty = PettyOf(h)
    BY <1>0, LegFacts
  <2>2. /\ n \notin Legs /\ Legs' = Legs \cup {n} /\ n[1] = h[1] /\ n[2] = h[2] + 1
        /\ n[2] \in 1 .. Last(s)
        /\ L(n)' = NewLeg(s, n[2], petty)
        /\ \A g \in Legs : /\ L(g)' = L(g) /\ ChanOf(g)' = ChanOf(g)
                           /\ StreamOf(g)' = StreamOf(g) /\ PettyOf(g)' = PettyOf(g)
        /\ StreamOf(n)' = s /\ PettyOf(n)' = petty /\ ChanOf(n)' = Route[s][n[2]]
    BY <1>4, <2>1, ForwardStep
  <2>3. CanPay(s, n[2]) /\ UNCHANGED <<out, book, credit>> /\ L(h).payee = "held"
    BY <1>4, <2>1, <2>2 DEF Forward
  <2>4. Back(n) \in Legs /\ NextHop(Back(n)) = n /\ L(Back(n)).payee = "held"
    BY <1>0, <2>3, Neighbours
  <2> QED
    BY <2>2, <2>3, <2>4, BeginRoute
<1>5. ASSUME NEW h \in Legs, Receiving(h) PROVE RouteInv'
  BY <1>4, <1>5, CheckRoute, PaidRoute DEF Receiving
<1>6. ASSUME NEW c \in Chan, Bear(c) PROVE RouteInv'
  BY <1>6, BearRoute
<1>7. CASE UNCHANGED vars
  <2>1. UNCHANGED <<out, inb, book, request, leg, credit>>
    BY <1>7 DEF vars
  <2>2. /\ Legs' = Legs
        /\ \A g \in Legs : LegBooked(g)' <=> LegBooked(g)
        /\ \A s \in Stream : \A i \in 1 .. Last(s) : HopBooked(s, i)' <=> HopBooked(s, i)
    BY <2>1 DEF Legs, LegBooked, HopBooked, L, ChanOf, StreamOf, PettyOf, Current, Price, Back,
                Passed, DueAt, Due, After, Onward, IsLast, NextHop
  <2> QED
    BY <2>1, <2>2 DEF RouteInv
<1> QED
  BY <1>1, <1>2, <1>3, <1>5, <1>6, <1>7 DEF Next

(* The invariant of the ledgers along every route.                          *)
THEOREM RouteInvariant == Spec => [](ChannelInv /\ RouteInv)
<1>1. Init => ChannelInv /\ RouteInv
  BY ChannelInit, RouteInit
<1>2. (ChannelInv /\ RouteInv) /\ [Next]_vars => (ChannelInv /\ RouteInv)'
  BY ChannelNext, RouteNext
<1> QED
  BY <1>1, <1>2, PTL DEF Spec

(* Types: in particular, what a proxy has received is never negative.       *)
THEOREM TypeCorrect == Spec => []TypeOK
<1>1. ChannelInv /\ RouteInv => TypeOK
  <2> SUFFICES ASSUME ChannelInv, RouteInv PROVE TypeOK
    OBVIOUS
  <2>0. Typed
    BY DEF ChannelInv
  <2>1. ASSUME NEW s \in Stream, NEW i \in Hop
        PROVE  book[s][i] \in [here : BOOLEAN, got : Ledger, paid : Ledger]
    <3>1. book[s][i].got \in Ledger
      <4>1. Last(s) \in Nat /\ i \in Nat /\ i >= 1
        BY RouteFacts DEF Hop
      <4>2. i \in 1 .. Last(s) \/ i > Last(s)
        BY <4>1
      <4> QED
        BY <4>2 DEF RouteInv, HopBooked
    <3>2. book[s][i] \in [here : BOOLEAN, paid : Ledger, got : [petty : Int, surcharge : Int]]
      BY <2>0 DEF Typed
    <3> QED
      BY <3>1, <3>2
  <2>2. book \in [Stream -> [Hop -> [here : BOOLEAN, got : Ledger, paid : Ledger]]]
    BY <2>0, <2>1 DEF Typed
  <2>3. \A h \in Legs : L(h).reply = NoReply <=> L(h).payee # "done"
    BY DEF RouteInv, LegBooked
  <2> QED
    BY <2>0, <2>2, <2>3 DEF Typed, TypeOK
<1> QED
  BY <1>1, RouteInvariant, PTL

(* Whatever was lost, delayed, reverted or borne before: a voucher that     *)
(* reaches the write lock of a proxy whose reservation is in place buys     *)
(* exactly the petty amount it comes with (calculatePettyAmountToReceive in *)
(* Pay, on what calculateGrossAmountToPay asked of the payer).              *)
THEOREM ProxyMatchesHolds == Spec => []ProxyMatches
<1>1. ChannelInv /\ RouteInv => ProxyMatches
  BY ProxyReads DEF ProxyMatches, Matches
<1> QED
  BY <1>1, RouteInvariant, PTL

(* Along a route nobody upstream has recorded more than was passed on, and  *)
(* a source that has recorded a payment has been credited for it (commit of *)
(* Receive before commit of Pay, hop by hop).                               *)
THEOREM PaidIsCreditedHolds == Spec => []PaidIsCredited
<1>1. ChannelInv /\ RouteInv => PaidIsCredited
  <2> SUFFICES ASSUME RouteInv, NEW s \in Stream
               PROVE  /\ \A i \in 1 .. Last(s) - 1 : book[s][i].paid.petty <= book[s][i + 1].paid.petty
                      /\ book[s][Last(s)].paid.petty <= credit[s]
    BY DEF PaidIsCredited
  <2>1. Last(s) \in Nat \ {0}
    BY RouteFacts
  <2>2. \A i \in 1 .. Last(s) - 1 : i \in 1 .. Last(s) /\ i # Last(s)
    BY <2>1
  <2>3. Last(s) \in 1 .. Last(s)
    BY <2>1
  <2> QED
    BY <2>2, <2>3 DEF RouteInv, HopBooked, Passed
<1> QED
  BY <1>1, RouteInvariant, PTL

-----------------------------------------------------------------------------
(* What a node has been given, and what it has given for it.                *)

(* The units given on top of lo others on a hop.                            *)
More(x, lo, n) == {x} \X (lo + 1 .. lo + n)

(* No channel's units outnumber what has come in over it.                   *)
GivenInv == \A c \in Chan : /\ IsFiniteSet(UnitsGiven(c))
                            /\ Cardinality(UnitsGiven(c)) <= Given(c)

(* They are as many as they are called.                                     *)
LEMMA MoreUnits ==
  ASSUME NEW x, NEW lo \in Nat, NEW n \in Nat
  PROVE  IsFiniteSet(More(x, lo, n)) /\ Cardinality(More(x, lo, n)) = n
<1> DEFINE S == lo + 1 .. lo + n
<1>1. IsFiniteSet(S) /\ Cardinality(S) = n
  BY FS_Interval
<1> HIDE DEF S
<1>2. IsFiniteSet({x}) /\ Cardinality({x}) = 1
  BY FS_Singleton
<1>3. IsFiniteSet({x} \X S) /\ Cardinality({x} \X S) = Cardinality({x}) * Cardinality(S)
  BY <1>1, <1>2, FS_Product
<1> QED
  BY <1>1, <1>2, <1>3 DEF S, More

(* A channel on whose hops nothing more is given keeps its units.           *)
LEMMA UnitsKept ==
  ASSUME NEW c, \A x \in Over(c) : GivenOn(x)' = GivenOn(x)
  PROVE  UnitsGiven(c)' = UnitsGiven(c)
<1>1. UnitsGiven(c)' = UNION {{x} \X (1 .. GivenOn(x)') : x \in Over(c)}
  BY DEF UnitsGiven, Over
<1> QED
  BY <1>1 DEF UnitsGiven

(* To give more on one hop gives that many units more.                      *)
LEMMA UnitsGrow ==
  ASSUME NEW c, NEW x \in Over(c), NEW n \in Nat, IsFiniteSet(UnitsGiven(c)),
         GivenOn(x) \in Nat, GivenOn(x)' = GivenOn(x) + n,
         \A y \in Over(c) : y # x => GivenOn(y)' = GivenOn(y)
  PROVE  /\ IsFiniteSet(UnitsGiven(c)')
         /\ Cardinality(UnitsGiven(c)') = Cardinality(UnitsGiven(c)) + n
<1> DEFINE more == More(x, GivenOn(x), n)
<1>1. UnitsGiven(c)' = UNION {{y} \X (1 .. GivenOn(y)') : y \in Over(c)}
  BY DEF UnitsGiven, Over
<1>2. \A u : u \in UnitsGiven(c)' <=> \E y \in Over(c) : u \in {y} \X (1 .. GivenOn(y)')
  BY <1>1
<1>3. \A u : u \in UnitsGiven(c) <=> \E y \in Over(c) : u \in {y} \X (1 .. GivenOn(y))
  BY DEF UnitsGiven
<1>4. 1 .. GivenOn(x)' = (1 .. GivenOn(x)) \cup (GivenOn(x) + 1 .. GivenOn(x) + n)
  OBVIOUS
<1>5. UnitsGiven(c)' = UnitsGiven(c) \cup more
  <2>1. ASSUME NEW u \in UnitsGiven(c)' PROVE u \in UnitsGiven(c) \cup more
    <3>1. PICK y \in Over(c) : u \in {y} \X (1 .. GivenOn(y)')
      BY <1>2, <2>1
    <3>2. CASE y # x
      BY <1>3, <3>1, <3>2
    <3>3. CASE y = x
      BY <1>3, <1>4, <3>1, <3>3 DEF More
    <3> QED
      BY <3>2, <3>3
  <2>2. ASSUME NEW u \in UnitsGiven(c) PROVE u \in UnitsGiven(c)'
    <3>1. PICK y \in Over(c) : u \in {y} \X (1 .. GivenOn(y))
      BY <1>3, <2>2
    <3>2. u \in {y} \X (1 .. GivenOn(y)')
      BY <1>4, <3>1
    <3> QED
      BY <1>2, <3>2
  <2>3. ASSUME NEW u \in more PROVE u \in UnitsGiven(c)'
    <3>1. u \in {x} \X (1 .. GivenOn(x)')
      BY <1>4, <2>3 DEF More
    <3> QED
      BY <1>2, <3>1
  <2> QED
    BY <2>1, <2>2, <2>3
<1>6. UnitsGiven(c) \cap more = {}
  <2>1. ASSUME NEW u \in UnitsGiven(c), u \in more PROVE FALSE
    <3>1. PICK y \in Over(c) : u \in {y} \X (1 .. GivenOn(y))
      BY <1>3, <2>1
    <3>2. u[1] = y /\ u[1] = x /\ u[2] \in 1 .. GivenOn(x) /\ u[2] \in GivenOn(x) + 1 .. GivenOn(x) + n
      BY <2>1, <3>1 DEF More
    <3> QED
      BY <3>2
  <2> QED
    BY <2>1
<1>7. IsFiniteSet(more) /\ Cardinality(more) = n
  BY MoreUnits
<1> HIDE DEF more
<1>8. /\ IsFiniteSet(UnitsGiven(c) \cup more)
      /\ Cardinality(UnitsGiven(c) \cup more)
           = Cardinality(UnitsGiven(c)) + Cardinality(more) - Cardinality(UnitsGiven(c) \cap more)
  BY <1>7, FS_Union
<1>9. Cardinality(UnitsGiven(c)) \in Nat /\ Cardinality({}) = 0
  BY FS_CardinalityType, FS_EmptySet
<1>10. Cardinality(UnitsGiven(c) \cup more) = Cardinality(UnitsGiven(c)) + n
  <2>1. Cardinality(UnitsGiven(c) \cap more) = 0
    BY <1>6, <1>9, Zenon
  <2> QED
    BY <1>7, <1>8, <1>9, <2>1
<1> QED
  BY <1>5, <1>8, <1>10, Zenon

(* Without a late leg, a node has been given what it has recorded; a late   *)
(* leg is the only one, and its voucher is worth more.                      *)
LEMMA GivenIs ==
  ChannelInv => \A c \in Chan :
     /\ inb[c].redeemed \in Nat
     /\ Late(c) = {} => Given(c) = inb[c].redeemed
     /\ \A h \in Late(c) : /\ Given(c) = L(h).voucher.redeemed /\ Given(c) > inb[c].redeemed
                           /\ Given(c) \in Nat
<1> SUFFICES ASSUME ChannelInv, NEW c \in Chan
             PROVE  /\ inb[c].redeemed \in Nat
                    /\ Late(c) = {} => Given(c) = inb[c].redeemed
                    /\ \A h \in Late(c) : /\ Given(c) = L(h).voucher.redeemed
                                          /\ Given(c) > inb[c].redeemed /\ Given(c) \in Nat
  OBVIOUS
<1>0. Typed /\ Routed
  BY DEF ChannelInv
<1>1. inb[c].redeemed \in Nat
  BY <1>0, FieldFacts
<1>2. ASSUME Late(c) = {} PROVE Given(c) = inb[c].redeemed
  <2>1. Given(c) = Max({inb[c].redeemed})
    BY <1>2 DEF Given
  <2> QED
    BY <1>1, <2>1 DEF Max
<1>3. ASSUME NEW h \in Late(c)
      PROVE  /\ Given(c) = L(h).voucher.redeemed
             /\ Given(c) > inb[c].redeemed /\ Given(c) \in Nat
  <2> DEFINE a == inb[c].redeemed
             b == L(h).voucher.redeemed
  <2>1. h \in Legs /\ ChanOf(h) = c /\ L(h).payee = "held"
    BY DEF Late
  <2>2. \A g \in Late(c) : g = h
    BY <2>1, HeldFacts DEF Late
  <2>3. b > a /\ b \in Nat
    BY <1>0, <2>1, HeldFacts, LegFacts, FieldFacts
  <2>4. {L(g).voucher.redeemed : g \in Late(c)} = {b}
    BY <2>2
  <2>5. Given(c) = Max({a} \cup {b})
    BY <2>4, Zenon DEF Given
  <2> HIDE DEF a, b
  <2>6. a \in Nat
    BY <1>1 DEF a
  <2>7. Max({a} \cup {b}) = b
    BY <2>3, <2>6 DEF Max
  <2> QED
    BY <2>3, <2>5, <2>7 DEF a, b
<1> QED
  BY <1>1, <1>2, <1>3

(* The same after a step.                                                   *)
LEMMA GivenIsNext ==
  ChannelInv' => \A c \in Chan :
     /\ inb'[c].redeemed \in Nat
     /\ Late(c)' = {} => Given(c)' = inb'[c].redeemed
     /\ \A h \in Late(c)' : /\ Given(c)' = L(h)'.voucher.redeemed
                            /\ Given(c)' > inb'[c].redeemed /\ Given(c)' \in Nat
<1>1. (ChannelInv => \A c \in Chan :
         /\ inb[c].redeemed \in Nat
         /\ Late(c) = {} => Given(c) = inb[c].redeemed
         /\ \A h \in Late(c) : /\ Given(c) = L(h).voucher.redeemed /\ Given(c) > inb[c].redeemed
                               /\ Given(c) \in Nat)'
  BY GivenIs, PTL
<1> QED
  BY <1>1

(* A hop on which a unit may have been given.                               *)
LEMMA OverFacts ==
  ASSUME NEW c, NEW x \in Over(c)
  PROVE  /\ x[1] \in Stream /\ x[2] \in Hop /\ x = <<x[1], x[2]>>
         /\ x[2] \in 1 .. Last(x[1]) /\ Last(x[1]) \in Nat
         /\ x[2] # Last(x[1]) => x[2] + 1 \in 1 .. Last(x[1]) /\ x[2] + 1 \in Hop
<1>1. x[1] \in Stream /\ x[2] \in Hop /\ x = <<x[1], x[2]>> /\ x[2] <= Last(x[1])
  BY DEF Over
<1>2. Last(x[1]) \in Nat
  BY <1>1, RouteFacts
<1>3. x[2] \in Nat /\ x[2] >= 1
  BY <1>1, RouteFacts DEF Hop
<1>4. x[2] \in 1 .. Last(x[1]) /\ (x[2] # Last(x[1]) => x[2] + 1 \in 1 .. Last(x[1]))
  BY <1>1, <1>2, <1>3
<1> QED
  BY <1>1, <1>2, <1>4, RouteFacts

(* What has been given on a hop changes only with the destination's credit  *)
(* and what the next payer has received.                                    *)
LEMMA GivenOnKept ==
  ASSUME NEW c, NEW x \in Over(c), credit'[x[1]] = credit[x[1]],
         \A j \in Hop : j = x[2] + 1 => book'[x[1]][j].got = book[x[1]][j].got
  PROVE  GivenOn(x)' = GivenOn(x)
<1>1. x[2] # Last(x[1]) => x[2] + 1 \in Hop
  BY OverFacts
<1> QED
  BY <1>1 DEF GivenOn

(* It is a natural number.                                                  *)
LEMMA GivenOnIsNat ==
  ASSUME Typed, RouteInv, NEW c, NEW x \in Over(c)
  PROVE  GivenOn(x) \in Nat
<1>1. x[1] \in Stream /\ (x[2] # Last(x[1]) => x[2] + 1 \in 1 .. Last(x[1]))
  BY OverFacts
<1>2. x[2] # Last(x[1]) => book[x[1]][x[2] + 1].got \in Ledger
  BY <1>1 DEF RouteInv, HopBooked
<1>3. credit[x[1]] \in Nat
  BY <1>1 DEF Typed
<1> QED
  BY <1>2, <1>3 DEF GivenOn, Ledger

(* The late legs stay when nobody begins or ends to be late.                *)
LEMMA LateKept ==
  ASSUME NEW c, Legs \subseteq Legs',
         \A g \in Legs : ChanOf(g)' = ChanOf(g) /\ StreamOf(g)' = StreamOf(g),
         \A g \in Legs : ChanOf(g) = c =>
            (L(g)'.payee = "held" /\ Onward(g)' = "paid" <=> L(g).payee = "held" /\ Onward(g) = "paid"),
         \A g \in Legs' : g \in Legs \/ L(g)'.payee # "held"
  PROVE  Late(c)' = Late(c)
<1>1. Late(c)' = {g \in Legs' : /\ ChanOf(g)' = c /\ ~IsLast(g)'
                                /\ L(g)'.payee = "held" /\ Onward(g)' = "paid"}
  BY DEF Late, PassedOn
<1>2. Late(c) = {g \in Legs : /\ ChanOf(g) = c /\ ~IsLast(g)
                              /\ L(g).payee = "held" /\ Onward(g) = "paid"}
  BY DEF Late, PassedOn
<1>3. \A g \in Legs : IsLast(g)' <=> IsLast(g)
  BY DEF IsLast
<1> QED
  BY <1>1, <1>2, <1>3

(* What a node has been given stays when its record and its late legs do.   *)
LEMMA GivenKept ==
  ASSUME NEW c, Late(c)' = Late(c), inb'[c] = inb[c],
         \A g \in Legs : L(g)'.voucher = L(g).voucher
  PROVE  Given(c)' = Given(c)
<1>1. Given(c)' = Max({inb'[c].redeemed} \cup {L(g)'.voucher.redeemed : g \in Late(c)'})
  BY DEF Given
<1>2. {L(g)'.voucher.redeemed : g \in Late(c)'} = {L(g).voucher.redeemed : g \in Late(c)}
  BY DEF Late
<1> QED
  BY <1>1, <1>2 DEF Given

(* A step that gives nothing to anyone, and records nothing at a payee.     *)
LEMMA QuietGiven ==
  ASSUME GivenInv, inb' = inb, credit' = credit,
         \A t \in Stream, j \in Hop : book'[t][j].got = book[t][j].got,
         \A c \in Chan : Late(c)' = Late(c),
         \A g \in Legs : L(g)'.voucher = L(g).voucher
  PROVE  GivenInv'
<1>1. ASSUME NEW c \in Chan
      PROVE  UnitsGiven(c)' = UnitsGiven(c) /\ Given(c)' = Given(c)
  <2>1. \A x \in Over(c) : GivenOn(x)' = GivenOn(x)
    <3> TAKE x \in Over(c)
    <3>1. x[1] \in Stream
      BY OverFacts
    <3> QED
      BY <3>1, GivenOnKept
  <2> QED
    BY <2>1, UnitsKept, GivenKept
<1> QED
  BY <1>1 DEF GivenInv

(* No leg has been paid for, and no payment taken back, unless some payer's *)
(* half says so.                                                            *)
LEMMA PassedOnKept ==
  ASSUME ChannelInv, ChannelInv', Legs' = Legs,
         \A g \in Legs : L(g)'.sender = "paid" <=> L(g).sender = "paid"
  PROVE  \A g \in Legs : Onward(g)' = "paid" <=> Onward(g) = "paid"
<1>1. \A g \in Legs : Onward(g) = IF NextHop(g) \in Legs THEN L(NextHop(g)).sender ELSE "none"
  BY OnwardIs DEF ChannelInv
<1>2. \A g \in Legs : Onward(g)' = IF NextHop(g) \in Legs THEN L(NextHop(g))'.sender ELSE "none"
  BY OnwardIsNext DEF ChannelInv
<1> QED
  BY <1>1, <1>2

(* A leg that begins is not late, and makes none late.                      *)
LEMMA BeginGiven ==
  ASSUME ChannelInv, ChannelInv', GivenInv,
         NEW s, NEW i, NEW petty, NEW h, h \notin Legs, Legs' = Legs \cup {h},
         L(h)' = NewLeg(s, i, petty),
         \A g \in Legs : L(g)' = L(g) /\ ChanOf(g)' = ChanOf(g) /\ StreamOf(g)' = StreamOf(g),
         UNCHANGED <<inb, book, credit>>
  PROVE  GivenInv'
<1>1. L(h)'.sender = "waiting" /\ L(h)'.payee = "asked"
  BY DEF NewLeg
<1>2. \A g \in Legs : Onward(g)' = "paid" <=> Onward(g) = "paid"
  <2>1. \A g \in Legs : Onward(g) = IF NextHop(g) \in Legs THEN L(NextHop(g)).sender ELSE "none"
    BY OnwardIs DEF ChannelInv
  <2>2. \A g \in Legs : Onward(g)' = IF NextHop(g) \in Legs' THEN L(NextHop(g))'.sender ELSE "none"
    BY OnwardIsNext DEF ChannelInv
  <2> QED
    BY <1>1, <2>1, <2>2
<1>3. \A c \in Chan : Late(c)' = Late(c)
  <2>1. /\ Legs \subseteq Legs'
        /\ \A g \in Legs : ChanOf(g)' = ChanOf(g) /\ StreamOf(g)' = StreamOf(g)
        /\ \A g \in Legs' : g \in Legs \/ L(g)'.payee # "held"
    BY <1>1
  <2>2. \A g \in Legs : L(g)'.payee = "held" /\ Onward(g)' = "paid"
                        <=> L(g).payee = "held" /\ Onward(g) = "paid"
    BY <1>2
  <2> QED
    BY <2>1, <2>2, LateKept
<1> QED
  BY <1>3, QuietGiven

(* The legs of a step that begins none and answers none.                    *)
LEMMA SettledGiven ==
  ASSUME ChannelInv, ChannelInv', GivenInv, Legs' = Legs,
         \A g \in Legs : /\ L(g)'.voucher = L(g).voucher
                         /\ L(g)'.sender = "paid" <=> L(g).sender = "paid"
                         /\ \/ L(g)'.payee = "held" <=> L(g).payee = "held"
                            \/ Onward(g) # "paid",
         \A t \in Stream, j \in Hop : book'[t][j].got = book[t][j].got,
         UNCHANGED <<inb, request, credit>>
  PROVE  GivenInv'
<1>1. \A g \in Legs : ChanOf(g)' = ChanOf(g) /\ StreamOf(g)' = StreamOf(g)
  BY SameRequest
<1>2. \A g \in Legs : Onward(g)' = "paid" <=> Onward(g) = "paid"
  BY PassedOnKept
<1>3. \A c \in Chan : Late(c)' = Late(c)
  BY <1>1, <1>2, LateKept
<1> QED
  BY <1>3, QuietGiven

(* A handler that checks or refuses was not late.                           *)
LEMMA CheckGiven ==
  ASSUME ChannelInv, ChannelInv', RouteInv, GivenInv,
         NEW h \in Legs, Probe(h) \/ Hold(h) \/ Refuse(h)
  PROVE  GivenInv'
<1>0. Typed /\ Routed
  BY DEF ChannelInv
<1>1. /\ h \in Request \X Hop /\ L(h) \in Leg /\ h[1] \in Request /\ h[2] \in Hop
      /\ inb[ChanOf(h)] \in Voucher
  BY <1>0, LegFacts, FieldFacts
<1>2. /\ UNCHANGED <<inb, book, request, credit>>
      /\ L(h).payee \in {"asked", "probed"} \/ (L(h).payee = "held" /\ Hopeless(h))
  BY DEF Probe, Hold, Refuse
<1>3. Onward(h) # "paid"
  <2>1. NextHop(h) \in Legs => L(h).payee \in {"held", "done"}
    <3>1. Back(NextHop(h)) = h /\ (NextHop(h) \in Legs => NextHop(h)[2] # 1)
      BY <1>0, Neighbours
    <3>2. \A g \in Legs : g[2] # 1 => L(Back(g)).payee \in {"held", "done"}
      BY DEF RouteInv, LegBooked
    <3> QED
      BY <3>1, <3>2
  <2>2. Onward(h) = IF NextHop(h) \in Legs THEN L(NextHop(h)).sender ELSE "none"
    BY <1>0, OnwardIs
  <2> QED
    BY <1>2, <2>1, <2>2 DEF Hopeless
<1>4. PICK new \in Leg : /\ leg' = [leg EXCEPT ![h[1]][h[2]] = new]
                         /\ new.voucher = L(h).voucher /\ new.sender = L(h).sender
  <2>1. ASSUME NEW r \in {Failure, Loss(inb[ChanOf(h)])}, Reply(h, r)
        PROVE  \E new \in Leg : /\ leg' = [leg EXCEPT ![h[1]][h[2]] = new]
                                /\ new.voucher = L(h).voucher /\ new.sender = L(h).sender
    <3> DEFINE new == [L(h) EXCEPT !.payee = "done", !.reply = r]
    <3>1. r \in Answer
      BY <1>1 DEF Answer, Failure, Loss
    <3>2. new \in Leg /\ new.voucher = L(h).voucher /\ new.sender = L(h).sender
      BY <1>1, <3>1 DEF Leg, Answer
    <3>3. leg' = [leg EXCEPT ![h[1]][h[2]] = new]
      BY <1>0, <1>1, <2>1 DEF Reply, L, Typed
    <3> HIDE DEF new
    <3> QED
      BY <3>2, <3>3
  <2>2. ASSUME NEW where \in {"probed", "held"}, leg' = [leg EXCEPT ![h[1]][h[2]].payee = where]
        PROVE  \E new \in Leg : /\ leg' = [leg EXCEPT ![h[1]][h[2]] = new]
                                /\ new.voucher = L(h).voucher /\ new.sender = L(h).sender
    <3> DEFINE new == [L(h) EXCEPT !.payee = where]
    <3>1. new \in Leg /\ new.voucher = L(h).voucher /\ new.sender = L(h).sender
      BY <1>1 DEF Leg
    <3>2. leg' = [leg EXCEPT ![h[1]][h[2]] = new]
      BY <1>0, <1>1, <2>2 DEF L, Typed
    <3> HIDE DEF new
    <3> QED
      BY <3>1, <3>2
  <2> QED
    BY <2>1, <2>2 DEF Probe, Hold, Refuse, Evidence
<1>5. /\ L(h)' = new
      /\ \A g \in Request \X Hop : g # h => L(g)' = L(g)
      /\ Legs' = Legs \cup {h}
  BY <1>0, <1>1, <1>4, LegEffect
<1>6. Legs' = Legs /\ \A g \in Legs : g \in Request \X Hop
  BY <1>5 DEF Legs
<1> QED
  BY <1>2, <1>3, <1>4, <1>5, <1>6, SettledGiven

(* A payer that gives up, or learns of a loss, has paid nothing.            *)
LEMMA FailGiven ==
  ASSUME ChannelInv, ChannelInv', GivenInv, NEW h \in Legs, GiveUp(h) \/ Lose(h)
  PROVE  GivenInv'
<1>0. Typed /\ Routed
  BY DEF ChannelInv
<1>1. /\ L(h).sender = "waiting" /\ Resolve(h, "failed") /\ UNCHANGED <<inb, request, credit>>
  BY DEF GiveUp, Lose
<1>2. /\ Legs' = Legs /\ L(h)'.sender = "failed"
      /\ \A g \in Legs : /\ L(g)'.voucher = L(g).voucher
                         /\ L(g)'.payee = L(g).payee
                         /\ g # h => L(g)' = L(g)
  BY <1>1, ResolveEffect
<1>3. ASSUME NEW t \in Stream, NEW j \in Hop
      PROVE  book'[t][j].got = book[t][j].got
  <2>1. book[t][j] \in [here : BOOLEAN, paid : Ledger, got : [petty : Int, surcharge : Int]]
    BY <1>0 DEF Typed
  <2>2. \/ book' = book
        \/ \E c : book'[t][j] = IF j <= Last(t) /\ Route[t][j] = c
                                THEN [book[t][j] EXCEPT !.here = FALSE] ELSE book[t][j]
    <3>1. CASE GiveUp(h)
      BY <3>1 DEF GiveUp
    <3>2. CASE Lose(h) /\ ~Proves(ChanOf(h), L(h).reply.voucher)
      BY <3>2 DEF Lose
    <3>3. CASE Lose(h) /\ Proves(ChanOf(h), L(h).reply.voucher)
      <4>1. book' = [s \in Stream |-> [i \in Hop |->
                       IF i <= Last(s) /\ Route[s][i] = ChanOf(h)
                       THEN [book[s][i] EXCEPT !.here = FALSE] ELSE book[s][i]]]
        BY <3>3 DEF Lose
      <4> QED
        BY <4>1
    <3> QED
      BY <3>1, <3>2, <3>3
  <2> QED
    BY <2>1, <2>2
<1> QED
  BY <1>1, <1>2, <1>3, SettledGiven

(* The destination credits no more than what the voucher brings in.         *)
LEMMA SettleGiven ==
  ASSUME ChannelInv, ChannelInv', RouteInv, GivenInv, NEW h \in Legs, Settle(h)
  PROVE  GivenInv'
<1>0. Typed /\ Routed
  BY DEF ChannelInv
<1> PICK s \in Stream, c \in Chan, petty \in Nat :
         s = StreamOf(h) /\ c = ChanOf(h) /\ petty = PettyOf(h)
  BY <1>0, LegFacts
<1> DEFINE x == <<s, Last(s)>>
<1>1. /\ L(h).payee = "held" /\ IsLast(h) /\ Keep(h) /\ GrossReceived(h) >= petty
      /\ credit' = [credit EXCEPT ![s] = @ + petty] /\ UNCHANGED <<out, book, request>>
  BY DEF Settle
<1>2. /\ credit'[s] = credit[s] + petty
      /\ \A t \in Stream : t # s => credit'[t] = credit[t]
      /\ inb'[c] = L(h).voucher /\ \A d \in Chan : d # c => inb'[d] = inb[d]
  BY <1>0, <1>1 DEF Typed, Keep
<1>3. /\ Legs' = Legs
      /\ \A g \in Legs : /\ L(g)'.voucher = L(g).voucher /\ L(g)'.sender = L(g).sender
                         /\ g # h => L(g)' = L(g)
  BY <1>1, KeepEffect
<1>4. \A g \in Legs : ChanOf(g)' = ChanOf(g) /\ StreamOf(g)' = StreamOf(g)
  BY <1>1, SameRequest
<1>5. x \in Over(c) /\ x[1] = s /\ x[2] = Last(s)
  BY <1>0, <1>1, LegFacts DEF Over, ChanOf, IsLast
<1>6. ASSUME NEW d \in Chan, NEW y \in Over(d), y # x
      PROVE  GivenOn(y)' = GivenOn(y)
  <2>1. y[1] \in Stream /\ y = <<y[1], y[2]>>
    BY OverFacts
  <2>2. y[1] # s \/ y[2] # Last(y[1])
    BY <1>6, <2>1
  <2> QED
    BY <1>1, <1>2, <2>1, <2>2 DEF GivenOn
<1>7. ASSUME NEW d \in Chan, d # c
      PROVE  UnitsGiven(d)' = UnitsGiven(d) /\ Given(d)' = Given(d)
  <2>1. x \notin Over(d)
    BY <1>5, <1>7 DEF Over
  <2>2. UnitsGiven(d)' = UnitsGiven(d)
    BY <1>6, <2>1, UnitsKept
  <2>3. \A g \in Legs : Onward(g)' = "paid" <=> Onward(g) = "paid"
    BY <1>3, PassedOnKept
  <2>4. Late(d)' = Late(d)
    BY <1>3, <1>4, <1>7, <2>3, LateKept
  <2> QED
    BY <1>2, <1>3, <1>7, <2>2, <2>4, GivenKept
<1>8. /\ IsFiniteSet(UnitsGiven(c)') /\ Cardinality(UnitsGiven(c)') <= Given(c)'
  <2>1. \A g \in Legs : ChanOf(g) = c /\ L(g).payee = "held" => g = h
    BY <1>1, HeldFacts
  <2>2. Late(c) = {}
    BY <1>1, <2>1 DEF Late
  <2>3. Late(c)' = {}
    <3>1. Late(c)' \subseteq {g \in Legs : ChanOf(g) = c /\ L(g)'.payee = "held" /\ ~IsLast(g)}
      BY <1>3, <1>4 DEF Late, IsLast
    <3> QED
      BY <1>1, <1>3, <2>1, <3>1
  <2>4. /\ Given(c) = inb[c].redeemed /\ inb[c].redeemed \in Nat
        /\ Given(c)' = L(h).voucher.redeemed /\ L(h).voucher.redeemed \in Nat
    BY <1>2, <2>2, <2>3, GivenIs, GivenIsNext
  <2>5. Given(c)' >= Given(c) + petty
    BY <1>1, <2>4 DEF GrossReceived
  <2>6. GivenOn(x) \in Nat
    BY <1>0, <1>5, GivenOnIsNat
  <2>7. GivenOn(x)' = GivenOn(x) + petty
    BY <1>2, <1>5 DEF GivenOn
  <2>8. IsFiniteSet(UnitsGiven(c)) /\ Cardinality(UnitsGiven(c)) <= Given(c)
    BY DEF GivenInv
  <2> HIDE DEF x
  <2>9. /\ IsFiniteSet(UnitsGiven(c)')
        /\ Cardinality(UnitsGiven(c)') = Cardinality(UnitsGiven(c)) + petty
    BY <1>5, <1>6, <2>6, <2>7, <2>8, UnitsGrow
  <2>10. Cardinality(UnitsGiven(c)) \in Nat
    BY <2>8, FS_CardinalityType
  <2> QED
    BY <2>4, <2>5, <2>8, <2>9, <2>10
<1> QED
  BY <1>7, <1>8 DEF GivenInv

(* A proxy that commits what has come in records what it was about to.      *)
LEMMA CollectGiven ==
  ASSUME ChannelInv, ChannelInv', GivenInv, NEW h \in Legs, Collect(h)
  PROVE  GivenInv'
<1>0. Typed /\ Routed
  BY DEF ChannelInv
<1> PICK c \in Chan : c = ChanOf(h)
  BY <1>0, LegFacts
<1>1. /\ L(h).payee = "held" /\ ~IsLast(h) /\ PassedOn(h) /\ Keep(h)
      /\ UNCHANGED <<out, book, request, credit>>
  BY DEF Collect
<1>2. inb'[c] = L(h).voucher /\ \A d \in Chan : d # c => inb'[d] = inb[d]
  BY <1>0, <1>1 DEF Typed, Keep
<1>3. /\ Legs' = Legs /\ L(h)'.payee = "done"
      /\ \A g \in Legs : /\ L(g)'.voucher = L(g).voucher /\ L(g)'.sender = L(g).sender
                         /\ g # h => L(g)' = L(g)
  BY <1>1, KeepEffect
<1>4. \A g \in Legs : ChanOf(g)' = ChanOf(g) /\ StreamOf(g)' = StreamOf(g)
  BY <1>1, SameRequest
<1>5. ASSUME NEW d \in Chan PROVE UnitsGiven(d)' = UnitsGiven(d)
  <2>1. \A y \in Over(d) : GivenOn(y)' = GivenOn(y)
    BY <1>1 DEF GivenOn
  <2> QED
    BY <2>1, UnitsKept
<1>6. ASSUME NEW d \in Chan, d # c PROVE Given(d)' = Given(d)
  <2>1. \A g \in Legs : Onward(g)' = "paid" <=> Onward(g) = "paid"
    BY <1>3, PassedOnKept
  <2>2. Late(d)' = Late(d)
    BY <1>3, <1>4, <1>6, <2>1, LateKept
  <2> QED
    BY <1>2, <1>3, <1>6, <2>2, GivenKept
<1>7. Given(c)' = Given(c)
  <2>1. h \in Late(c)
    BY <1>1 DEF Late
  <2>2. \A g \in Legs : ChanOf(g) = c /\ L(g).payee = "held" => g = h
    BY <1>1, HeldFacts
  <2>3. Late(c)' = {}
    <3>1. Late(c)' \subseteq {g \in Legs : ChanOf(g) = c /\ L(g)'.payee = "held"}
      BY <1>3, <1>4 DEF Late
    <3> QED
      BY <1>3, <2>2, <3>1
  <2> QED
    BY <1>2, <2>1, <2>3, GivenIs, GivenIsNext
<1>8. \A d \in Chan : Given(d)' = Given(d)
  BY <1>6, <1>7
<1> QED
  BY <1>5, <1>8 DEF GivenInv

(* A proxy that has heard of its payment has received for it what the       *)
(* voucher it still holds brings in; a source gives nothing.                *)
LEMMA ConfirmGiven ==
  ASSUME ChannelInv, ChannelInv', RouteInv, GivenInv, NEW h \in Legs, Confirm(h)
  PROVE  GivenInv'
<1>0. Typed /\ Routed
  BY DEF ChannelInv
<1>1. /\ L(h).sender = "waiting" /\ UNCHANGED <<inb, request, credit>>
      /\ Legs' = Legs /\ L(h)'.sender = "paid"
      /\ \A g \in Legs : /\ L(g)'.voucher = L(g).voucher
                         /\ L(g)'.payee = L(g).payee
                         /\ g # h => L(g)' = L(g)
  BY ConfirmEffect
<1>2. \A t \in Stream, j \in Hop :
        book'[t][j].got = IF t = StreamOf(h) /\ j = h[2] /\ j # 1
                          THEN [petty |-> Incoming(Back(h)).petty,
                                surcharge |-> Incoming(Back(h)).surcharge]
                          ELSE book[t][j].got
  BY ConfirmEffect
<1>3. \A g \in Legs : ChanOf(g)' = ChanOf(g) /\ StreamOf(g)' = StreamOf(g)
  BY <1>1, SameRequest
<1>4. \A g \in Legs : g # Back(h) => (Onward(g)' = "paid" <=> Onward(g) = "paid")
  <2> TAKE g \in Legs
  <2>1. Onward(g) = IF NextHop(g) \in Legs THEN L(NextHop(g)).sender ELSE "none"
    BY <1>0, OnwardIs
  <2>2. Onward(g)' = IF NextHop(g) \in Legs THEN L(NextHop(g))'.sender ELSE "none"
    BY <1>1, OnwardIsNext DEF ChannelInv
  <2>3. g # Back(h) => NextHop(g) # h
    BY <1>0, Neighbours
  <2> QED
    BY <1>1, <2>1, <2>2, <2>3
<1>5. CASE h[2] = 1
  <2>1. \A g \in Legs : g # Back(h)
    <3> SUFFICES ASSUME NEW g \in Legs, g = Back(h) PROVE FALSE
      OBVIOUS
    <3>1. NextHop(g) = h /\ (NextHop(g) \in Legs => NextHop(g)[2] # 1)
      BY <1>0, Neighbours
    <3> QED
      BY <1>5, <3>1
  <2>2. \A d \in Chan : Late(d)' = Late(d)
    BY <1>1, <1>3, <1>4, <2>1, LateKept
  <2>3. \A t \in Stream, j \in Hop : book'[t][j].got = book[t][j].got
    BY <1>2, <1>5
  <2> QED
    BY <1>1, <2>2, <2>3, QuietGiven
<1>6. CASE h[2] # 1
  <2> PICK b : b = Back(h)
    OBVIOUS
  <2>1. /\ b \in Legs /\ NextHop(b) = h /\ b[1] = h[1] /\ b[2] + 1 = h[2]
        /\ StreamOf(b) = StreamOf(h) /\ L(b).payee = "held"
    <3>1. b \in Legs /\ NextHop(b) = h /\ b[1] = h[1] /\ StreamOf(b) = StreamOf(h)
      BY <1>0, <1>6, Neighbours DEF Back, StreamOf
    <3>2. b[2] + 1 = h[2]
      BY <3>1 DEF NextHop
    <3>3. L(b).payee = "held"
      BY <1>1, <1>6 DEF RouteInv, LegBooked
    <3> QED
      BY <3>1, <3>2, <3>3
  <2>2. /\ ~IsLast(b) /\ Onward(b) = "waiting" /\ Onward(b)' = "paid"
    <3>1. Onward(b) = "waiting"
      BY <1>0, <1>1, <2>1, OnwardIs
    <3>2. Onward(b)' = "paid"
      BY <1>1, <2>1, OnwardIsNext DEF ChannelInv
    <3> QED
      BY <3>1, <3>2 DEF Onward
  <2>3. book[StreamOf(b)][b[2] + 1].here
    <3>1. Current(h) /\ out[ChanOf(h)].loss = NoVoucher
      BY <1>1 DEF ChannelInv, LegOK
    <3>2. book[StreamOf(h)][h[2]].here
      BY <3>1 DEF RouteInv, LegBooked
    <3> QED
      BY <2>1, <3>2
  <2> PICK s \in Stream, c \in Chan : s = StreamOf(b) /\ c = ChanOf(b)
    BY <1>0, <2>1, LegFacts
  <2> PICK n, x : n = GrossReceived(b) /\ x = <<s, b[2]>>
    OBVIOUS
  <2>4. /\ n \in Nat /\ Incoming(b).petty + Incoming(b).surcharge = GivenOn(x) + n
    BY <2>1, <2>2, <2>3, ProxyReads
  <2>5. /\ x \in Over(c) /\ x[1] = s /\ x[2] = b[2] /\ x[2] # Last(s) /\ x[2] + 1 = h[2]
        /\ h[2] \in Hop
    <3>1. b \in Request \X Hop /\ b[2] \in 1 .. Last(StreamOf(b)) /\ Last(s) \in Nat /\ h[2] \in Hop
      BY <1>0, <2>1, LegFacts, RouteFacts
    <3>2. b[2] \in Hop /\ b[2] <= Last(s) /\ Route[s][b[2]] = c
      BY <3>1 DEF ChanOf
    <3>3. b[2] # Last(s)
      BY <2>2 DEF IsLast
    <3> QED
      BY <2>1, <3>1, <3>2, <3>3 DEF Over
  <2>6. GivenOn(x)' = GivenOn(x) + n
    <3>1. book'[s][h[2]].got = [petty |-> Incoming(b).petty, surcharge |-> Incoming(b).surcharge]
      BY <1>2, <1>6, <2>1, <2>5
    <3>2. GivenOn(x)' = book'[s][h[2]].got.petty + book'[s][h[2]].got.surcharge
      BY <2>5 DEF GivenOn
    <3> QED
      BY <2>4, <3>1, <3>2
  <2>7. ASSUME NEW d \in Chan, NEW y \in Over(d), y # x
        PROVE  GivenOn(y)' = GivenOn(y)
    <3>1. /\ y[1] \in Stream /\ y[2] \in Nat /\ y = <<y[1], y[2]>> /\ b[2] \in Nat
          /\ x = <<s, b[2]>>
      BY <2>5, OverFacts
    <3>2. y[1] # s \/ y[2] + 1 # h[2]
      BY <2>1, <2>7, <3>1
    <3>3. \A j \in Hop : j = y[2] + 1 => book'[y[1]][j].got = book[y[1]][j].got
      BY <1>2, <2>1, <3>1, <3>2
    <3> QED
      BY <1>1, <3>3, GivenOnKept
  <2>8. ASSUME NEW d \in Chan, d # c
        PROVE  UnitsGiven(d)' = UnitsGiven(d) /\ Given(d)' = Given(d)
    <3>1. x \notin Over(d)
      BY <2>5, <2>8 DEF Over
    <3>2. UnitsGiven(d)' = UnitsGiven(d)
      BY <2>7, <3>1, UnitsKept
    <3>3. Late(d)' = Late(d)
      BY <1>1, <1>3, <1>4, <2>8, LateKept
    <3> QED
      BY <1>1, <3>2, <3>3, GivenKept
  <2>9. /\ IsFiniteSet(UnitsGiven(c)') /\ Cardinality(UnitsGiven(c)') <= Given(c)'
    <3>1. Late(c) = {}
      <4>1. \A g \in Legs : ChanOf(g) = c /\ L(g).payee = "held" => g = b
        BY <2>1, HeldFacts
      <4> QED
        BY <2>2, <4>1 DEF Late, PassedOn
    <3>2. b \in Late(c)'
      <4>1. b \in Legs' /\ ChanOf(b)' = c /\ ~IsLast(b)' /\ L(b)'.payee = "held" /\ PassedOn(b)'
        BY <1>1, <1>3, <2>1, <2>2 DEF IsLast, PassedOn
      <4> QED
        BY <4>1 DEF Late
    <3>3. /\ Given(c) = inb[c].redeemed /\ inb[c].redeemed \in Nat
          /\ Given(c)' = L(b).voucher.redeemed /\ Given(c)' \in Nat
      BY <1>1, <2>1, <3>1, <3>2, GivenIs, GivenIsNext
    <3>4. Given(c)' = Given(c) + n
      BY <3>3 DEF GrossReceived
    <3>5. GivenOn(x) \in Nat
      BY <1>0, <2>5, GivenOnIsNat
    <3>6. IsFiniteSet(UnitsGiven(c)) /\ Cardinality(UnitsGiven(c)) <= Given(c)
      BY DEF GivenInv
    <3>7. /\ IsFiniteSet(UnitsGiven(c)')
          /\ Cardinality(UnitsGiven(c)') = Cardinality(UnitsGiven(c)) + n
      BY <2>4, <2>5, <2>6, <2>7, <3>5, <3>6, UnitsGrow
    <3>8. Cardinality(UnitsGiven(c)) \in Nat
      BY <3>6, FS_CardinalityType
    <3> QED
      BY <2>4, <3>3, <3>4, <3>6, <3>7, <3>8
  <2> QED
    BY <2>8, <2>9 DEF GivenInv
<1> QED
  BY <1>5, <1>6

(* Nothing is given before anything is paid.                                *)
LEMMA GivenInit == Init => GivenInv
<1> SUFFICES ASSUME Init, NEW c \in Chan
             PROVE  IsFiniteSet(UnitsGiven(c)) /\ Cardinality(UnitsGiven(c)) <= Given(c)
  BY DEF GivenInv
<1>1. \A x \in Over(c) : GivenOn(x) = 0
  <2> TAKE x \in Over(c)
  <2>1. x[1] \in Stream /\ (x[2] # Last(x[1]) => x[2] + 1 \in Hop)
    BY OverFacts
  <2> QED
    BY <2>1 DEF Init, GivenOn, NothingPaid
<1>2. UnitsGiven(c) = {}
  BY <1>1 DEF UnitsGiven
<1>3. Late(c) = {}
  BY DEF Init, Late, Legs
<1>4. inb[c].redeemed = 0
  BY DEF Init, NoPayment
<1>5. Given(c) = 0
  BY <1>3, <1>4, ChannelInit, GivenIs
<1> QED
  BY <1>2, <1>5, FS_EmptySet

(* Every step keeps what is given within what has come in.                  *)
LEMMA GivenNext ==
  ChannelInv /\ ChannelInv' /\ RouteInv /\ GivenInv /\ [Next]_vars => GivenInv'
<1> SUFFICES ASSUME ChannelInv, ChannelInv', RouteInv, GivenInv, [Next]_vars PROVE GivenInv'
  OBVIOUS
<1>0. Typed /\ Routed
  BY DEF ChannelInv
<1>1. ASSUME UNCHANGED <<inb, request, leg, credit>>,
             \A t \in Stream, j \in Hop : book'[t][j].got = book[t][j].got
      PROVE  GivenInv'
  <2>1. Legs' = Legs /\ \A g \in Legs : L(g)' = L(g)
    BY <1>1 DEF Legs, L
  <2> QED
    BY <1>1, <2>1, SettledGiven
<1>2. ASSUME NEW s \in Stream, Open(s) PROVE GivenInv'
  <2>1. \A t \in Stream, j \in Hop : book'[t][j].got = book[t][j].got
    <3> TAKE t \in Stream, j \in Hop
    <3>1. book[t][j] \in [here : BOOLEAN, paid : Ledger, got : [petty : Int, surcharge : Int]]
      BY <1>0 DEF Typed
    <3>2. book'[t][j] = IF t = s THEN [book[t][j] EXCEPT !.here = j <= Last(s)] ELSE book[t][j]
      BY <1>0, <1>2 DEF Typed, Open
    <3> QED
      BY <3>1, <3>2
  <2> QED
    BY <1>1, <1>2, <2>1 DEF Open
<1>3. ASSUME NEW q \in Request, NEW petty \in 1 .. MaxPetty, NEW s \in Wants[q],
             Start(q, s, petty)
      PROVE  GivenInv'
  <2> PICK h : h = <<q, 1>>
    OBVIOUS
  <2>1. /\ h \notin Legs /\ Legs' = Legs \cup {h} /\ L(h)' = NewLeg(s, 1, petty)
        /\ \A g \in Legs : L(g)' = L(g) /\ ChanOf(g)' = ChanOf(g) /\ StreamOf(g)' = StreamOf(g)
    BY <1>3, StartStep
  <2>2. UNCHANGED <<inb, book, credit>>
    BY <1>3 DEF Start
  <2> QED
    BY <2>1, <2>2, BeginGiven
<1>4. ASSUME NEW h \in Legs, Forward(h) PROVE GivenInv'
  <2> PICK n : n = NextHop(h)
    OBVIOUS
  <2>1. /\ n \notin Legs /\ Legs' = Legs \cup {n}
        /\ L(n)' = NewLeg(StreamOf(h), h[2] + 1, PettyOf(h))
        /\ \A g \in Legs : L(g)' = L(g) /\ ChanOf(g)' = ChanOf(g) /\ StreamOf(g)' = StreamOf(g)
    BY <1>4, ForwardStep
  <2>2. UNCHANGED <<inb, book, credit>>
    BY <1>4 DEF Forward
  <2> QED
    BY <2>1, <2>2, BeginGiven
<1>5. ASSUME NEW h \in Legs, Paying(h) \/ Receiving(h) PROVE GivenInv'
  BY <1>4, <1>5, ConfirmGiven, FailGiven, CheckGiven, SettleGiven, CollectGiven DEF Paying, Receiving
<1>6. ASSUME NEW c \in Chan, Bear(c) PROVE GivenInv'
  BY <1>1, <1>6 DEF Bear
<1>7. CASE UNCHANGED vars
  BY <1>1, <1>7 DEF vars
<1> QED
  BY <1>2, <1>3, <1>5, <1>6, <1>7 DEF Next

(* No node passes on, or credits, more than the vouchers it can redeem, on  *)
(* any channel and whatever streams share it (the order of commits in       *)
(* handleProxyPay, and the amount check in handleDirectPay).                *)
THEOREM NothingForNothingHolds == Spec => []NothingForNothing
<1>1. Init => ChannelInv /\ RouteInv /\ GivenInv
  BY ChannelInit, RouteInit, GivenInit
<1>2. (ChannelInv /\ RouteInv /\ GivenInv) /\ [Next]_vars
        => (ChannelInv /\ RouteInv /\ GivenInv)'
  BY ChannelNext, RouteNext, GivenNext
<1>3. GivenInv => NothingForNothing
  BY DEF GivenInv, NothingForNothing
<1> QED
  BY <1>1, <1>2, <1>3, PTL DEF Spec
=============================================================================
