------------------------- MODULE PaymentStreamProofs -------------------------
(***************************************************************************)
(* That every stream of payments along a quoted route stays exact at every *)
(* hop, for every length of the route, all terms the proxies serve at,     *)
(* every amount reserved and every split of it into payments.              *)
(***************************************************************************)
EXTENDS PaymentStream, SurchargeProofs

(* What a ledger's total is when its surcharge is exact: the price of the   *)
(* petty amount paid, and nothing before the first payment.                 *)
Exact(terms, ledger) ==
    /\ ledger.petty = 0 => ledger.surcharge = 0
    /\ ledger.petty > 0 => Total(ledger) = GrossRequired(terms, ledger.petty)

(* Inbound terms that never cost less than the outbound terms.              *)
Covers(inbound, outbound) ==
    /\ inbound.ppp >= outbound.ppp
    /\ outbound.ppp > 0 => inbound.period <= outbound.period

(* The route is quoted from its last hop backwards, each hop at the terms   *)
(* the hop behind it has quoted, which are legal, or the hop would have     *)
(* refused them.                                                            *)
QuoteInv ==
    /\ \A i \in Hop : \A j \in i .. Hops : res[i].quoted => res[j].quoted
    /\ \A i \in Hop : LegalTerms(res[i].outbound)
    /\ \A i \in Proxy : res[i - 1].quoted => res[i - 1].outbound = res[i].inbound
    /\ \A i \in Proxy : res[i].quoted => Covers(res[i].inbound, res[i].outbound)

(* The books of the route: every hop has paid the same petty amount, at its *)
(* own price, has set the rest of it aside, and has recorded as received    *)
(* what the hop before it has recorded as paid.                             *)
BooksInv ==
    /\ \A i \in Hop : res[i].paid.petty = res[1].paid.petty
    /\ \A i \in Hop : ~res[1].quoted => res[i].paid = Nothing
    /\ \A i \in Hop : Exact(res[i].outbound, res[i].paid)
    /\ \A i \in Hop : res[i].quoted =>
           res[i].remain + Total(res[i].paid) = GrossRequired(res[i].outbound, amt)
    /\ \A i \in Proxy : res[i].received = res[i - 1].paid
    /\ res[1].paid.petty <= amt

StreamInv == QuoteInv /\ BooksInv /\ NoRefusal
IInv == TypeOK /\ StreamInv

-----------------------------------------------------------------------------
(* The parts of a legal pair of terms.                                      *)
LEMMA Legal ==
  ASSUME NEW terms \in TermsType, LegalTerms(terms)
  PROVE  /\ terms.ppp \in Nat /\ terms.period \in Nat
         /\ terms.ppp > 0 => terms.ppp \in Nat \ {0} /\ terms.period \in Nat \ {0}
BY DEF TermsType, LegalTerms

(* A larger petty amount costs more, by at least the difference.            *)
LEMMA GrossGrows ==
  ASSUME NEW terms \in TermsType, LegalTerms(terms),
         NEW p \in Nat \ {0}, NEW q \in Nat \ {0}, p <= q
  PROVE  /\ GrossRequired(terms, p) \in Nat
         /\ GrossRequired(terms, q) \in Nat
         /\ GrossRequired(terms, p) + (q - p) <= GrossRequired(terms, q)
<1>1. /\ GrossRequired(terms, p) \in Nat
      /\ GrossRequired(terms, q) \in Nat
  BY Legal, GrossRequiredLemma
<1>2. CASE terms.ppp > 0
  <2>1. /\ Periods(p, terms.period) \in Nat /\ Periods(q, terms.period) \in Nat
        /\ Periods(p, terms.period) <= Periods(q, terms.period)
    BY <1>2, Legal, PeriodsNat, PeriodsMonotone
  <2>2. /\ Periods(p, terms.period) * terms.ppp \in Nat
        /\ Periods(q, terms.period) * terms.ppp \in Nat
        /\ Periods(p, terms.period) * terms.ppp <= Periods(q, terms.period) * terms.ppp
    BY <2>1, Legal, MulMonotone
  <2>3. /\ GrossRequired(terms, p) = p + Periods(p, terms.period) * terms.ppp
        /\ GrossRequired(terms, q) = q + Periods(q, terms.period) * terms.ppp
    BY <1>2 DEF GrossRequired
  <2> QED
    BY <1>1, <2>2, <2>3
<1>3. CASE ~(terms.ppp > 0)
  BY <1>1, <1>3 DEF GrossRequired
<1> QED
  BY <1>2, <1>3

(* A shorter period is begun no less often by the same petty amount.        *)
LEMMA PeriodsShorter ==
  ASSUME NEW petty \in Nat \ {0}, NEW d \in Nat \ {0}, NEW e \in Nat \ {0}, d <= e
  PROVE  Periods(petty, e) <= Periods(petty, d)
<1> DEFINE q == Periods(petty, e) - 1
           r == Periods(petty, d)
<1>1. /\ r \in Nat \ {0} /\ petty <= r * d
  BY PeriodsBounds
<1>2. /\ q + 1 \in Nat \ {0} /\ q \in Nat /\ q * e < petty
  <2>1. Periods(petty, e) \in Nat \ {0} /\ (Periods(petty, e) - 1) * e < petty
    BY PeriodsBounds
  <2> QED
    BY <2>1
<1> HIDE DEF q, r
<1>3. /\ q * d \in Nat /\ q * e \in Nat /\ r * d \in Nat
      /\ q * d <= q * e
  <2>1. d * q <= e * q
    BY <1>2, MulMonotone
  <2>2. d * q = q * d /\ e * q = q * e
    BY <1>2
  <2>3. q * d \in Nat /\ q * e \in Nat /\ r * d \in Nat
    BY <1>1, <1>2, MulMonotone
  <2> QED
    BY <2>1, <2>2, <2>3
<1>4. q * d < r * d
  BY <1>1, <1>2, <1>3
<1>5. q < r
  <2>1. ASSUME r <= q
        PROVE  r * d <= q * d
    BY <1>1, <1>2, <2>1, MulMonotone
  <2> QED
    BY <1>1, <1>2, <1>3, <1>4, <2>1
<1>6. q = Periods(petty, e) - 1 /\ r = Periods(petty, d) /\ Periods(petty, e) \in Nat
  BY PeriodsNat DEF q, r
<1> QED
  BY <1>1, <1>2, <1>5, <1>6

(* Terms that cover others cost at least as much for every petty amount.    *)
LEMMA CoveringCosts ==
  ASSUME NEW in \in TermsType, NEW out \in TermsType,
         LegalTerms(in), LegalTerms(out), Covers(in, out),
         NEW petty \in Nat \ {0}
  PROVE  GrossRequired(in, petty) >= GrossRequired(out, petty)
<1>1. CASE out.ppp > 0
  <2>1. /\ in.ppp \in Nat \ {0} /\ in.period \in Nat \ {0}
        /\ out.ppp \in Nat \ {0} /\ out.period \in Nat \ {0}
        /\ out.ppp <= in.ppp /\ in.period <= out.period
    BY <1>1, Legal DEF Covers, TermsType
  <2>2. PICK m \in Nat, n \in Nat : /\ m = Periods(petty, out.period)
                                    /\ n = Periods(petty, in.period)
                                    /\ m <= n
    BY <2>1, PeriodsNat, PeriodsShorter
  <2>3. m * out.ppp <= n * out.ppp /\ m * out.ppp \in Nat /\ n * out.ppp \in Nat
    BY <2>1, <2>2, MulMonotone
  <2>4. out.ppp * n <= in.ppp * n
    BY <2>1, <2>2, MulMonotone
  <2>5. n * out.ppp = out.ppp * n /\ n * in.ppp = in.ppp * n /\ n * in.ppp \in Nat
    BY <2>1, <2>2, MulMonotone
  <2>6. /\ GrossRequired(out, petty) = petty + m * out.ppp
        /\ GrossRequired(in, petty) = petty + n * in.ppp
    BY <2>1, <2>2 DEF GrossRequired
  <2> QED
    BY <2>3, <2>4, <2>5, <2>6
<1>2. CASE ~(out.ppp > 0)
  <2>1. GrossRequired(out, petty) = petty
    BY <1>2 DEF GrossRequired
  <2>2. GrossRequired(in, petty) >= petty
    BY Legal, GrossRequiredLemma
  <2> QED
    BY <2>1, <2>2
<1> QED
  BY <1>1, <1>2

(* What an exact ledger totals, and what Surcharge's lemmas ask of it.      *)
LEMMA ExactLedger ==
  ASSUME NEW terms \in TermsType, LegalTerms(terms),
         NEW ledger \in LedgerType, Exact(terms, ledger)
  PROVE  /\ LedgerExact(terms, ledger)
         /\ Total(ledger) \in Nat
         /\ ledger.petty \in Nat /\ ledger.surcharge \in Nat
<1>1. ledger.petty \in Nat /\ ledger.surcharge \in Nat
  BY DEF LedgerType
<1>2. ASSUME terms.ppp > 0, ledger.petty > 0
      PROVE  ledger.surcharge = Periods(ledger.petty, terms.period) * terms.ppp
  <2>1. Periods(ledger.petty, terms.period) \in Nat
    BY <1>1, <1>2, Legal, PeriodsNat
  <2>2. Periods(ledger.petty, terms.period) * terms.ppp \in Nat
    BY <2>1, Legal, MulMonotone
  <2> QED
    BY <1>1, <1>2, <2>2 DEF Exact, Total, GrossRequired
<1> QED
  BY <1>1, <1>2 DEF LedgerExact, Exact, Total

(* A payment under exact books: the books stay exact, and the gross amount  *)
(* is the growth of the price.                                              *)
LEMMA Paying ==
  ASSUME NEW terms \in TermsType, LegalTerms(terms),
         NEW paid \in LedgerType, Exact(terms, paid), NEW petty \in Nat \ {0}
  PROVE  LET out   == GrossToPay(terms, paid, petty)
             after == [petty |-> out.petty, surcharge |-> out.surcharge]
         IN  /\ after \in LedgerType
             /\ after.petty = paid.petty + petty
             /\ Exact(terms, after)
             /\ out.gross \in Nat
             /\ Total(after) = GrossRequired(terms, paid.petty + petty)
             /\ out.gross = Total(after) - Total(paid)
<1> DEFINE out   == GrossToPay(terms, paid, petty)
           after == [petty |-> out.petty, surcharge |-> out.surcharge]
<1>1. /\ LedgerExact(terms, paid) /\ Total(paid) \in Nat
      /\ paid.petty \in Nat /\ paid.surcharge \in Nat
  BY ExactLedger
<1>2. /\ after \in LedgerType /\ LedgerExact(terms, after) /\ out.gross \in Nat
      /\ out.gross = (after.petty + after.surcharge) - (paid.petty + paid.surcharge)
      /\ after.petty = paid.petty + petty
  BY <1>1, Legal, GrossToPayLemma DEF LedgerType
<1>3. after.petty \in Nat \ {0} /\ after.surcharge \in Nat
  BY <1>1, <1>2 DEF LedgerType
<1>4. Total(after) = GrossRequired(terms, after.petty)
  <2>1. CASE terms.ppp > 0
    <3>1. after.surcharge = Periods(after.petty, terms.period) * terms.ppp
      BY <1>2, <1>3, <2>1 DEF LedgerExact
    <3> QED
      BY <2>1, <3>1 DEF Total, GrossRequired
  <2>2. CASE ~(terms.ppp > 0)
    <3>1. after.surcharge = paid.surcharge
      BY <2>2 DEF GrossToPay
    <3>2. paid.surcharge = 0
      BY <1>1, <2>2 DEF Exact, Total, GrossRequired
    <3> QED
      BY <1>3, <2>2, <3>1, <3>2 DEF Total, GrossRequired
  <2> QED
    BY <2>1, <2>2
<1>5. Exact(terms, after)
  BY <1>3, <1>4 DEF Exact
<1> QED
  BY <1>2, <1>4, <1>5 DEF Total

-----------------------------------------------------------------------------
(* The shape of the reservations.                                           *)
Reservation == [quoted : BOOLEAN, inbound : TermsType, outbound : TermsType,
                received : LedgerType, paid : LedgerType, remain : Nat]

(* The types of the parts of a reservation.                                 *)
LEMMA Fields ==
  ASSUME TypeOK, NEW i \in Hop
  PROVE  /\ res[i] \in Reservation
         /\ res[i].quoted \in BOOLEAN
         /\ res[i].inbound \in TermsType /\ res[i].outbound \in TermsType
         /\ res[i].received \in LedgerType /\ res[i].paid \in LedgerType
         /\ res[i].paid.petty \in Nat /\ res[i].paid.surcharge \in Nat
         /\ res[i].remain \in Nat
<1>1. res[i] \in Reservation
  BY DEF TypeOK, Reservation
<1>2. res[i].received \in LedgerType /\ res[i].paid \in LedgerType
  BY <1>1 DEF Reservation
<1> QED
  BY <1>1, <1>2 DEF Reservation, LedgerType

(* Hops and the amount are numbers, and a route has a first hop, a last hop *)
(* and a neighbour for every proxy.                                         *)
LEMMA Numbers ==
         /\ 1 \in Hop /\ 2 \in Hop /\ Hops \in Hop
         /\ \A i \in Hop : i \in Nat \ {0} /\ i <= Hops
         /\ \A i \in Proxy : i \in Hop /\ i - 1 \in Hop /\ i # 1
         /\ Hops \in Nat
BY HopsAssumption DEF Hop, Proxy

(* A ledger of nothing is exact at any terms.                               *)
LEMMA NothingExact ==
  ASSUME NEW terms
  PROVE  Exact(terms, Nothing) /\ Nothing \in LedgerType /\ Total(Nothing) = 0
BY DEF Exact, Nothing, LedgerType, Total

(* The terms a proxy quotes, whatever it serves at and has been offered     *)
(* legally.                                                                 *)
LEMMA Quoted ==
  ASSUME NEW serve \in Serves, NEW offer \in TermsType, LegalTerms(offer)
  PROVE  InboundTerms(serve, offer) \in TermsType /\ Covers(InboundTerms(serve, offer), offer)
<1>1. serve.ppp \in Nat /\ serve.period \in Nat /\ LegalTerms(serve)
  BY ServesAssumption
<1>2. offer.ppp \in Nat /\ offer.period \in Nat
  BY DEF TermsType
<1>3. /\ InboundTerms(serve, offer).ppp = serve.ppp + offer.ppp
      /\ InboundTerms(serve, offer).period =
           IF offer.period > 0 /\ offer.period < serve.period
           THEN offer.period ELSE serve.period
      /\ InboundTerms(serve, offer) \in TermsType
  BY <1>1, <1>2 DEF InboundTerms, TermsType
<1>4. /\ serve.ppp + offer.ppp >= offer.ppp
      /\ offer.ppp > 0 => (IF offer.period > 0 /\ offer.period < serve.period
                           THEN offer.period ELSE serve.period) <= offer.period
  BY <1>1, <1>2 DEF LegalTerms
<1> QED
  BY <1>3, <1>4 DEF Covers

(* A hop that quotes legal terms of the hop behind it, whoever serves it,   *)
(* keeps the invariant.                                                     *)
LEMMA Quoting ==
  ASSUME IInv, NEW i \in Hop, ~res[i].quoted,
         \A j \in i .. Hops : j # i => res[j].quoted,
         NEW inbound \in TermsType, NEW outbound \in TermsType, LegalTerms(outbound),
         i + 1 \in Hop => outbound = res[i + 1].inbound,
         i # 1 => Covers(inbound, outbound),
         res' = [res EXCEPT ![i] = NewReservation(inbound, outbound)],
         UNCHANGED <<amt, refused>>
  PROVE  IInv'
<1> USE DEF IInv, StreamInv
<1>0. /\ TypeOK /\ QuoteInv /\ BooksInv /\ NoRefusal
      /\ amt \in 1 .. MaxAmt /\ amt \in Nat \ {0} /\ amt' = amt /\ refused' = refused
  BY MaxAmtAssumption DEF TypeOK
<1>1. PICK new : new = NewReservation(inbound, outbound)
  OBVIOUS
<1>2. /\ new.quoted = TRUE /\ new.inbound = inbound /\ new.outbound = outbound
      /\ new.received = Nothing /\ new.paid = Nothing
      /\ new.remain = GrossRequired(outbound, amt)
  BY <1>1 DEF NewReservation
<1>3. GrossRequired(outbound, amt) \in Nat
  BY <1>0, Legal, GrossRequiredLemma
<1>4. /\ res'[i] = new
      /\ \A j \in Hop : j # i => res'[j] = res[j]
  BY <1>0, <1>1 DEF TypeOK
<1>5. TypeOK'
  <2>1. new \in Reservation
    BY <1>1, <1>3, NothingExact DEF NewReservation, Reservation
  <2> QED
    BY <1>0, <1>1, <2>1 DEF TypeOK, Reservation
<1>6. ~res[1].quoted /\ \A j \in Hop : res[j].paid = Nothing
  <2>1. i \in 1 .. Hops
    BY DEF Hop
  <2>2. ~res[1].quoted
    BY <1>0, <2>1, Numbers DEF QuoteInv
  <2> QED
    BY <1>0, <2>2 DEF BooksInv
<1>7. QuoteInv'
  <2>1. ASSUME NEW j \in Hop, NEW k \in j .. Hops, res'[j].quoted
        PROVE  res'[k].quoted
    <3>1. k \in Hop /\ j \in Nat \ {0} /\ k \in Nat
      BY <2>1, Numbers DEF Hop
    <3>2. CASE k = i
      BY <1>2, <1>4, <3>2
    <3>3. CASE k # i /\ j = i
      BY <1>4, <3>1, <3>3
    <3>4. CASE k # i /\ j # i
      BY <1>0, <1>4, <2>1, <3>1, <3>4 DEF QuoteInv
    <3> QED
      BY <3>2, <3>3, <3>4
  <2>2. ASSUME NEW j \in Hop
        PROVE  LegalTerms(res'[j].outbound)
    BY <1>0, <1>2, <1>4 DEF QuoteInv
  <2>3. ASSUME NEW j \in Proxy, res'[j - 1].quoted
        PROVE  res'[j - 1].outbound = res'[j].inbound
    <3>1. j \in Hop /\ j - 1 \in Hop /\ j \in Nat
      BY <2>3, Numbers
    <3>2. CASE j - 1 = i
      <4>1. j = i + 1 /\ j # i
        BY <3>1, <3>2
      <4> QED
        BY <1>2, <1>4, <3>1, <3>2, <4>1
    <3>3. CASE j = i
      <4>1. j - 1 # i /\ i \in j - 1 .. Hops
        BY <3>1, <3>3, Numbers
      <4>2. ~res[j - 1].quoted
        BY <1>0, <3>1, <4>1 DEF QuoteInv
      <4> QED
        BY <1>4, <2>3, <3>1, <4>1, <4>2
    <3>4. CASE j - 1 # i /\ j # i
      BY <1>0, <1>4, <2>3, <3>1, <3>4 DEF QuoteInv
    <3> QED
      BY <3>2, <3>3, <3>4
  <2>4. ASSUME NEW j \in Proxy, res'[j].quoted
        PROVE  Covers(res'[j].inbound, res'[j].outbound)
    <3>1. j \in Hop /\ j # 1
      BY Numbers
    <3> QED
      BY <1>0, <1>2, <1>4, <2>4, <3>1 DEF QuoteInv
  <2> QED
    BY <2>1, <2>2, <2>3, <2>4 DEF QuoteInv
<1>8. BooksInv'
  <2>1. \A j \in Hop : res'[j].paid = Nothing
    BY <1>2, <1>4, <1>6
  <2>2. \A j \in Hop : Exact(res'[j].outbound, res'[j].paid)
    BY <2>1, NothingExact
  <2>3. ASSUME NEW j \in Hop, res'[j].quoted
        PROVE  res'[j].remain + Total(res'[j].paid) = GrossRequired(res'[j].outbound, amt)
    <3>1. CASE j = i
      BY <1>2, <1>3, <1>4, <2>1, <3>1, NothingExact
    <3>2. CASE j # i
      BY <1>0, <1>4, <2>3, <3>2 DEF BooksInv
    <3> QED
      BY <3>1, <3>2
  <2>4. ASSUME NEW j \in Proxy
        PROVE  res'[j].received = res'[j - 1].paid
    <3>1. j \in Hop /\ j - 1 \in Hop
      BY Numbers
    <3>2. res[j].received = Nothing
      BY <1>0, <1>6, <3>1 DEF BooksInv
    <3> QED
      BY <1>2, <1>4, <2>1, <3>1, <3>2
  <2>5. res'[1].paid.petty <= amt /\ \A j \in Hop : res'[j].paid.petty = res'[1].paid.petty
    BY <1>0, <2>1, Numbers DEF Nothing
  <2> QED
    BY <1>0, <2>1, <2>2, <2>3, <2>4, <2>5 DEF BooksInv
<1>9. NoRefusal'
  BY <1>0 DEF NoRefusal
<1> QED
  BY <1>5, <1>7, <1>8, <1>9

(* While the route is quoted, a hop affords exactly the petty amounts the   *)
(* reservation has left, every hop the same ones.                           *)
LEMMA Affording ==
  ASSUME IInv, NEW i \in Hop, res[i].quoted, NEW petty \in Nat \ {0}
  PROVE  Affords(i, petty) <=> res[1].paid.petty + petty <= amt
<1> DEFINE out   == Payment(i, petty)
           after == [petty |-> out.petty, surcharge |-> out.surcharge]
<1>1. /\ TypeOK /\ QuoteInv /\ BooksInv /\ amt \in Nat \ {0}
  BY MaxAmtAssumption DEF IInv, StreamInv, TypeOK
<1>2. /\ res[i].outbound \in TermsType /\ LegalTerms(res[i].outbound)
      /\ res[i].paid \in LedgerType /\ Exact(res[i].outbound, res[i].paid)
      /\ res[i].paid.petty \in Nat /\ res[i].remain \in Nat
      /\ res[i].paid.petty = res[1].paid.petty
  BY <1>1, Fields DEF QuoteInv, BooksInv
<1>3. Total(res[i].paid) \in Nat
  BY <1>2, ExactLedger
<1>4. /\ out.gross = GrossRequired(res[i].outbound, res[i].paid.petty + petty) - Total(res[i].paid)
      /\ out.gross \in Nat
  <2>1. PICK terms \in TermsType, paid \in LedgerType :
          /\ terms = res[i].outbound /\ paid = res[i].paid
          /\ LegalTerms(terms) /\ Exact(terms, paid)
    BY <1>2
  <2>2. out = GrossToPay(terms, paid, petty)
    BY <2>1 DEF Payment
  <2>3. /\ GrossToPay(terms, paid, petty).gross \in Nat
        /\ GrossToPay(terms, paid, petty).gross =
              Total([petty |-> GrossToPay(terms, paid, petty).petty,
                     surcharge |-> GrossToPay(terms, paid, petty).surcharge]) - Total(paid)
        /\ Total([petty |-> GrossToPay(terms, paid, petty).petty,
                  surcharge |-> GrossToPay(terms, paid, petty).surcharge]) =
              GrossRequired(terms, paid.petty + petty)
    BY <2>1, Paying
  <2> QED
    BY <2>1, <2>2, <2>3
<1>5. PICK paid \in Nat \ {0} : paid = res[i].paid.petty + petty
  BY <1>2
<1>6. PICK cost \in Nat, whole \in Nat :
        /\ cost = GrossRequired(res[i].outbound, paid)
        /\ whole = GrossRequired(res[i].outbound, amt)
        /\ paid <= amt => cost <= whole
        /\ amt < paid => whole < cost
  <2>1. /\ GrossRequired(res[i].outbound, paid) \in Nat
        /\ GrossRequired(res[i].outbound, amt) \in Nat
    BY <1>1, <1>2, GrossGrows
  <2>2. ASSUME paid <= amt
        PROVE  GrossRequired(res[i].outbound, paid) <= GrossRequired(res[i].outbound, amt)
    <3>1. GrossRequired(res[i].outbound, paid) + (amt - paid) <= GrossRequired(res[i].outbound, amt)
      BY <1>1, <1>2, <2>2, GrossGrows
    <3> QED
      BY <1>1, <2>1, <2>2, <3>1
  <2>3. ASSUME amt < paid
        PROVE  GrossRequired(res[i].outbound, amt) < GrossRequired(res[i].outbound, paid)
    <3>1. GrossRequired(res[i].outbound, amt) + (paid - amt) <= GrossRequired(res[i].outbound, paid)
      BY <1>1, <1>2, <2>3, GrossGrows
    <3> QED
      BY <1>1, <2>1, <2>3, <3>1
  <2> QED
    BY <2>1, <2>2, <2>3
<1>7. res[i].remain + Total(res[i].paid) = whole
  BY <1>1, <1>6 DEF BooksInv
<1>8. out.gross = cost - Total(res[i].paid)
  BY <1>4, <1>5, <1>6
<1>9. Affords(i, petty) <=> out.gross <= res[i].remain
  BY DEF Affords
<1> HIDE DEF out
<1>10. Affords(i, petty) <=> cost <= whole
  BY <1>2, <1>3, <1>4, <1>7, <1>8, <1>9
<1>11. paid = res[1].paid.petty + petty
  BY <1>2, <1>5
<1> QED
  BY <1>1, <1>6, <1>10, <1>11

(* What a proxy makes of a payment is what its payer has recorded of it.    *)
LEMMA Matching ==
  ASSUME IInv, NEW i \in Proxy, \A j \in Hop : res[j].quoted, NEW petty \in Nat \ {0}
  PROVE  /\ Receipt(i, petty).now = petty
         /\ Receipt(i, petty).petty = Payment(i - 1, petty).petty
         /\ Receipt(i, petty).surcharge = Payment(i - 1, petty).surcharge
<1>1. /\ TypeOK /\ QuoteInv /\ BooksInv
      /\ i \in Hop /\ i - 1 \in Hop
  BY Numbers DEF IInv, StreamInv
<1>2. PICK terms \in TermsType, paid \in LedgerType :
        /\ terms = res[i - 1].outbound /\ terms = res[i].inbound
        /\ paid = res[i - 1].paid /\ paid = res[i].received
        /\ LegalTerms(terms) /\ Exact(terms, paid)
  <2>1. res[i - 1].outbound \in TermsType /\ res[i - 1].paid \in LedgerType
    BY <1>1, Fields
  <2> QED
    BY <1>1, <2>1 DEF QuoteInv, BooksInv
<1>3. LedgerExact(terms, paid)
  BY <1>2, ExactLedger
<1>4. /\ PettyToReceive(terms, paid, GrossToPay(terms, paid, petty).gross).now = petty
      /\ PettyToReceive(terms, paid, GrossToPay(terms, paid, petty).gross).petty =
           GrossToPay(terms, paid, petty).petty
      /\ PettyToReceive(terms, paid, GrossToPay(terms, paid, petty).gross).surcharge =
           GrossToPay(terms, paid, petty).surcharge
  BY <1>2, <1>3, Legal, PayeeReadsPrice DEF LedgerType
<1>5. /\ Payment(i - 1, petty) = GrossToPay(terms, paid, petty)
      /\ Receipt(i, petty) = PettyToReceive(terms, paid, GrossToPay(terms, paid, petty).gross)
  BY <1>2 DEF Payment, Receipt
<1> QED
  BY <1>4, <1>5

(* A hop after a payment that every hop has passed on.                      *)
LEMMA PaidHop ==
  ASSUME IInv, NEW i \in Hop, \A j \in Hop : res[j].quoted,
         NEW petty \in Nat \ {0}, Affords(i, petty)
  PROVE  LET new == AfterPay(i, petty)
         IN  /\ new \in Reservation
             /\ new.quoted = res[i].quoted
             /\ new.inbound = res[i].inbound /\ new.outbound = res[i].outbound
             /\ new.paid = [petty |-> Payment(i, petty).petty,
                            surcharge |-> Payment(i, petty).surcharge]
             /\ new.paid.petty = res[i].paid.petty + petty
             /\ Exact(new.outbound, new.paid)
             /\ new.remain + Total(new.paid) = GrossRequired(new.outbound, amt)
             /\ i \in Proxy => new.received = [petty |-> Payment(i - 1, petty).petty,
                                               surcharge |-> Payment(i - 1, petty).surcharge]
<1> DEFINE out   == Payment(i, petty)
           after == [petty |-> out.petty, surcharge |-> out.surcharge]
           new   == AfterPay(i, petty)
<1>1. /\ TypeOK /\ QuoteInv /\ BooksInv
      /\ res[i] \in Reservation /\ res[i].paid.petty \in Nat
      /\ res[i].remain \in Nat
  BY Fields DEF IInv, StreamInv
<1>2. PICK terms \in TermsType, paid \in LedgerType :
        /\ terms = res[i].outbound /\ paid = res[i].paid
        /\ LegalTerms(terms) /\ Exact(terms, paid)
        /\ res[i].remain + Total(paid) = GrossRequired(terms, amt)
  <2>1. res[i].outbound \in TermsType /\ res[i].paid \in LedgerType
    BY <1>1, Fields
  <2> QED
    BY <1>1, <2>1 DEF QuoteInv, BooksInv
<1>3. /\ after \in LedgerType /\ after.petty = paid.petty + petty
      /\ Exact(terms, after)
      /\ out.gross \in Nat /\ out.gross = Total(after) - Total(paid)
  <2>1. out = GrossToPay(terms, paid, petty)
    BY <1>2 DEF Payment
  <2>2. /\ [petty |-> GrossToPay(terms, paid, petty).petty,
            surcharge |-> GrossToPay(terms, paid, petty).surcharge] \in LedgerType
        /\ GrossToPay(terms, paid, petty).petty = paid.petty + petty
        /\ Exact(terms, [petty |-> GrossToPay(terms, paid, petty).petty,
                         surcharge |-> GrossToPay(terms, paid, petty).surcharge])
        /\ GrossToPay(terms, paid, petty).gross \in Nat
        /\ GrossToPay(terms, paid, petty).gross =
             Total([petty |-> GrossToPay(terms, paid, petty).petty,
                    surcharge |-> GrossToPay(terms, paid, petty).surcharge]) - Total(paid)
    BY <1>2, Paying
  <2> QED
    BY <2>1, <2>2
<1>4. Total(after) \in Nat /\ Total(paid) \in Nat
  BY <1>2, <1>3, ExactLedger
<1>5. PICK received \in LedgerType :
        /\ received = new.received
        /\ i \in Proxy => received = [petty |-> Payment(i - 1, petty).petty,
                                      surcharge |-> Payment(i - 1, petty).surcharge]
  <2>1. CASE i = 1
    <3>1. res[i].received \in LedgerType /\ i \notin Proxy
      BY <1>1, <2>1, Fields, Numbers
    <3>2. new.received = res[i].received
      BY <1>1, <2>1 DEF AfterPay, Reservation
    <3> QED
      BY <3>1, <3>2
  <2>2. CASE i # 1
    <3>1. i \in Proxy /\ i - 1 \in Hop
      BY <2>2, Numbers DEF Hop, Proxy
    <3>2. /\ Receipt(i, petty).petty = Payment(i - 1, petty).petty
          /\ Receipt(i, petty).surcharge = Payment(i - 1, petty).surcharge
      BY <3>1, Matching
    <3>3. new.received = [petty |-> Receipt(i, petty).petty,
                          surcharge |-> Receipt(i, petty).surcharge]
      BY <1>1, <2>2 DEF AfterPay, Reservation
    <3>4. [petty |-> Payment(i - 1, petty).petty,
           surcharge |-> Payment(i - 1, petty).surcharge] \in LedgerType
      <4>1. PICK t \in TermsType, p \in LedgerType :
              /\ t = res[i - 1].outbound /\ p = res[i - 1].paid
              /\ LegalTerms(t) /\ Exact(t, p)
        <5>1. res[i - 1].outbound \in TermsType /\ res[i - 1].paid \in LedgerType
          BY <1>1, <3>1, Fields
        <5> QED
          BY <1>1, <3>1, <5>1 DEF QuoteInv, BooksInv
      <4>2. [petty |-> GrossToPay(t, p, petty).petty,
             surcharge |-> GrossToPay(t, p, petty).surcharge] \in LedgerType
        BY <4>1, Paying
      <4> QED
        BY <4>1, <4>2 DEF Payment
    <3> QED
      BY <3>1, <3>2, <3>3, <3>4
  <2> QED
    BY <2>1, <2>2
<1>6. /\ new.quoted = res[i].quoted
      /\ new.inbound = res[i].inbound /\ new.outbound = terms
      /\ new.paid = after
      /\ new.remain = res[i].remain - out.gross
  BY <1>1, <1>2 DEF AfterPay, Reservation
<1>7. out.gross <= res[i].remain
  BY DEF Affords
<1>8. new.remain \in Nat /\ new.remain + Total(after) = GrossRequired(terms, amt)
  <2> HIDE DEF out, after, new
  <2> QED
    BY <1>1, <1>2, <1>3, <1>4, <1>6, <1>7
<1>9. new \in Reservation
  <2>1. PICK r \in Reservation : r = res[i]
    BY <1>1
  <2>2. new = [r EXCEPT !.received = received, !.paid = after, !.remain = new.remain]
    <3>1. new = [res[i] EXCEPT !.received = new.received, !.paid = after,
                               !.remain = res[i].remain - out.gross]
      BY <1>1 DEF AfterPay, Reservation
    <3> QED
      BY <1>5, <1>6, <2>1, <3>1
  <2> HIDE DEF after, new
  <2> QED
    BY <1>3, <1>5, <1>8, <2>1, <2>2 DEF Reservation
<1> HIDE DEF out, after, new
<1>10. new.paid.petty = res[i].paid.petty + petty
  BY <1>2, <1>3, <1>6
<1>11. /\ Exact(new.outbound, new.paid)
       /\ new.remain + Total(new.paid) = GrossRequired(new.outbound, amt)
       /\ new.outbound = res[i].outbound
  BY <1>2, <1>3, <1>6, <1>8
<1>12. new.paid = [petty |-> out.petty, surcharge |-> out.surcharge]
  BY <1>6 DEF after
<1> QED
  BY <1>5, <1>6, <1>9, <1>10, <1>11, <1>12 DEF new, out

(* A payment of the source that its reservation covers: every hop passes it *)
(* on, and the invariant is kept.                                           *)
LEMMA PayStep ==
  ASSUME IInv, NEW petty \in 1 .. MaxAmt, Pay(petty)
  PROVE  IInv'
<1>0. /\ TypeOK /\ QuoteInv /\ BooksInv /\ NoRefusal
      /\ amt \in Nat \ {0} /\ petty \in Nat \ {0} /\ amt' = amt
      /\ \A i \in Hop : res[i].quoted
      /\ Affords(1, petty)
  BY MaxAmtAssumption DEF IInv, StreamInv, TypeOK, Pay
<1>1. res[1].paid.petty + petty <= amt
  BY <1>0, Affording, Numbers
<1>2. \A i \in Hop : Affords(i, petty)
  BY <1>0, <1>1, Affording
<1>3. \A i \in Hop : Matches(i, petty)
  <2>1. ASSUME NEW i \in Hop, i # 1
        PROVE  Receipt(i, petty).now = petty
    <3>1. i \in Proxy
      BY <2>1 DEF Hop, Proxy
    <3> QED
      BY <1>0, <3>1, Matching
  <2> QED
    BY <2>1 DEF Matches
<1>4. /\ res' = [i \in Hop |-> AfterPay(i, petty)]
      /\ refused' = refused
  BY <1>2, <1>3 DEF Pay
<1>5. ASSUME NEW i \in Hop
      PROVE  /\ res'[i] \in Reservation
             /\ res'[i].quoted = res[i].quoted
             /\ res'[i].inbound = res[i].inbound /\ res'[i].outbound = res[i].outbound
             /\ res'[i].paid = [petty |-> Payment(i, petty).petty,
                                surcharge |-> Payment(i, petty).surcharge]
             /\ res'[i].paid.petty = res[i].paid.petty + petty
             /\ Exact(res'[i].outbound, res'[i].paid)
             /\ res'[i].remain + Total(res'[i].paid) = GrossRequired(res'[i].outbound, amt)
             /\ i \in Proxy => res'[i].received = [petty |-> Payment(i - 1, petty).petty,
                                                   surcharge |-> Payment(i - 1, petty).surcharge]
  <2>1. res'[i] = AfterPay(i, petty)
    BY <1>4
  <2> QED
    BY <1>0, <1>2, <2>1, PaidHop
<1>6. TypeOK'
  <2>1. res' \in [Hop -> Reservation]
    BY <1>4, <1>5
  <2> QED
    BY <1>0, <1>4, <2>1 DEF TypeOK, Reservation
<1>7. QuoteInv'
  <2>1. \A i \in Hop : res'[i].quoted
    BY <1>0, <1>5
  <2>2. \A i \in Hop : \A j \in i .. Hops : j \in Hop
    BY Numbers DEF Hop
  <2>3. \A i \in Hop : LegalTerms(res'[i].outbound)
    BY <1>0, <1>5 DEF QuoteInv
  <2>4. ASSUME NEW i \in Proxy
        PROVE  /\ res'[i - 1].outbound = res'[i].inbound
               /\ Covers(res'[i].inbound, res'[i].outbound)
    <3>1. i \in Hop /\ i - 1 \in Hop
      BY Numbers
    <3>2. /\ res[i - 1].outbound = res[i].inbound
          /\ Covers(res[i].inbound, res[i].outbound)
      BY <1>0, <3>1 DEF QuoteInv
    <3> QED
      BY <1>5, <3>1, <3>2
  <2> QED
    BY <2>1, <2>2, <2>3, <2>4 DEF QuoteInv
<1>8. BooksInv'
  <2>1. 1 \in Hop
    BY Numbers
  <2>2. ASSUME NEW i \in Hop
        PROVE  res'[i].paid.petty = res'[1].paid.petty
    <3>1. res[i].paid.petty = res[1].paid.petty
      BY <1>0 DEF BooksInv
    <3>2. /\ res'[i].paid.petty = res[i].paid.petty + petty
          /\ res'[1].paid.petty = res[1].paid.petty + petty
      BY <1>5, <2>1
    <3> QED
      BY <3>1, <3>2
  <2>3. res'[1].quoted
    BY <1>0, <1>5, <2>1
  <2>4. ASSUME NEW i \in Proxy
        PROVE  res'[i].received = res'[i - 1].paid
    <3>1. i \in Hop /\ i - 1 \in Hop
      BY Numbers
    <3> QED
      BY <1>5, <3>1
  <2>5. res'[1].paid.petty <= amt
    BY <1>1, <1>5, <2>1
  <2> QED
    BY <1>0, <1>5, <2>2, <2>3, <2>4, <2>5 DEF BooksInv
<1>9. NoRefusal'
  BY <1>0, <1>4 DEF NoRefusal
<1> QED
  BY <1>6, <1>7, <1>8, <1>9 DEF IInv, StreamInv

(* Before anything is quoted there is nothing to agree about.               *)
LEMMA StreamStart == Init => IInv
<1> SUFFICES ASSUME Init
             PROVE  IInv
  OBVIOUS
<1>1. /\ amt \in 1 .. MaxAmt /\ amt \in Nat \ {0} /\ refused = FALSE
      /\ res = [i \in Hop |-> Unquoted]
      /\ \A i \in Hop : res[i] = Unquoted
  BY MaxAmtAssumption DEF Init
<1>2. /\ Unquoted \in Reservation
      /\ Unquoted.quoted = FALSE /\ Unquoted.outbound = Free
      /\ Unquoted.received = Nothing /\ Unquoted.paid = Nothing
  <2>1. Free \in TermsType
    BY DEF Free, TermsType
  <2> QED
    BY <2>1, NothingExact DEF Unquoted, Reservation
<1>3. TypeOK
  BY <1>1, <1>2 DEF TypeOK, Reservation
<1>4. QuoteInv
  <2>1. LegalTerms(Free)
    BY DEF LegalTerms, Free
  <2> QED
    BY <1>1, <1>2, <2>1, Numbers DEF QuoteInv
<1>5. BooksInv
  <2>1. \A i \in Proxy : res[i].received = res[i - 1].paid
    BY <1>1, <1>2, Numbers
  <2>2. Nothing.petty = 0
    BY DEF Nothing
  <2> QED
    BY <1>1, <1>2, <2>1, <2>2, Numbers, NothingExact DEF BooksInv
<1> QED
  BY <1>1, <1>3, <1>4, <1>5 DEF IInv, StreamInv, NoRefusal

(* Every step keeps the invariant.                                          *)
LEMMA StreamStep == IInv /\ [Next]_vars => IInv'
<1> SUFFICES ASSUME IInv, [Next]_vars
             PROVE  IInv'
  OBVIOUS
<1>0. /\ \A i \in Hop : LegalTerms(res[i].outbound)
      /\ \A i \in Hop : \A j \in i .. Hops : res[i].quoted => res[j].quoted
  BY DEF IInv, StreamInv, QuoteInv
<1>1. ASSUME NEW s \in Serves, ReserveFinal(s)
      PROVE  IInv'
  <2>1. /\ Free \in TermsType /\ LegalTerms(Free)
    BY DEF Free, TermsType, LegalTerms
  <2>2. Hops + 1 \notin Hop /\ \A j \in Hops .. Hops : j = Hops
    BY HopsAssumption DEF Hop
  <2>3. /\ InboundTerms(s, Free) \in TermsType
        /\ Covers(InboundTerms(s, Free), Free)
    BY <2>1, Quoted
  <2>4. /\ ~res[Hops].quoted /\ UNCHANGED <<amt, refused>>
        /\ res' = [res EXCEPT ![Hops] = NewReservation(InboundTerms(s, Free), Free)]
    BY <1>1 DEF ReserveFinal
  <2>5. Hops \in Hop
    BY Numbers
  <2> QED
    BY <2>1, <2>2, <2>3, <2>4, <2>5, Quoting
<1>2. ASSUME NEW i \in 2 .. Hops - 1, NEW s \in Serves, ReserveIntermediate(i, s)
      PROVE  IInv'
  <2>1. /\ i \in Hop /\ i + 1 \in Hop
        /\ \A j \in i .. Hops : j # i => j \in i + 1 .. Hops
    BY HopsAssumption DEF Hop
  <2>2. PICK offer \in TermsType : offer = res[i + 1].inbound
    BY <2>1, Fields DEF IInv
  <2>3. /\ ~res[i].quoted /\ res[i + 1].quoted /\ LegalTerms(offer)
        /\ res' = [res EXCEPT ![i] = NewReservation(InboundTerms(s, offer), offer)]
        /\ UNCHANGED <<amt, refused>>
    BY <1>2, <2>2 DEF ReserveIntermediate
  <2>4. \A j \in i .. Hops : j # i => res[j].quoted
    BY <1>0, <2>1, <2>3
  <2>5. /\ InboundTerms(s, offer) \in TermsType
        /\ Covers(InboundTerms(s, offer), offer)
    BY <2>3, Quoted
  <2> QED
    BY <2>1, <2>2, <2>3, <2>4, <2>5, Quoting
<1>3. CASE ReserveSelf
  <2>1. /\ 1 \in Hop /\ 2 \in Hop /\ 1 + 1 = 2
        /\ \A j \in 1 .. Hops : j # 1 => j \in 2 .. Hops
    BY HopsAssumption DEF Hop
  <2>2. PICK offer \in TermsType : offer = res[2].inbound
    BY <2>1, Fields DEF IInv
  <2>3. /\ ~res[1].quoted /\ res[2].quoted /\ LegalTerms(offer)
        /\ res' = [res EXCEPT ![1] = NewReservation(Free, offer)]
        /\ UNCHANGED <<amt, refused>>
    BY <1>3, <2>2 DEF ReserveSelf
  <2>4. \A j \in 1 .. Hops : j # 1 => res[j].quoted
    BY <1>0, <2>1, <2>3
  <2>5. Free \in TermsType
    BY DEF Free, TermsType
  <2> QED
    BY <2>1, <2>2, <2>3, <2>4, <2>5, Quoting
<1>4. ASSUME NEW p \in 1 .. MaxAmt, Pay(p)
      PROVE  IInv'
  BY <1>4, PayStep
<1>5. CASE UNCHANGED vars
  BY <1>5 DEF vars, IInv, StreamInv, TypeOK, QuoteInv, BooksInv, NoRefusal, Exact, Total
<1> QED
  BY <1>1, <1>2, <1>3, <1>4, <1>5 DEF Next

-----------------------------------------------------------------------------
(* Along every stream: the hops are quoted from the last one backwards, and *)
(* their books show the same petty amount, each at its own price.           *)
THEOREM StreamInvariant == Spec => []IInv
<1>1. Init => IInv
  BY StreamStart
<1>2. IInv /\ [Next]_vars => IInv'
  BY StreamStep
<1> QED
  BY <1>1, <1>2, PTL DEF Spec

(* The two ends of a hop agree on what was bought.                          *)
THEOREM AgreementHolds == Spec => []Agreement
<1>1. IInv => Agreement
  BY DEF IInv, StreamInv, BooksInv, Agreement
<1> QED
  BY <1>1, StreamInvariant, PTL

(* No proxy refuses a payment its payer can afford.                         *)
THEOREM NoRefusalHolds == Spec => []NoRefusal
<1>1. IInv => NoRefusal
  BY DEF IInv, StreamInv
<1> QED
  BY <1>1, StreamInvariant, PTL

(* A reservation costs the same however it is split.                        *)
THEOREM SplitInvariantHolds == Spec => []SplitInvariant
<1>1. IInv => SplitInvariant
  BY DEF IInv, StreamInv, BooksInv, SplitInvariant, Exact
<1> QED
  BY <1>1, StreamInvariant, PTL

(* A proxy has received at least what it has paid on.                       *)
THEOREM NoProxyLossHolds == Spec => []NoProxyLoss
<1>1. IInv => NoProxyLoss
  <2> SUFFICES ASSUME IInv, NEW i \in Proxy
               PROVE  Total(res[i].received) >= Total(res[i].paid)
    BY DEF NoProxyLoss
  <2>1. /\ TypeOK /\ QuoteInv /\ BooksInv
        /\ 1 \in Hop /\ i \in Hop /\ i - 1 \in Hop /\ i - 1 \in 1 .. Hops
        /\ i \in i - 1 .. Hops
    <3>1. /\ i - 1 \in 1 .. Hops /\ i \in i - 1 .. Hops
      BY HopsAssumption DEF Proxy
    <3> QED
      BY <3>1, Numbers DEF IInv, StreamInv
  <2>2. /\ res[i].received = res[i - 1].paid
        /\ res[i].paid.petty = res[i - 1].paid.petty
    BY <2>1 DEF BooksInv
  <2>3. /\ res[i].paid \in LedgerType /\ res[i - 1].paid \in LedgerType
        /\ res[i].outbound \in TermsType /\ res[i - 1].outbound \in TermsType
        /\ res[i].paid.petty \in Nat
    BY <2>1, Fields
  <2>4. CASE res[i].paid.petty = 0
    <3>1. res[i].paid.surcharge = 0 /\ res[i - 1].paid.surcharge = 0
      BY <2>1, <2>2, <2>4 DEF BooksInv, Exact
    <3> QED
      BY <2>2, <2>4, <3>1 DEF Total
  <2>5. CASE res[i].paid.petty # 0
    <3>1. res[1].quoted
      BY <2>1, <2>5 DEF BooksInv, Nothing
    <3>2. res[i - 1].quoted /\ res[i].quoted
      BY <2>1, <3>1 DEF QuoteInv
    <3>3. PICK inn \in TermsType, out \in TermsType, petty \in Nat \ {0} :
            /\ inn = res[i - 1].outbound /\ out = res[i].outbound
            /\ petty = res[i].paid.petty
            /\ LegalTerms(inn) /\ LegalTerms(out) /\ Covers(inn, out)
      BY <2>1, <2>3, <2>5, <3>2 DEF QuoteInv
    <3>4. GrossRequired(inn, petty) >= GrossRequired(out, petty)
      BY <3>3, CoveringCosts
    <3>5. /\ Total(res[i].paid) = GrossRequired(out, petty)
          /\ Total(res[i - 1].paid) = GrossRequired(inn, petty)
      BY <2>1, <2>2, <3>3 DEF BooksInv, Exact
    <3> QED
      BY <2>2, <3>4, <3>5
  <2> QED
    BY <2>4, <2>5
<1> QED
  BY <1>1, StreamInvariant, PTL

(* All the reservations of a route are used up by the same payment.         *)
THEOREM CompleteTogetherHolds == Spec => []CompleteTogether
<1>1. IInv => CompleteTogether
  <2> SUFFICES ASSUME IInv, \A i \in Hop : res[i].quoted, NEW i \in Hop
               PROVE  res[i].remain = 0 <=> res[1].paid.petty = amt
    BY DEF CompleteTogether
  <2>1. /\ TypeOK /\ QuoteInv /\ BooksInv /\ amt \in Nat \ {0} /\ 1 \in Hop
    BY MaxAmtAssumption, Numbers DEF IInv, StreamInv, TypeOK
  <2>2. PICK terms \in TermsType, paid \in LedgerType :
          /\ terms = res[i].outbound /\ paid = res[i].paid
          /\ LegalTerms(terms) /\ Exact(terms, paid)
          /\ res[i].remain + Total(paid) = GrossRequired(terms, amt)
    <3>1. res[i].outbound \in TermsType /\ res[i].paid \in LedgerType
      BY <2>1, Fields
    <3> QED
      BY <2>1, <3>1 DEF QuoteInv, BooksInv
  <2>3. /\ paid.petty = res[1].paid.petty /\ paid.petty <= amt
        /\ paid.petty \in Nat /\ paid.surcharge \in Nat
        /\ Total(paid) \in Nat /\ res[i].remain \in Nat
    BY <2>1, <2>2, ExactLedger, Fields DEF BooksInv
  <2>4. GrossRequired(terms, amt) \in Nat /\ GrossRequired(terms, amt) >= amt
    BY <2>1, <2>2, Legal, GrossRequiredLemma
  <2>5. CASE paid.petty = amt
    BY <2>1, <2>2, <2>3, <2>4, <2>5 DEF Exact
  <2>6. CASE paid.petty = 0
    BY <2>1, <2>2, <2>3, <2>4, <2>6 DEF Exact, Total
  <2>7. CASE paid.petty > 0 /\ paid.petty < amt
    <3>1. /\ GrossRequired(terms, paid.petty) \in Nat
          /\ GrossRequired(terms, paid.petty) + (amt - paid.petty) <= GrossRequired(terms, amt)
      BY <2>1, <2>2, <2>3, <2>7, GrossGrows
    <3>2. Total(paid) = GrossRequired(terms, paid.petty)
      BY <2>2, <2>7 DEF Exact
    <3> QED
      BY <2>1, <2>2, <2>3, <2>4, <2>7, <3>1, <3>2
  <2> QED
    BY <2>1, <2>3, <2>5, <2>6, <2>7
<1> QED
  BY <1>1, StreamInvariant, PTL
=============================================================================
