--------------------------- MODULE SurchargeProofs ---------------------------
(***************************************************************************)
(* What the surcharge arithmetic guarantees for all terms and amounts.     *)
(***************************************************************************)
EXTENDS Surcharge, TLAPS

(* Division of naturals, with its remainder.                                *)
LEMMA DivNat ==
  ASSUME NEW a \in Nat, NEW d \in Nat \ {0}
  PROVE  /\ a \div d \in Nat
         /\ a = d * (a \div d) + (a % d)
         /\ a % d \in 0 .. d - 1
BY SMT

(* Division by the same period is monotone.                                 *)
LEMMA DivMonotone ==
  ASSUME NEW a \in Nat, NEW b \in Nat, NEW d \in Nat \ {0}, a <= b
  PROVE  a \div d <= b \div d
BY SMT

(* Multiplication by the same price is monotone.                            *)
LEMMA MulMonotone ==
  ASSUME NEW a \in Nat, NEW b \in Nat, NEW d \in Nat, a <= b
  PROVE  /\ a * d \in Nat
         /\ a * d <= b * d
BY SMT

(* A positive petty amount begins at least one period.                      *)
LEMMA PeriodsNat ==
  ASSUME NEW petty \in Nat \ {0}, NEW period \in Nat \ {0}
  PROVE  Periods(petty, period) \in Nat \ {0}
<1>1. petty - 1 \in Nat
  OBVIOUS
<1>2. (petty - 1) \div period \in Nat
  BY <1>1, DivNat
<1> QED
  BY <1>2 DEF Periods

(* A larger petty amount begins no fewer periods.                           *)
LEMMA PeriodsMonotone ==
  ASSUME NEW p \in Nat \ {0}, NEW q \in Nat \ {0}, NEW period \in Nat \ {0}, p <= q
  PROVE  Periods(p, period) <= Periods(q, period)
<1>1. /\ p - 1 \in Nat /\ q - 1 \in Nat /\ p - 1 <= q - 1
  OBVIOUS
<1>2. (p - 1) \div period <= (q - 1) \div period
  BY <1>1, DivMonotone
<1>3. (p - 1) \div period \in Nat /\ (q - 1) \div period \in Nat
  BY <1>1, DivNat
<1> QED
  BY <1>2, <1>3 DEF Periods

(* What Reserve sets aside is at least the petty amount it is asked for.    *)
LEMMA GrossRequiredLemma ==
  ASSUME NEW terms, terms.ppp \in Nat, terms.period \in Nat, LegalTerms(terms),
         NEW petty \in Nat \ {0}
  PROVE  /\ GrossRequired(terms, petty) \in Nat
         /\ GrossRequired(terms, petty) >= petty
<1>1. CASE terms.ppp > 0
  <2>1. terms.period \in Nat \ {0}
    BY <1>1 DEF LegalTerms
  <2>2. Periods(petty, terms.period) \in Nat
    BY <2>1, PeriodsNat
  <2>3. Periods(petty, terms.period) * terms.ppp \in Nat
    BY <2>2, MulMonotone
  <2> QED
    BY <1>1, <2>3 DEF GrossRequired
<1>2. CASE ~(terms.ppp > 0)
  BY <1>2 DEF GrossRequired
<1> QED
  BY <1>1, <1>2

(* What a payment is priced at: the ledger stays exact, the price is the    *)
(* growth of the ledger, and it is never less than the petty amount.        *)
LEMMA GrossToPayLemma ==
  ASSUME NEW terms, terms.ppp \in Nat, terms.period \in Nat, LegalTerms(terms),
         NEW paid \in [petty : Nat, surcharge : Nat], LedgerExact(terms, paid),
         NEW petty \in Nat \ {0}
  PROVE  LET price == GrossToPay(terms, paid, petty)
             after == [petty |-> price.petty, surcharge |-> price.surcharge]
         IN  /\ after \in [petty : Nat, surcharge : Nat]
             /\ LedgerExact(terms, after)
             /\ price.gross \in Nat
             /\ price.gross >= petty
             /\ price.gross = (after.petty + after.surcharge) - (paid.petty + paid.surcharge)
             /\ after.petty = paid.petty + petty
<1> DEFINE price == GrossToPay(terms, paid, petty)
           expected == paid.petty + petty
<1>0. paid.petty \in Nat /\ paid.surcharge \in Nat /\ expected \in Nat \ {0}
  OBVIOUS
<1>1. CASE terms.ppp > 0
  <2> DEFINE surcharge == Periods(expected, terms.period) * terms.ppp
  <2>1. terms.period \in Nat \ {0}
    BY <1>1 DEF LegalTerms
  <2>2. Periods(expected, terms.period) \in Nat
    BY <1>0, <2>1, PeriodsNat
  <2>3. surcharge \in Nat
    BY <2>2, MulMonotone
  <2>4. surcharge >= paid.surcharge
    <3>1. CASE paid.petty = 0
      BY <1>0, <1>1, <2>3, <3>1 DEF LedgerExact
    <3>2. CASE paid.petty # 0
      <4>1. paid.petty \in Nat \ {0} /\ paid.petty <= expected
        BY <1>0, <3>2
      <4>2. Periods(paid.petty, terms.period) <= Periods(expected, terms.period)
        BY <1>0, <2>1, <4>1, PeriodsMonotone
      <4>3. Periods(paid.petty, terms.period) \in Nat
        BY <2>1, <4>1, PeriodsNat
      <4>4. Periods(paid.petty, terms.period) * terms.ppp <= surcharge
        BY <2>2, <4>2, <4>3, MulMonotone
      <4>5. paid.surcharge = Periods(paid.petty, terms.period) * terms.ppp
        BY <1>1, <3>2 DEF LedgerExact
      <4> QED
        BY <4>4, <4>5
    <3> QED
      BY <3>1, <3>2
  <2>5. price = [petty |-> expected, surcharge |-> surcharge,
                 gross |-> (expected + surcharge) - (paid.petty + paid.surcharge)]
    BY <1>1 DEF GrossToPay
  <2> HIDE DEF surcharge
  <2>6. /\ price.petty = expected
        /\ price.surcharge = surcharge
        /\ price.gross = (expected + surcharge) - (paid.petty + paid.surcharge)
    BY <2>5
  <2>7. LedgerExact(terms, [petty |-> price.petty, surcharge |-> price.surcharge])
    BY <1>0, <2>6 DEF LedgerExact, surcharge
  <2> HIDE DEF price
  <2> QED
    BY <1>0, <2>3, <2>4, <2>6, <2>7 DEF price
<1>2. CASE ~(terms.ppp > 0)
  BY <1>0, <1>2 DEF GrossToPay, LedgerExact
<1> QED
  BY <1>1, <1>2
(* A quotient and a remainder are the only ones.                            *)
LEMMA DivUnique ==
  ASSUME NEW a \in Nat, NEW d \in Nat \ {0}, NEW q \in Nat, NEW r \in 0 .. d - 1,
         a = q * d + r
  PROVE  a \div d = q /\ a % d = r
<1>1. /\ a \div d \in Nat /\ a % d \in 0 .. d - 1
      /\ a = d * (a \div d) + (a % d)
  BY DivNat
<1>2. ASSUME NEW x \in Nat, NEW y \in Nat, x < y
      PROVE  d * x + d <= d * y
  BY <1>2, SMT
<1>3. d * q = q * d
  BY SMT
<1>4. d * q \in Nat /\ d * (a \div d) \in Nat
  BY <1>1, SMT
<1>5. a \div d = q
  <2>1. CASE a \div d < q
    <3>1. d * (a \div d) + d <= d * q
      BY <1>1, <1>2, <2>1
    <3> QED
      BY <1>1, <1>3, <1>4, <3>1
  <2>2. CASE q < a \div d
    <3>1. d * q + d <= d * (a \div d)
      BY <1>1, <1>2, <2>2
    <3> QED
      BY <1>1, <1>3, <1>4, <3>1
  <2> QED
    BY <1>1, <2>1, <2>2
<1> QED
  BY <1>1, <1>3, <1>4, <1>5

(* An amount is within the periods it begins, and beyond all but the last.  *)
LEMMA PeriodsBounds ==
  ASSUME NEW petty \in Nat \ {0}, NEW period \in Nat \ {0}
  PROVE  LET k == Periods(petty, period)
         IN  /\ k \in Nat \ {0}
             /\ (k - 1) * period < petty
             /\ petty <= k * period
<1> DEFINE q == (petty - 1) \div period
<1>1. /\ q \in Nat /\ petty - 1 = period * q + ((petty - 1) % period)
      /\ (petty - 1) % period \in 0 .. period - 1
  <2>1. petty - 1 \in Nat
    OBVIOUS
  <2> QED
    BY <2>1, DivNat
<1>2. Periods(petty, period) = q + 1
  BY DEF Periods
<1> HIDE DEF q
<1>3. (q + 1) * period = q * period + period /\ period * q = q * period /\ q * period \in Nat
  BY <1>1, SMT
<1>4. (q + 1) - 1 = q
  BY <1>1
<1> QED
  BY <1>1, <1>2, <1>3, <1>4

(* A multiple of a price has bought exactly that many periods.              *)
LEMMA PeriodsOfMultiple ==
  ASSUME NEW k \in Nat \ {0}, NEW ppp \in Nat \ {0}
  PROVE  /\ k * ppp \in Nat \ {0}
         /\ Periods(k * ppp, ppp) = k
         /\ (k * ppp) \div ppp = k
<1>1. k * ppp \in Nat \ {0}
  BY SMT
<1>2. (k * ppp) \div ppp = k
  BY <1>1, DivUnique
<1>3. k * ppp - 1 = (k - 1) * ppp + (ppp - 1)
  BY SMT
<1>4. (k * ppp - 1) \div ppp = k - 1
  BY <1>1, <1>3, DivUnique
<1> QED
  BY <1>1, <1>2, <1>4 DEF Periods
(* What is left of a price once the current period is paid for.             *)
Rest(P, D, left, g1) ==
    LET p2 == IF g1 > 0 THEN Lesser(left, g1) ELSE 0
        g2 == g1 - p2
        n  == g2 \div (D + P)
        g3 == g2 % (D + P)
        s4 == Lesser(P, g3)
        p4 == g3 - s4
    IN  [now |-> p2 + n * D + p4, periods |-> n, last |-> s4]

(* An amount a is within period K, and with petty more within period M.     *)
WithinPeriods(D, K, M, a, petty) ==
    K <= M /\ a <= K * D /\ (M - 1) * D < a + petty /\ a + petty <= M * D

(* What is left of the price then is petty and the periods after K.         *)
RestIsExact(P, D, K, M, a, petty) ==
    LET rest == Rest(P, D, K * D - a, petty + M * P - K * P)
    IN  /\ rest.now = petty
        /\ rest.periods * P + rest.last = M * P - K * P
        /\ rest.periods \in Int /\ rest.last \in Int

(* It splits into the petty amount left in the period, whole periods, and a *)
(* last one.                                                                *)
LEMMA RestSplits ==
  ASSUME NEW P \in Nat \ {0}, NEW D \in Nat \ {0}, NEW K \in Nat \ {0}, NEW M \in Nat \ {0},
         NEW a \in Nat, NEW petty \in Nat \ {0},
         WithinPeriods(D, K, M, a, petty)
  PROVE  RestIsExact(P, D, K, M, a, petty)
<1> USE DEF WithinPeriods
<1> DEFINE left == K * D - a
           g1   == petty + M * P - K * P
           p2   == IF g1 > 0 THEN Lesser(left, g1) ELSE 0
           g2   == g1 - p2
           n    == g2 \div (D + P)
           g3   == g2 % (D + P)
           s4   == Lesser(P, g3)
           p4   == g3 - s4
<1>1. /\ K * P \in Nat /\ M * P \in Nat /\ K * D \in Nat /\ M * D \in Nat
      /\ (M - 1) * D = M * D - D /\ (K - 1) * P = K * P - P
  BY SMT
<1>2. K * P <= M * P /\ K * D <= M * D
  BY MulMonotone
<1>3. left \in Nat /\ g1 \in Nat \ {0}
  BY <1>1, <1>2
<1>4. CASE M = K
  <2>1. g1 = petty /\ petty <= left
    BY <1>1, <1>4
  <2>2. p2 = petty /\ g2 = 0
    BY <1>3, <2>1 DEF Lesser
  <2>3. n = 0 /\ g3 = 0
    <3> HIDE DEF g2
    <3>1. D + P \in Nat \ {0} /\ 0 \in 0 .. (D + P) - 1 /\ 0 = 0 * (D + P) + 0
      OBVIOUS
    <3>2. 0 \div (D + P) = 0 /\ 0 % (D + P) = 0
      BY <3>1, DivUnique
    <3> QED
      BY <2>2, <3>2
  <2>4. s4 = 0 /\ p4 = 0
    BY <2>3 DEF Lesser
  <2>5. n * D = 0 /\ n * P = 0
    BY <2>3
  <2>6. p2 + n * D + p4 = petty /\ n * P + s4 = M * P - K * P
    <3> HIDE DEF p2, n, s4, p4
    <3> QED
      BY <1>1, <1>4, <2>2, <2>4, <2>5
  <2> QED
    BY <2>3, <2>4, <2>6 DEF Rest, RestIsExact
<1>5. CASE M # K
  <2> DEFINE m == M - 1 - K
             r == a + petty - (M - 1) * D
  <2>1. m \in Nat /\ r \in 1 .. D
    BY <1>1, <1>5
  <2>2. /\ m * D = M * D - D - K * D /\ m * P = M * P - P - K * P
        /\ m * (D + P) = m * D + m * P
        /\ (m + 1) * (D + P) = m * D + m * P + D + P
        /\ m * D \in Nat /\ m * P \in Nat
        /\ (m + 1) * D = m * D + D /\ (m + 1) * P = m * P + P
    BY <2>1, SMT
  <2> HIDE DEF m
  <2>3. left <= g1
    BY <1>1, <1>3, <2>1, <2>2
  <2>4. p2 = left
    BY <1>3, <2>3 DEF Lesser
  <2>5. g2 = m * (D + P) + (r + P) /\ left + m * D + r = petty
    <3> HIDE DEF p2
    <3> QED
      BY <1>1, <2>1, <2>2, <2>4
  <2>6. D + P \in Nat \ {0} /\ g2 \in Nat
    BY <2>1, <2>2, <2>5
  <2>7. n * D + p4 = m * D + r /\ n * P + s4 = M * P - K * P
    <3> HIDE DEF g2, r
    <3>1. CASE r < D
      <4>1. r + P \in 0 .. (D + P) - 1
        BY <2>1, <3>1
      <4>2. n = m /\ g3 = r + P
        BY <2>1, <2>5, <2>6, <4>1, DivUnique
      <4>3. s4 = P /\ p4 = r
        BY <2>1, <4>2 DEF Lesser
      <4> QED
        BY <1>1, <2>1, <2>2, <4>2, <4>3
    <3>2. CASE r = D
      <4>1. g2 = (m + 1) * (D + P) + 0
        BY <2>1, <2>2, <2>5, <3>2
      <4>2. m + 1 \in Nat /\ 0 \in 0 .. (D + P) - 1
        BY <2>1
      <4>3. n = m + 1 /\ g3 = 0
        BY <2>6, <4>1, <4>2, DivUnique
      <4>4. s4 = 0 /\ p4 = 0
        BY <4>3 DEF Lesser
      <4> QED
        BY <1>1, <2>1, <2>2, <3>2, <4>3, <4>4
    <3> QED
      BY <2>1, <3>1, <3>2
  <2>8. n \in Int /\ p4 \in Int /\ s4 \in Int
    BY <2>6 DEF Lesser
  <2>9. p2 + n * D + p4 = petty
    <3> HIDE DEF n, p4, p2, r
    <3>1. left \in Int /\ n * D \in Int /\ m * D \in Int /\ r \in Int
      BY <1>3, <2>1, <2>2, <2>8
    <3> DEFINE nd == n * D
               md == m * D
    <3> HIDE DEF nd, md
    <3>2. nd \in Int /\ md \in Int /\ nd + p4 = md + r /\ left + md + r = petty
      BY <2>5, <2>7, <3>1 DEF nd, md
    <3>3. left + nd + p4 = petty
      BY <2>8, <3>1, <3>2
    <3> QED
      BY <2>4, <3>3 DEF nd
  <2> QED
    BY <2>7, <2>8, <2>9 DEF Rest, RestIsExact
<1> QED
  BY <1>4, <1>5

(* Payer and payee of a hop read the same price: when the payee's ledger of *)
(* a reservation says what the payer's does, the gross amount               *)
(* calculateGrossAmountToPay asks of the payer is, to                       *)
(* calculatePettyAmountToReceive, exactly the petty amount paid for, and    *)
(* both ledgers say the same again.                                         *)
THEOREM PayeeReadsPrice ==
  ASSUME NEW terms, terms.ppp \in Nat, terms.period \in Nat, LegalTerms(terms),
         NEW paid \in [petty : Nat, surcharge : Nat], LedgerExact(terms, paid),
         NEW petty \in Nat \ {0}
  PROVE  LET price == GrossToPay(terms, paid, petty)
             came  == PettyToReceive(terms, paid, price.gross)
         IN  /\ came.now = petty
             /\ came.petty = price.petty
             /\ came.surcharge = price.surcharge
<1> DEFINE price == GrossToPay(terms, paid, petty)
           came  == PettyToReceive(terms, paid, price.gross)
<1>0. paid.petty \in Nat /\ paid.surcharge \in Nat
  OBVIOUS
<1>1. CASE terms.ppp > 0
  <2> DEFINE P == terms.ppp
             D == terms.period
             a == paid.petty
             S == paid.surcharge
             M == Periods(a + petty, D)
             K == IF a = 0 THEN 1 ELSE Periods(a, D)
             gross == (a + petty + M * P) - (a + S)
  <2>1. P \in Nat \ {0} /\ D \in Nat \ {0} /\ a + petty \in Nat \ {0}
    BY <1>0, <1>1 DEF LegalTerms
  <2>2. /\ M \in Nat \ {0} /\ (M - 1) * D < a + petty /\ a + petty <= M * D
    BY <2>1, PeriodsBounds
  <2>3. /\ K \in Nat \ {0} /\ K <= M /\ a <= K * D
    <3>1. CASE a = 0
      BY <2>1, <2>2, <3>1
    <3>2. CASE a # 0
      <4>1. a \in Nat \ {0} /\ a <= a + petty
        BY <1>0, <3>2
      <4> QED
        BY <2>1, <3>2, <4>1, PeriodsBounds, PeriodsMonotone
    <3> QED
      BY <3>1, <3>2
  <2>4. S = IF a = 0 THEN 0 ELSE K * P
    BY <1>1 DEF LedgerExact
  <2>5. price.petty = a + petty /\ price.surcharge = M * P /\ price.gross = gross
    BY <1>1 DEF GrossToPay
  <2> DEFINE due  == IF S = 0 THEN P ELSE Periods(S, P) * P - S
             s1   == Lesser(due, gross)
             left == ((S + s1) \div P) * D - a
             g1   == gross - s1
  <2> HIDE DEF P, D, a, M, K, S, price
  <2>6. K * P \in Nat \ {0} /\ M * P \in Nat \ {0} /\ K * P <= M * P /\ P <= M * P
    <3>1. 1 * P <= M * P /\ 1 * P = P
      BY <2>1, <2>2, MulMonotone
    <3> QED
      BY <2>1, <2>2, <2>3, <3>1, PeriodsOfMultiple, MulMonotone
  <2>7. s1 = K * P - S /\ S + s1 = K * P
    <3>1. CASE a = 0
      <4>1. K * P = P
        BY <2>1, <3>1 DEF K
      <4> QED
        BY <2>1, <2>4, <2>6, <3>1, <4>1 DEF Lesser
    <3>2. CASE a # 0
      <4>1. Periods(S, P) = K /\ S = K * P
        BY <2>1, <2>3, <2>4, <3>2, PeriodsOfMultiple
      <4>2. due = 0 /\ gross = petty + M * P - S
        BY <1>0, <2>6, <4>1 DEF a
      <4> HIDE DEF gross, due
      <4>3. gross \in Nat
        BY <2>6, <4>1, <4>2
      <4> QED
        BY <2>6, <4>1, <4>2, <4>3 DEF Lesser
    <3> QED
      BY <3>1, <3>2
  <2>8. left = K * D - a /\ g1 = petty + M * P - K * P
    <3>1. (K * P) \div P = K
      BY <2>1, <2>3, PeriodsOfMultiple
    <3>2. left = K * D - a
      BY <2>7, <3>1
    <3>3. a \in Nat /\ S \in Nat
      BY <1>0 DEF a, S
    <3> QED
      BY <2>6, <2>7, <3>2, <3>3
  <2> DEFINE rest == Rest(P, D, K * D - a, petty + M * P - K * P)
  <2>9. came = [petty |-> a + rest.now,
                surcharge |-> S + s1 + rest.periods * P + rest.last,
                now |-> rest.now]
    <3> DEFINE r == Rest(P, D, left, g1)
    <3>1. PettyToReceive(terms, paid, gross)
             = [petty |-> a + r.now,
                surcharge |-> S + s1 + r.periods * P + r.last,
                now |-> r.now]
      BY <1>1, ZenonT(60) DEF PettyToReceive, Rest, P, D, a, S
    <3> HIDE DEF left, g1, gross, s1
    <3>2. r = rest
      BY <2>8
    <3> QED
      BY <2>5, <3>1, <3>2
  <2>10. a \in Nat
    BY <1>0 DEF a
  <2> HIDE DEF came, left, g1, s1
  <2>11. /\ rest.now = petty /\ rest.periods * P + rest.last = M * P - K * P
         /\ rest.periods \in Int /\ rest.last \in Int
    <3>1. /\ P \in Nat \ {0} /\ D \in Nat \ {0} /\ K \in Nat \ {0} /\ M \in Nat \ {0}
          /\ a \in Nat /\ petty \in Nat \ {0}
      BY <2>1, <2>2, <2>3, <2>10
    <3>2. K <= M /\ a <= K * D /\ (M - 1) * D < a + petty /\ a + petty <= M * D
      BY <2>2, <2>3, Zenon
    <3>3. WithinPeriods(D, K, M, a, petty)
      BY <3>2 DEF WithinPeriods
    <3>4. RestIsExact(P, D, K, M, a, petty)
      BY <3>1, <3>3, RestSplits, Zenon
    <3> QED
      BY <3>4, Zenon DEF RestIsExact
  <2> DEFINE np == rest.periods * P
  <2>12. np \in Int
    BY <2>1, <2>11
  <2> HIDE DEF np
  <2>13. came.now = petty /\ came.petty = a + petty /\ came.surcharge = M * P
    BY <2>6, <2>7, <2>9, <2>11, <2>12 DEF np
  <2> QED
    BY <2>5, <2>13 DEF price, came
<1>2. CASE ~(terms.ppp > 0)
  BY <1>0, <1>2 DEF GrossToPay, PettyToReceive
<1> QED
  BY <1>1, <1>2
=============================================================================
