------------------------------ MODULE Surcharge ------------------------------
(***************************************************************************)
(* The surcharge arithmetic of the payment manager (paymgr/utils.go and    *)
(* the first part of Reserve in paymgr/paymentmgr_impl.go).                *)
(*                                                                         *)
(* A payment of a petty amount p over a served channel costs a gross       *)
(* amount: p itself plus ppp for every period of petty amount begun.       *)
(* Terms are records [ppp, period].  All amounts are big.Int in the code,  *)
(* so no width is modelled; \div and % are big.Int's Div and Mod on the    *)
(* non-negative values that reach them.                                    *)
(***************************************************************************)
EXTENDS Integers

Free == [ppp |-> 0, period |-> 0]

Lesser(a, b) == IF a <= b THEN a ELSE b

(* "ppp and period must be either both 0 or both positive": the check      *)
(* Reserve makes of an offer and of a serving, and QueryOffer of an offer. *)
LegalTerms(t) == \/ t.ppp = 0 /\ t.period = 0
                 \/ t.ppp > 0 /\ t.period > 0

(* Mutant: one period too many when a period has just been filled.          *)
PeriodsAhead(petty, period) == petty \div period + 1

(* The number of periods begun by a petty amount, (petty - 1) / period + 1. *)
Periods(petty, period) == (petty - 1) \div period + 1

(* Mutant: Reserve sets aside the surcharge of one period too many at a     *)
(* period's end.                                                            *)
GrossRequiredAhead(terms, petty) ==
    IF terms.ppp > 0 THEN petty + PeriodsAhead(petty, terms.period) * terms.ppp
                     ELSE petty

(* The gross amount Reserve sets aside for a petty amount.                  *)
GrossRequired(terms, petty) ==
    IF terms.ppp > 0 THEN petty + Periods(petty, terms.period) * terms.ppp
                     ELSE petty

(* Mutant: every payment is charged for the periods it would begin alone.   *)
GrossPerPayment(terms, paid, petty) ==
    LET surcharge == IF terms.ppp > 0 THEN Periods(petty, terms.period) * terms.ppp ELSE 0
    IN  [petty |-> paid.petty + petty, surcharge |-> paid.surcharge + surcharge,
         gross |-> petty + surcharge]

(* calculateGrossAmountToPay: what the payer adds to the voucher, given     *)
(* what it has already paid under the reservation.                          *)
GrossToPay(terms, paid, petty) ==
    IF terms.ppp > 0
    THEN LET expected  == paid.petty + petty
             surcharge == Periods(expected, terms.period) * terms.ppp
         IN  [petty |-> expected, surcharge |-> surcharge,
              gross |-> (expected + surcharge) - (paid.petty + paid.surcharge)]
    ELSE [petty |-> paid.petty + petty, surcharge |-> paid.surcharge,
          gross |-> petty]

(* The ledger of a payer that has paid for a petty amount, in any number of *)
(* payments: the surcharge of every period begun, and nothing else.         *)
LedgerExact(terms, paid) ==
    terms.ppp > 0 =>
        paid.surcharge = IF paid.petty = 0 THEN 0
                         ELSE Periods(paid.petty, terms.period) * terms.ppp

(* calculatePettyAmountToReceive: what a proxy makes of a gross amount that *)
(* arrives, given what it has already received under the reservation: it    *)
(* completes the surcharge of the current period (s1), then the petty       *)
(* amount that surcharge has bought (p2), then whole periods (n), and the   *)
(* rest is the surcharge (s4) and the petty amount (p4) of a last one.      *)
PettyToReceive(terms, received, gross) ==
    IF terms.ppp > 0
    THEN LET ppp  == terms.ppp
             due  == IF received.surcharge = 0 THEN ppp
                     ELSE Periods(received.surcharge, ppp) * ppp - received.surcharge
             s1   == Lesser(due, gross)
             g1   == gross - s1
             left == ((received.surcharge + s1) \div ppp) * terms.period - received.petty
             p2   == IF g1 > 0 THEN Lesser(left, g1) ELSE 0
             g2   == g1 - p2
             n    == g2 \div (terms.period + ppp)
             g3   == g2 % (terms.period + ppp)
             s4   == Lesser(ppp, g3)
             p4   == g3 - s4
             now  == p2 + n * terms.period + p4
         IN  [petty |-> received.petty + now,
              surcharge |-> received.surcharge + s1 + n * ppp + s4, now |-> now]
    ELSE [petty |-> received.petty + gross, surcharge |-> received.surcharge,
          now |-> gross]

(* Mutant: the proxy keeps its own period next to the price it passes on.   *)
InboundTermsOwnPeriod(serve, offer) ==
    [ppp |-> serve.ppp + offer.ppp, period |-> serve.period]

(* The inbound terms a proxy records and quotes upstream, from the terms    *)
(* its channel is served at and the terms of the offer it has received      *)
(* (Free at the final proxy): both prices, over the shorter period.  A      *)
(* channel served for free keeps its period 0 next to the price it passes   *)
(* on (its period is never the larger one).                                 *)
InboundTerms(serve, offer) ==
    [ppp    |-> serve.ppp + offer.ppp,
     period |-> IF offer.period > 0 /\ offer.period < serve.period
                THEN offer.period ELSE serve.period]
=============================================================================
