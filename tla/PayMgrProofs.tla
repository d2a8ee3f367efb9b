---------------------------- MODULE PayMgrProofs ----------------------------
(***************************************************************************)
(* Proofs about PayMgr, for any channels, callers, offers and bounds.      *)
(* First the sums over reservations, then the inductive invariant.         *)
(***************************************************************************)
EXTENDS PayMgr, SurchargeProofs, FiniteSetTheorems, TLAPS

Table == [Id -> Reservation \cup {NoRes}]
Others(rs, i) == {u \in Units(rs) : u[1] # i}

(* The size of an interval that starts at 1.                                *)
LEMMA Interval1 ==
  ASSUME NEW n \in Nat
  PROVE  IsFiniteSet(1 .. n) /\ Cardinality(1 .. n) = n
<1>1. 1 \in Int /\ n \in Int
  OBVIOUS
<1>2. IsFiniteSet(1 .. n) /\ Cardinality(1 .. n) = IF 1 > n THEN 0 ELSE n - 1 + 1
  BY <1>1, FS_Interval, Zenon
<1>3. (IF 1 > n THEN 0 ELSE n - 1 + 1) = n
  OBVIOUS
<1> QED
  BY <1>2, <1>3

(* Pairing with one value does not change a set's size.                     *)
LEMMA SingletonProduct ==
  ASSUME NEW x, NEW S, IsFiniteSet(S)
  PROVE  IsFiniteSet({x} \X S) /\ Cardinality({x} \X S) = Cardinality(S)
<1>1. IsFiniteSet({x}) /\ Cardinality({x}) = 1
  BY FS_Singleton
<1>2. IsFiniteSet({x} \X S) /\ Cardinality({x} \X S) = Cardinality({x}) * Cardinality(S)
  BY <1>1, FS_Product
<1>3. Cardinality(S) \in Nat
  BY FS_CardinalityType
<1> QED
  BY <1>1, <1>2, <1>3

(* What a table entry holds is a natural number of units.                   *)
LEMMA RemainNat ==
  ASSUME NEW r \in Reservation \cup {NoRes}
  PROVE  /\ Remain(r) \in Nat
         /\ IsFiniteSet(1 .. Remain(r))
         /\ Cardinality(1 .. Remain(r)) = Remain(r)
<1>1. Remain(r) \in Nat
  BY DEF Remain, Reservation
<1> QED
  BY <1>1, Interval1

(* The units of a table are finitely many, so that their number is a        *)
(* natural number.                                                          *)
LEMMA UnitsFinite ==
  ASSUME NEW rs \in Table
  PROVE  /\ IsFiniteSet(Units(rs))
         /\ Reserved(rs) \in Nat
<1> DEFINE T == {{i} \X (1 .. Remain(rs[i])) : i \in Id}
           f == [i \in Id |-> {i} \X (1 .. Remain(rs[i]))]
<1>1. IsFiniteSet(Id)
  BY BoundsAssumption, FS_Interval DEF Id
<1>2. f \in Surjection(Id, T)
  BY DEF Surjection
<1>3. IsFiniteSet(T)
  BY <1>1, <1>2, FS_Surjection
<1>4. \A S \in T : IsFiniteSet(S)
  <2>1. SUFFICES ASSUME NEW i \in Id
                 PROVE  IsFiniteSet({i} \X (1 .. Remain(rs[i])))
    OBVIOUS
  <2>2. IsFiniteSet((1 .. Remain(rs[i])))
    BY RemainNat DEF Table
  <2> QED
    BY <2>2, FS_Singleton, FS_Product
<1>5. IsFiniteSet(UNION T)
  BY <1>3, <1>4, FS_UNION
<1> QED
  BY <1>5, FS_CardinalityType DEF Units, Reserved

(* A table's sum is one reservation's remain and the sum of the others.     *)
LEMMA ReservedAt ==
  ASSUME NEW rs \in Table, NEW i \in Id
  PROVE  /\ IsFiniteSet(Others(rs, i))
         /\ Cardinality(Others(rs, i)) \in Nat
         /\ Reserved(rs) = Cardinality(Others(rs, i)) + Remain(rs[i])
<1> DEFINE Own == {i} \X (1 .. Remain(rs[i]))
<1>1. Units(rs) = Others(rs, i) \cup Own
  BY DEF Units, Others
<1>2. Others(rs, i) \cap Own = {}
  BY DEF Others
<1>3. IsFiniteSet(Others(rs, i))
  BY UnitsFinite, FS_Subset DEF Others
<1>4. IsFiniteSet(Own) /\ Cardinality(Own) = Remain(rs[i])
  <2> DEFINE S == 1 .. Remain(rs[i])
  <2>1. IsFiniteSet(S) /\ Cardinality(S) = Remain(rs[i])
    BY RemainNat DEF Table
  <2> HIDE DEF S
  <2>2. IsFiniteSet({i} \X S) /\ Cardinality({i} \X S) = Cardinality(S)
    BY <2>1, SingletonProduct
  <2> QED
    BY <2>1, <2>2 DEF S
<1>5. Cardinality(Units(rs)) = Cardinality(Others(rs, i)) + Cardinality(Own) - Cardinality({})
  BY <1>1, <1>2, <1>3, <1>4, FS_Union
<1>6. Cardinality(Others(rs, i)) \in Nat
  BY <1>3, FS_CardinalityType
<1>7. Remain(rs[i]) \in Nat
  BY RemainNat DEF Table
<1> QED
  BY <1>3, <1>4, <1>5, <1>6, <1>7, FS_EmptySet DEF Reserved

(* Writing one entry of a table changes the sum by that entry alone.        *)
LEMMA ReservedUpdate ==
  ASSUME NEW rs \in Table, NEW i \in Id, NEW r \in Reservation \cup {NoRes}
  PROVE  /\ [rs EXCEPT ![i] = r] \in Table
         /\ Reserved([rs EXCEPT ![i] = r]) = Reserved(rs) - Remain(rs[i]) + Remain(r)
<1> DEFINE new == [rs EXCEPT ![i] = r]
<1>1. new \in Table /\ new[i] = r
  BY DEF Table
<1>2. \A j \in Id : j # i => new[j] = rs[j]
  BY DEF Table
<1> HIDE DEF new
<1>3. Others(new, i) = Others(rs, i)
  BY <1>2 DEF Others, Units
<1>4. Reserved(new) = Cardinality(Others(rs, i)) + Remain(r)
  BY <1>1, <1>3, ReservedAt
<1>5. /\ Reserved(rs) = Cardinality(Others(rs, i)) + Remain(rs[i])
      /\ Cardinality(Others(rs, i)) \in Nat
  BY ReservedAt
<1>6. Remain(rs[i]) \in Nat /\ Remain(r) \in Nat
  BY RemainNat DEF Table
<1>7. Reserved(new) = Reserved(rs) - Remain(rs[i]) + Remain(r)
  BY <1>4, <1>5, <1>6
<1> QED
  BY <1>1, <1>7 DEF new

(* A table without reservations (a new channel's, or one with a network     *)
(* loss) holds nothing.                                                     *)
LEMMA ReservedNone ==
  /\ NoReservations \in Table
  /\ Reserved(NoReservations) = 0
<1>1. Units(NoReservations) = {}
  BY DEF Units, Remain, NoReservations
<1> QED
  BY <1>1, FS_EmptySet DEF Reserved, Table, NoReservations

(* What releaseExpiredAmount takes out and what it leaves add up.           *)
LEMMA ReservedSplit ==
  ASSUME NEW rs \in Table
  PROVE  /\ Live(rs) \in Table /\ Lapsed(rs) \in Table
         /\ Reserved(rs) = Reserved(Live(rs)) + Reserved(Lapsed(rs))
<1>1. Live(rs) \in Table /\ Lapsed(rs) \in Table
  BY DEF Live, Lapsed, Table
<1>2. Units(rs) = Units(Live(rs)) \cup Units(Lapsed(rs))
  BY DEF Units, Remain, Live, Lapsed
<1>3. Units(Live(rs)) \cap Units(Lapsed(rs)) = {}
  BY DEF Units, Remain, Live, Lapsed
<1>4. /\ IsFiniteSet(Units(Live(rs))) /\ IsFiniteSet(Units(Lapsed(rs)))
      /\ Reserved(Live(rs)) \in Nat /\ Reserved(Lapsed(rs)) \in Nat
  BY <1>1, UnitsFinite
<1>5. Cardinality(Units(rs)) = Cardinality(Units(Live(rs))) + Cardinality(Units(Lapsed(rs)))
                               - Cardinality({})
  BY <1>2, <1>3, <1>4, FS_Union
<1> QED
  BY <1>1, <1>4, <1>5, FS_EmptySet DEF Reserved

-----------------------------------------------------------------------------
(***************************************************************************)
(* The inductive invariant.  A channel is sound when its running total is  *)
(* the sum, nothing is overbooked, no voucher outgrows the balance on      *)
(* chain, and a recorded loss has emptied it; a call is sound when what it read is      *)
(* still so; and the write lock has one holder.                            *)
(***************************************************************************)
TableSound(c) ==
    \A i \in Id :
        /\ i > reservedNonce[c] => reservations[c][i] = NoRes
        /\ reservations[c][i] # NoRes =>
              LedgerExact(reservations[c][i].terms, reservations[c][i].paid)

LossSound(c) ==
    state[c].loss # NoVoucher =>
        /\ reservations[c] = NoReservations
        /\ state[c].loss \in signed[c]
        /\ state[c].loss.nonce > state[c].nonce
        /\ state[c].loss.redeemed >= state[c].redeemed

VouchersSound(c) == \A v \in signed[c] : v.redeemed <= chain[c].balance

AddingSound(c) ==
    \A a \in adding : a.ch = c => /\ a.seen.redeemed <= a.seen.balance
                                 /\ a.seen.balance <= chain[c].balance

Covered(c) == reservedAmt[c] > 0 => reservedAmt[c] + state[c].redeemed <= state[c].balance

ChanInv(c) ==
    /\ reservedAmt[c] = Reserved(reservations[c])
    /\ Covered(c)
    /\ state[c].balance <= chain[c].balance
    /\ state[c].redeemed <= chain[c].balance
    /\ chain[c].redeemed <= chain[c].balance
    /\ TableSound(c)
    /\ LossSound(c)
    /\ VouchersSound(c)
    /\ AddingSound(c)

CallInv(t) ==
    /\ caller[t].pc = "reserve" => /\ caller[t].todo \subseteq active
                                   /\ caller[t].ready \subseteq active
    /\ caller[t].pc = "pay" => caller[t].ch \in active
    /\ caller[t].pc = "pending" =>
          /\ Fresh(t)
          /\ state[caller[t].ch].loss = NoVoucher
          /\ caller[t].after.res # NoRes =>
                LedgerExact(caller[t].after.res.terms, caller[t].after.res.paid)

OneHolder ==
    \A t, u \in Caller :
        caller[t].pc = "pending" /\ caller[u].pc = "pending" /\ caller[t].ch = caller[u].ch => t = u

IInv == /\ TypeOK
        /\ \A c \in Chan : ChanInv(c)
        /\ \A t \in Caller : CallInv(t)
        /\ OneHolder

(* A call in Reserve has the fields of one.                                 *)
LEMMA ReserveCallType ==
  ASSUME TypeOK, NEW t \in Caller, caller[t].pc = "reserve"
  PROVE  caller[t] \in ReserveCall
BY DEF TypeOK, Idle, ReserveCall, PayCall, PendingCall

(* A call in Pay has the fields of one.                                     *)
LEMMA PayCallType ==
  ASSUME TypeOK, NEW t \in Caller, caller[t].pc = "pay"
  PROVE  caller[t] \in PayCall
BY DEF TypeOK, Idle, ReserveCall, PayCall, PendingCall

(* A call that holds a channel's write lock after Pay has the fields of     *)
(* one.                                                                     *)
LEMMA PendingCallType ==
  ASSUME TypeOK, NEW t \in Caller, caller[t].pc = "pending"
  PROVE  caller[t] \in PendingCall
BY DEF TypeOK, Idle, ReserveCall, PayCall, PendingCall

(* A payment manager that starts with an empty store satisfies the          *)
(* invariant.                                                               *)
LEMMA InitIInv == Init => IInv
<1> SUFFICES ASSUME Init PROVE IInv
  OBVIOUS
<1>1. NoReservations \in Table /\ Reserved(NoReservations) = 0
  BY ReservedNone
<1>2. TypeOK
  <2>1. chain \in [Chan -> [balance : Nat, redeemed : Nat]]
    <3>1. Funds \subseteq Nat /\ 0 \in Nat
      BY BoundsAssumption
    <3>2. \A x \in [balance : Funds, redeemed : {0}] : x \in [balance : Nat, redeemed : Nat]
      BY <3>1
    <3> QED
      BY <3>2 DEF Init
  <2>2. /\ state \in [Chan -> State]
        /\ caller \in [Caller -> {Idle} \cup ReserveCall \cup PayCall \cup PendingCall]
        /\ signed \in [Chan -> SUBSET Voucher]
        /\ adding \in SUBSET [ch : Chan, seen : [balance : Nat, redeemed : Nat]]
    BY DEF Init, State, NoState
  <2>3. /\ reservedAmt \in [Chan -> Int]
        /\ reservedNonce \in [Chan -> 0 .. MaxRes]
        /\ reservations \in [Chan -> Table]
    BY <1>1, BoundsAssumption DEF Init
  <2> QED
    BY <2>1, <2>2, <2>3 DEF Init, TypeOK, Table
<1>3. ASSUME NEW c \in Chan
      PROVE  ChanInv(c)
  <2>1. /\ reservations[c] = NoReservations /\ reservedAmt[c] = 0 /\ state[c] = NoState
        /\ signed[c] = {} /\ adding = {} /\ chain[c].redeemed = 0
    BY DEF Init
  <2>2. chain[c].balance \in Nat
    BY <1>2 DEF TypeOK
  <2> QED
    BY <1>1, <2>1, <2>2
    DEF ChanInv, TableSound, LossSound, VouchersSound, AddingSound, Covered, NoReservations, NoState
<1>4. ASSUME NEW t \in Caller
      PROVE  CallInv(t)
  BY DEF Init, CallInv, Idle
<1>5. OneHolder
  BY DEF Init, OneHolder, Idle
<1> QED
  BY <1>2, <1>3, <1>4, <1>5 DEF IInv

(* A call stays sound as long as it and the channel it holds are untouched. *)
LEMMA CallKept ==
  ASSUME NEW u \in Caller, CallInv(u), caller'[u] = caller[u],
         active \subseteq active',
         caller[u].pc = "pending" =>
             /\ state'[caller[u].ch] = state[caller[u].ch]
             /\ reservedAmt'[caller[u].ch] = reservedAmt[caller[u].ch]
             /\ reservations'[caller[u].ch][caller[u].id] = reservations[caller[u].ch][caller[u].id]
  PROVE  CallInv(u)'
<1>1. CASE caller[u].pc = "pending"
  <2>1. Fresh(u)
    BY <1>1 DEF CallInv
  <2>2. Fresh(u)'
    BY <1>1, <2>1 DEF Fresh, Remain
  <2> QED
    BY <1>1, <2>2 DEF CallInv
<1>2. CASE caller[u].pc # "pending"
  BY <1>2 DEF CallInv
<1> QED
  BY <1>1, <1>2

(* Calls that move without touching the cache: a call that is not pending   *)
(* afterwards, and looks only at channels that are there.                   *)
LEMMA CallStep ==
  ASSUME IInv, NEW t \in Caller,
         NEW r \in {Idle} \cup ReserveCall \cup PayCall,
         caller' = [caller EXCEPT ![t] = r],
         UNCHANGED <<cached, external, now>>,
         r.pc = "reserve" => r.todo \subseteq active /\ r.ready \subseteq active,
         r.pc = "pay" => r.ch \in active
  PROVE  IInv'
<1>1. r.pc # "pending"
  BY DEF Idle, ReserveCall, PayCall
<1>2. /\ caller'[t] = r
      /\ \A u \in Caller : u # t => caller'[u] = caller[u]
  BY DEF IInv, TypeOK
<1>3. TypeOK'
  BY DEF IInv, TypeOK, cached, external
<1>4. ASSUME NEW c \in Chan
      PROVE  ChanInv(c)'
  BY DEF IInv, ChanInv, TableSound, LossSound, VouchersSound, AddingSound, Covered, cached, external
<1>5. ASSUME NEW u \in Caller
      PROVE  CallInv(u)'
  <2>1. CASE u = t
    BY <1>1, <1>2, <2>1 DEF CallInv, cached
  <2>2. CASE u # t
    BY <1>2, <2>2, CallKept DEF IInv, cached
  <2> QED
    BY <2>1, <2>2
<1>6. OneHolder'
  BY <1>1, <1>2 DEF IInv, OneHolder
<1> QED
  BY <1>3, <1>4, <1>5, <1>6 DEF IInv

(* Reserve up to its goroutines keeps the invariant: the channels it looks  *)
(* at are there.                                                            *)
LEMMA ReserveBeginInv ==
  ASSUME IInv, NEW t \in Caller, NEW petty \in 1 .. MaxPetty, NEW terms \in Offers,
         ReserveBegin(t, petty, terms)
  PROVE  IInv'
<1> DEFINE r == [pc |-> "reserve", petty |-> petty, terms |-> terms,
                 deadline |-> now + Expiry, todo |-> active, ready |-> {}, made |-> {}]
<1>1. now + Expiry \in Nat /\ active \in SUBSET Chan
  BY BoundsAssumption DEF IInv, TypeOK
<1>2. r \in ReserveCall
  BY <1>1 DEF ReserveCall
<1>3. /\ r.pc = "reserve"
      /\ r.todo \subseteq active /\ r.ready \subseteq active
  OBVIOUS
<1>4. caller' = [caller EXCEPT ![t] = r] /\ UNCHANGED <<cached, external, now>>
  BY DEF ReserveBegin
<1> HIDE DEF r
<1> QED
  BY <1>2, <1>3, <1>4, CallStep

(* A goroutine of Reserve that waits or gives up keeps the invariant.       *)
LEMMA ReserveProbeInv ==
  ASSUME IInv, NEW t \in Caller, NEW c \in Chan, ReserveProbe(t, c) \/ ReserveQuit(t, c)
  PROVE  IInv'
<1>1. PICK ready \in SUBSET active :
         caller' = [caller EXCEPT ![t] = [caller[t] EXCEPT !.todo = @ \ {c}, !.ready = ready]]
  <2>1. caller[t].pc = "reserve"
    BY DEF ReserveProbe, ReserveQuit
  <2>2. caller[t].todo \subseteq active /\ caller[t].ready \subseteq active
    BY <2>1 DEF IInv, CallInv
  <2>3. CASE ReserveProbe(t, c)
    BY <2>2, <2>3 DEF ReserveProbe
  <2>4. CASE ReserveQuit(t, c)
    BY <2>2, <2>4 DEF ReserveQuit
  <2> QED
    BY <2>3, <2>4
<1> DEFINE r == [caller[t] EXCEPT !.todo = @ \ {c}, !.ready = ready]
<1>2. caller[t] \in ReserveCall /\ caller[t].pc = "reserve"
  BY ReserveCallType DEF ReserveProbe, ReserveQuit, IInv
<1>3. active \in SUBSET Chan /\ caller[t].todo \subseteq active
  BY <1>2 DEF IInv, TypeOK, CallInv
<1>4. r \in ReserveCall /\ r.pc = "reserve" /\ r.todo \subseteq active /\ r.ready \subseteq active
  BY <1>1, <1>2, <1>3 DEF ReserveCall
<1>5. UNCHANGED <<cached, external, now>>
  BY DEF ReserveProbe, ReserveQuit
<1>6. caller' = [caller EXCEPT ![t] = r]
  BY <1>1
<1> HIDE DEF r
<1> QED
  BY <1>4, <1>5, <1>6, CallStep

(* The provisional check of Pay keeps the invariant.                        *)
LEMMA PayProbeInv ==
  ASSUME IInv, NEW t \in Caller, NEW c \in Chan, NEW id \in Id, NEW petty \in 1 .. MaxPetty,
         PayProbe(t, c, id, petty)
  PROVE  IInv'
<1> DEFINE r == [pc |-> "pay", ch |-> c, id |-> id, petty |-> petty]
<1>1. r \in PayCall /\ r.pc = "pay" /\ r.ch \in active
  BY DEF PayCall, PayProbe
<1>2. caller' = [caller EXCEPT ![t] = r] /\ UNCHANGED <<cached, external, now>>
  BY DEF PayProbe
<1> HIDE DEF r
<1> QED
  BY <1>1, <1>2, CallStep

(* A call that returns without having written anything keeps the            *)
(* invariant.                                                               *)
LEMMA ReturnInv ==
  ASSUME IInv, NEW t \in Caller, ReserveReturn(t) \/ PayTimeout(t) \/ Revert(t)
  PROVE  IInv'
<1>1. caller' = [caller EXCEPT ![t] = Idle] /\ UNCHANGED <<cached, external, now>>
  BY DEF ReserveReturn, PayTimeout, Revert
<1>2. Idle.pc = "idle"
  BY DEF Idle
<1> QED
  BY <1>1, <1>2, CallStep

-----------------------------------------------------------------------------
(* Steps that change a channel leave the others, and the calls that hold    *)
(* them, as they were.                                                      *)
LEMMA ChanKept ==
  ASSUME NEW d \in Chan, ChanInv(d), d \in active' => d \in active,
         state'[d] = state[d], reservedAmt'[d] = reservedAmt[d],
         reservedNonce'[d] = reservedNonce[d], reservations'[d] = reservations[d],
         chain'[d] = chain[d], signed'[d] = signed[d],
         \A a \in adding' : a.ch = d => a \in adding
  PROVE  ChanInv(d)'
<1>1. TableSound(d)'
  BY DEF ChanInv, TableSound
<1>2. LossSound(d)'
  BY DEF ChanInv, LossSound
<1>3. VouchersSound(d)'
  BY DEF ChanInv, VouchersSound
<1>4. AddingSound(d)'
  BY DEF ChanInv, AddingSound
<1>5. Covered(d)'
  BY DEF ChanInv, Covered
<1> QED
  BY <1>1, <1>2, <1>3, <1>4, <1>5 DEF ChanInv

(* A channel whose write lock is free has no payment in flight.             *)
LEMMA FreeChannel ==
  ASSUME NEW c \in Chan, ~Locked(c), NEW t \in Caller, caller[t].pc = "pending"
  PROVE  caller[t].ch # c
BY DEF Locked

(* releaseExpiredAmount on a sound channel: the total stays the sum, and    *)
(* what is left is part of what was there.                                  *)
LEMMA ReleaseSound ==
  ASSUME IInv, NEW c \in Chan
  PROVE  /\ reservations[c] \in Table
         /\ Live(reservations[c]) \in Table
         /\ ReservedAfterRelease(c) = Reserved(Live(reservations[c]))
         /\ ReservedAfterRelease(c) \in Nat
         /\ ReservedAfterRelease(c) <= reservedAmt[c]
         /\ \A i \in Id : Live(reservations[c])[i] # NoRes =>
                              Live(reservations[c])[i] = reservations[c][i]
         /\ reservations[c] = NoReservations => Live(reservations[c]) = NoReservations
<1> DEFINE R == reservations[c]
<1>1. R \in Table /\ reservedAmt[c] = Reserved(R)
  BY DEF IInv, TypeOK, ChanInv, Table
<1>2. /\ Live(R) \in Table
      /\ Reserved(R) = Reserved(Live(R)) + Reserved(Lapsed(R))
      /\ Reserved(Live(R)) \in Nat /\ Reserved(Lapsed(R)) \in Nat
  BY <1>1, ReservedSplit, UnitsFinite
<1>3. \A i \in Id : Live(R)[i] # NoRes => Live(R)[i] = R[i]
  BY DEF Live
<1>4. R = NoReservations => Live(R) = NoReservations
  BY DEF Live, NoReservations
<1> QED
  BY <1>1, <1>2, <1>3, <1>4 DEF ReservedAfterRelease, ExpiredAmt

(* A channel that only lost its expired reservations is still sound.        *)
LEMMA ReleaseInv ==
  ASSUME IInv, NEW c \in Chan, ReleaseExpired(c),
         UNCHANGED <<active, state, reservedNonce, chain>>,
         signed[c] \subseteq signed'[c], VouchersSound(c)', AddingSound(c)'
  PROVE  ChanInv(c)'
<1> DEFINE L == Live(reservations[c])
<1>1. /\ reservations'[c] = L /\ reservedAmt'[c] = ReservedAfterRelease(c)
      /\ state'[c] = state[c] /\ chain'[c] = chain[c] /\ reservedNonce'[c] = reservedNonce[c]
  BY DEF IInv, TypeOK, ReleaseExpired
<1>2. ChanInv(c)
  BY DEF IInv
<1>3. TableSound(c)'
  BY <1>1, <1>2, ReleaseSound DEF ChanInv, TableSound
<1>4. LossSound(c)'
  BY <1>1, <1>2, ReleaseSound DEF ChanInv, LossSound
<1>6. reservedAmt'[c] = Reserved(reservations'[c])
  BY <1>1, ReleaseSound
<1>7. Covered(c)'
  <2>1. reservedAmt[c] \in Int /\ state[c].redeemed \in Nat /\ state[c].balance \in Nat
    BY DEF IInv, TypeOK, State
  <2> QED
    BY <1>1, <1>2, <2>1, ReleaseSound DEF ChanInv, Covered
<1>8. state'[c].balance <= chain'[c].balance /\ state'[c].redeemed <= chain'[c].balance
      /\ chain'[c].redeemed <= chain'[c].balance
  BY <1>1, <1>2 DEF ChanInv
<1> QED
  BY <1>3, <1>4, <1>6, <1>7, <1>8 DEF ChanInv

(* releaseExpiredAmount keeps the types of the table and of the reserved    *)
(* amount.                                                                  *)
LEMMA ReleaseType ==
  ASSUME IInv, NEW c \in Chan, ReleaseExpired(c)
  PROVE  /\ reservations' \in [Chan -> Table]
         /\ reservedAmt' \in [Chan -> Int]
         /\ \A d \in Chan \ {c} : /\ reservations'[d] = reservations[d]
                                   /\ reservedAmt'[d] = reservedAmt[d]
<1>1. /\ Live(reservations[c]) \in Table
      /\ ReservedAfterRelease(c) \in Int
  BY ReleaseSound
<1> QED
  BY <1>1 DEF IInv, TypeOK, ReleaseExpired, Table

(* What calls do in a step that is not Pay's, commit's or revert's: those   *)
(* that move do not become holders of a lock.                               *)
CallsSettle ==
    /\ caller' \in [Caller -> {Idle} \cup ReserveCall \cup PayCall \cup PendingCall]
    /\ \A u \in Caller : \/ caller'[u] = caller[u]
                         \/ caller'[u] = Idle
                         \/ /\ caller'[u] \in ReserveCall
                            /\ caller'[u].todo \subseteq active
                            /\ caller'[u].ready \subseteq active

(* Calls that settle, from what they were or from idle, stay sound while    *)
(* one free channel changes.                                                *)
LEMMA CallsSettleInv ==
  ASSUME IInv, CallsSettle, active' = active,
         \A u \in Caller : caller[u].pc = "pending" =>
             /\ state'[caller[u].ch] = state[caller[u].ch]
             /\ reservedAmt'[caller[u].ch] = reservedAmt[caller[u].ch]
             /\ reservations'[caller[u].ch] = reservations[caller[u].ch]
  PROVE  /\ \A u \in Caller : CallInv(u)'
         /\ OneHolder'
<1>1. ASSUME NEW u \in Caller
      PROVE  CallInv(u)'
  <2>1. CASE caller'[u] = caller[u]
    BY <2>1, CallKept DEF IInv
  <2>2. CASE caller'[u] # caller[u]
    BY <2>2 DEF CallsSettle, CallInv, Idle, ReserveCall
  <2> QED
    BY <2>1, <2>2
<1>2. \A u \in Caller : caller'[u].pc = "pending" => caller'[u] = caller[u]
  BY DEF CallsSettle, Idle, ReserveCall
<1>3. OneHolder'
  BY <1>2 DEF IInv, OneHolder
<1> QED
  BY <1>1, <1>3

(* A step that releases expired reservations of a free channel keeps the    *)
(* invariant.                                                               *)
LEMMA ReleaseStep ==
  ASSUME IInv, NEW c \in Chan, ~Locked(c), ReleaseExpired(c), CallsSettle,
         UNCHANGED <<active, state, reservedNonce, link, external, now>>
  PROVE  IInv'
<1>1. /\ reservations' \in [Chan -> Table] /\ reservedAmt' \in [Chan -> Int]
      /\ \A d \in Chan \ {c} : /\ reservations'[d] = reservations[d]
                                /\ reservedAmt'[d] = reservedAmt[d]
  BY ReleaseType
<1>2. TypeOK'
  BY <1>1 DEF IInv, TypeOK, CallsSettle, external, Table
<1>3. ASSUME NEW d \in Chan
      PROVE  ChanInv(d)'
  <2>1. CASE d = c
    <3>1. VouchersSound(c)' /\ AddingSound(c)'
      BY DEF IInv, ChanInv, VouchersSound, AddingSound, external
    <3> QED
      BY <2>1, <3>1, ReleaseInv DEF external
  <2>2. CASE d # c
    BY <1>1, <2>2, ChanKept DEF IInv, external
  <2> QED
    BY <2>1, <2>2
<1>4. \A u \in Caller : caller[u].pc = "pending" => caller[u].ch \in Chan \ {c}
  BY FreeChannel, PendingCallType DEF IInv, PendingCall
<1>5. (\A u \in Caller : CallInv(u)') /\ OneHolder'
  BY <1>1, <1>4, CallsSettleInv
<1> QED
  BY <1>2, <1>3, <1>5 DEF IInv

(* Calls that do not move settle.                                           *)
LEMMA StandStill ==
  ASSUME IInv, caller' = caller
  PROVE  CallsSettle
BY DEF CallsSettle, IInv, TypeOK

(* reservationCleanRoutine keeps the invariant.                             *)
LEMMA CleanInv ==
  ASSUME IInv, NEW c \in Chan, Clean(c)
  PROVE  IInv'
BY ReleaseStep, StandStill DEF Clean

(* A payment that fails under the write lock keeps the invariant.           *)
LEMMA PayRefusedInv ==
  ASSUME IInv, NEW t \in Caller, PayRefused(t)
  PROVE  IInv'
<1> DEFINE c == caller[t].ch
<1>1. caller[t] \in PayCall /\ c \in Chan
  BY PayCallType DEF PayRefused, IInv, PayCall
<1>2. caller' = [caller EXCEPT ![t] = Idle] /\ Idle.pc = "idle"
  BY DEF PayRefused, Idle
<1>3. CallsSettle
  BY <1>2 DEF CallsSettle, IInv, TypeOK
<1>4. CASE state[c].loss = NoVoucher
  BY <1>1, <1>3, <1>4, ReleaseStep DEF PayRefused
<1>5. CASE state[c].loss # NoVoucher
  <2>1. UNCHANGED <<cached, external, now>>
    BY <1>5 DEF PayRefused, cached
  <2> QED
    BY <1>2, <2>1, CallStep
<1> QED
  BY <1>4, <1>5

(* Reserve under a channel's write lock keeps the invariant: what it adds   *)
(* to the total is what it puts in the table, and fits the balance.         *)
LEMMA ReserveLockedInv ==
  ASSUME IInv, NEW t \in Caller, NEW c \in Chan, ReserveLocked(t, c)
  PROVE  IInv'
<1> DEFINE gross == GrossRequired(caller[t].terms, caller[t].petty)
           id    == reservedNonce[c] + 1
           wins  == Wins(t, c)
           L     == Live(reservations[c])
           new   == [terms |-> caller[t].terms, paid |-> NothingPaid,
                     remain |-> gross, deadline |-> caller[t].deadline]
<1>1. /\ caller[t] \in ReserveCall /\ caller[t].pc = "reserve" /\ ~Locked(c)
      /\ caller[t].todo \subseteq active /\ caller[t].ready \subseteq active
  BY ReserveCallType DEF ReserveLocked, IInv, CallInv
<1>2. CASE wins
  <2>1. /\ id \in Id /\ id > reservedNonce[c] /\ reservedNonce[c] \in 0 .. MaxRes
    BY <1>2, BoundsAssumption DEF ReserveLocked, IInv, TypeOK, Id
  <2>2. gross \in Nat
    BY <1>1, OffersAssumption, GrossRequiredLemma DEF ReserveCall
  <2>3. new \in Reservation
    BY <1>1, <2>2 DEF ReserveCall, Reservation, NothingPaid, Ledger
  <2>4. L \in Table /\ L[id] = NoRes
    <3>1. reservations[c][id] = NoRes
      BY <2>1 DEF IInv, ChanInv, TableSound
    <3> QED
      BY <2>1, <3>1, ReleaseSound
  <2>5. /\ [L EXCEPT ![id] = new] \in Table
        /\ Reserved([L EXCEPT ![id] = new]) = ReservedAfterRelease(c) + gross
    <3>1. Remain(NoRes) = 0 /\ Remain(new) = gross
      BY <2>3, NoneAssumption DEF Remain
    <3>2. Reserved([L EXCEPT ![id] = new]) = Reserved(L) - Remain(L[id]) + Remain(new)
      BY <2>1, <2>3, <2>4, ReservedUpdate
    <3>3. Reserved(L) = ReservedAfterRelease(c) /\ ReservedAfterRelease(c) \in Nat
      BY ReleaseSound
    <3>4. [L EXCEPT ![id] = new] \in Table
      BY <2>1, <2>3, <2>4, ReservedUpdate
    <3> QED
      BY <2>2, <2>4, <3>1, <3>2, <3>3, <3>4
  <2>6. /\ reservations' = [reservations EXCEPT ![c] = [L EXCEPT ![id] = new]]
        /\ reservedAmt' = [reservedAmt EXCEPT ![c] = ReservedAfterRelease(c) + gross]
        /\ reservedNonce' = [reservedNonce EXCEPT ![c] = id]
        /\ caller' = [caller EXCEPT ![t] =
                        [caller[t] EXCEPT !.ready = @ \ {c}, !.made = @ \cup {<<c, id>>}]]
        /\ UNCHANGED <<active, state, link, chain, signed, adding, now>>
    BY <1>2 DEF ReserveLocked, external
  <2>7. CallsSettle
    <3> DEFINE Pairs == Chan \X Id
               made  == caller[t].made \cup {<<c, id>>}
    <3>0. made \in SUBSET Pairs
      BY <1>1, <2>1 DEF ReserveCall
    <3>1. [caller[t] EXCEPT !.ready = @ \ {c}, !.made = @ \cup {<<c, id>>}] \in ReserveCall
      <4>1. caller[t] \in [pc : {"reserve"}, petty : 1 .. MaxPetty, terms : Offers, deadline : Nat,
                            todo : SUBSET Chan, ready : SUBSET Chan, made : SUBSET Pairs]
        BY <1>1 DEF ReserveCall
      <4> HIDE DEF Pairs, made
      <4>2. [caller[t] EXCEPT !.ready = @ \ {c}, !.made = made]
               \in [pc : {"reserve"}, petty : 1 .. MaxPetty, terms : Offers, deadline : Nat,
                    todo : SUBSET Chan, ready : SUBSET Chan, made : SUBSET Pairs]
        BY <3>0, <4>1
      <4> QED
        BY <4>2 DEF ReserveCall, Pairs, made
    <3> QED
      BY <1>1, <2>6, <3>1 DEF CallsSettle, IInv, TypeOK, ReserveCall
  <2>8. TypeOK'
    <3>1. /\ reservations' \in [Chan -> Table]
          /\ reservedAmt' \in [Chan -> Int]
          /\ reservedNonce' \in [Chan -> 0 .. MaxRes]
      <4>1. /\ reservations \in [Chan -> Table] /\ reservedAmt \in [Chan -> Int]
            /\ reservedNonce \in [Chan -> 0 .. MaxRes]
        BY DEF IInv, TypeOK, Table
      <4>2. ReservedAfterRelease(c) + gross \in Int /\ id \in 0 .. MaxRes
        BY <2>1, <2>2, BoundsAssumption, ReleaseSound DEF Id
      <4> HIDE DEF gross, id, L, new
      <4> QED
        BY <2>5, <2>6, <4>1, <4>2
    <3> QED
      BY <2>6, <2>7, <3>1 DEF IInv, TypeOK, CallsSettle, Table
  <2>9. ChanInv(c)'
    <3>1. /\ reservations'[c] = [L EXCEPT ![id] = new]
          /\ reservedAmt'[c] = ReservedAfterRelease(c) + gross
          /\ reservedNonce'[c] = id
      BY <2>6 DEF IInv, TypeOK
    <3>2. ChanInv(c) /\ state[c].loss = NoVoucher
      BY <1>2 DEF IInv, Wins, CanReserve
    <3>3. TableSound(c)'
      <4>1. LedgerExact(new.terms, new.paid)
        BY DEF LedgerExact, NothingPaid
      <4>2. ASSUME NEW i \in Id
            PROVE  /\ i > reservedNonce'[c] => reservations'[c][i] = NoRes
                   /\ reservations'[c][i] # NoRes =>
                        LedgerExact(reservations'[c][i].terms, reservations'[c][i].paid)
        <5>1. CASE i = id
          BY <2>1, <2>4, <3>1, <4>1, <5>1 DEF Table, Id
        <5>2. CASE i # id
          <6>1. reservations'[c][i] = L[i]
            BY <2>4, <3>1, <5>2 DEF Table
          <6>2. L[i] # NoRes => L[i] = reservations[c][i]
            BY ReleaseSound
          <6>3. i > id => i > reservedNonce[c]
            BY <2>1, BoundsAssumption DEF Id
          <6> QED
            BY <3>1, <3>2, <6>1, <6>2, <6>3 DEF ChanInv, TableSound
        <5> QED
          BY <5>1, <5>2
      <4> QED
        BY <4>2 DEF TableSound
    <3>4. LossSound(c)' /\ VouchersSound(c)' /\ AddingSound(c)'
      BY <2>6, <3>2 DEF ChanInv, LossSound, VouchersSound, AddingSound
    <3>5. Covered(c)'
      <4>1. state[c].balance \in Nat /\ state[c].redeemed \in Nat
        BY DEF IInv, TypeOK, State
      <4>2. state[c].balance - (ReservedAfterRelease(c) + state[c].redeemed) >= gross
        BY <1>2 DEF Wins, CanReserve, Available
      <4> QED
        BY <2>2, <2>6, <3>1, <4>1, <4>2, ReleaseSound DEF Covered
    <3> QED
      BY <2>5, <2>6, <3>1, <3>2, <3>3, <3>4, <3>5 DEF ChanInv
  <2>10. ASSUME NEW d \in Chan, d # c
         PROVE  /\ ChanInv(d)'
                /\ reservedAmt'[d] = reservedAmt[d] /\ reservations'[d] = reservations[d]
    <3>1. /\ reservedAmt'[d] = reservedAmt[d] /\ reservations'[d] = reservations[d]
          /\ reservedNonce'[d] = reservedNonce[d]
      BY <2>6, <2>10 DEF IInv, TypeOK
    <3> QED
      BY <2>6, <3>1, ChanKept DEF IInv
  <2>11. (\A u \in Caller : CallInv(u)') /\ OneHolder'
    <3>1. \A u \in Caller : caller[u].pc = "pending" => caller[u].ch \in Chan \ {c}
      BY <1>1, FreeChannel, PendingCallType DEF IInv, PendingCall
    <3> QED
      BY <2>6, <2>7, <2>10, <3>1, CallsSettleInv
  <2> QED
    BY <2>8, <2>9, <2>10, <2>11 DEF IInv
<1>3. CASE ~wins
  <2>1. caller' = [caller EXCEPT ![t] = [caller[t] EXCEPT !.ready = @ \ {c}]]
    BY <1>3 DEF ReserveLocked
  <2> DEFINE r == [caller[t] EXCEPT !.ready = @ \ {c}]
  <2>2. /\ r \in ReserveCall /\ r.pc = "reserve"
        /\ r.todo \subseteq active /\ r.ready \subseteq active
    BY <1>1 DEF ReserveCall
  <2> HIDE DEF r
  <2>3. CallsSettle
    BY <2>1, <2>2 DEF CallsSettle, IInv, TypeOK, r
  <2>4. CASE state[c].loss = NoVoucher
    <3>1. ReleaseExpired(c) /\ UNCHANGED <<active, state, reservedNonce, link, external, now>>
      BY <1>3, <2>4 DEF ReserveLocked
    <3> QED
      BY <1>1, <2>3, <3>1, ReleaseStep
  <2>5. CASE state[c].loss # NoVoucher
    <3>1. UNCHANGED <<cached, external, now>>
      BY <1>3, <2>5 DEF ReserveLocked, cached
    <3>2. caller' = [caller EXCEPT ![t] = r]
      BY <2>1 DEF r
    <3> QED
      BY <2>2, <3>1, <3>2, CallStep
  <2> QED
    BY <2>4, <2>5
<1> QED
  BY <1>2, <1>3

-----------------------------------------------------------------------------
(* Steps that change the state of a free channel and nothing of its         *)
(* reservations.                                                            *)
LEMMA StateStep ==
  ASSUME IInv, NEW c \in Chan, c \in active, ~Locked(c), NEW s \in State,
         state' = [state EXCEPT ![c] = s],
         UNCHANGED <<active, reservedAmt, reservedNonce, reservations, link, caller, external, now>>,
         s.loss # NoVoucher => /\ s.loss = state[c].loss
                               /\ s.nonce = state[c].nonce
                               /\ s.redeemed = state[c].redeemed,
         reservedAmt[c] > 0 => reservedAmt[c] + s.redeemed <= s.balance,
         s.redeemed <= chain[c].balance, s.balance <= chain[c].balance
  PROVE  IInv'
<1>1. TypeOK'
  BY DEF IInv, TypeOK, external
<1>2. state'[c] = s /\ \A d \in Chan \ {c} : state'[d] = state[d]
  BY DEF IInv, TypeOK
<1>3. ChanInv(c)'
  <2>1. ChanInv(c)
    BY DEF IInv
  <2>2. TableSound(c)'
    BY <2>1 DEF ChanInv, TableSound
  <2>3. LossSound(c)'
    BY <1>2, <2>1 DEF ChanInv, LossSound, external
  <2>4. VouchersSound(c)' /\ AddingSound(c)'
    BY <2>1 DEF ChanInv, VouchersSound, AddingSound, external
  <2>5. Covered(c)'
    BY <1>2 DEF Covered
  <2> QED
    BY <1>2, <2>1, <2>2, <2>3, <2>4, <2>5 DEF ChanInv, external
<1>4. ASSUME NEW d \in Chan, d # c
      PROVE  ChanInv(d)'
  BY <1>2, <1>4, ChanKept DEF IInv, external
<1>5. (\A u \in Caller : CallInv(u)') /\ OneHolder'
  <2>1. \A u \in Caller : caller[u].pc = "pending" => caller[u].ch \in Chan \ {c}
    BY FreeChannel, PendingCallType DEF IInv, PendingCall
  <2> QED
    BY <1>2, <2>1, StandStill, CallsSettleInv
<1> QED
  BY <1>1, <1>3, <1>4, <1>5 DEF IInv

(* A state is the record of its five fields.                                *)
LEMMA StateFields ==
  ASSUME NEW st \in State
  PROVE  /\ st.balance \in Nat /\ st.redeemed \in Nat /\ st.nonce \in Nat
         /\ st.stateNonce \in Nat /\ st.stateNonce + 1 \in Nat
         /\ st.loss \in Voucher \cup {NoVoucher}
         /\ st = [balance |-> st.balance, redeemed |-> st.redeemed, nonce |-> st.nonce,
                  loss |-> st.loss, stateNonce |-> st.stateNonce]
BY DEF State

(* UpdateOutboundChannelBalance keeps the invariant: the balance on chain   *)
(* is at least the cached one.                                              *)
LEMMA UpdateBalanceInv ==
  ASSUME IInv, NEW c \in Chan, UpdateBalance(c)
  PROVE  IInv'
<1> DEFINE s == [state[c] EXCEPT !.balance = chain[c].balance, !.stateNonce = @ + 1]
<1>1. /\ state[c] \in State /\ chain[c].balance \in Nat
      /\ reservedAmt[c] \in Int /\ state[c].loss \in Voucher \cup {NoVoucher}
  BY DEF IInv, TypeOK, State
<1>2. s \in State /\ s.balance = chain[c].balance /\ s.redeemed = state[c].redeemed
                  /\ s.nonce = state[c].nonce /\ s.loss = state[c].loss
  <2> DEFINE st == state[c]
             k  == st.stateNonce + 1
             b  == chain[c].balance
  <2>1. /\ b \in Nat /\ k \in Nat
        /\ st.redeemed \in Nat /\ st.nonce \in Nat /\ st.loss \in Voucher \cup {NoVoucher}
        /\ st = [balance |-> st.balance, redeemed |-> st.redeemed, nonce |-> st.nonce,
                 loss |-> st.loss, stateNonce |-> st.stateNonce]
        /\ s = [st EXCEPT !.balance = b, !.stateNonce = k]
    BY <1>1, StateFields
  <2> HIDE DEF s, st, k, b
  <2>2. s = [balance |-> b, redeemed |-> st.redeemed, nonce |-> st.nonce,
             loss |-> st.loss, stateNonce |-> k]
    BY <2>1, Zenon
  <2>3. s \in State /\ s.balance = b /\ s.redeemed = st.redeemed
                    /\ s.nonce = st.nonce /\ s.loss = st.loss
    BY <2>1, <2>2, Zenon DEF State
  <2> QED
    BY <2>3 DEF st, b
<1>3. /\ reservedAmt[c] > 0 => reservedAmt[c] + s.redeemed <= s.balance
      /\ s.redeemed <= chain[c].balance
  <2>1. /\ reservedAmt[c] > 0 => reservedAmt[c] + state[c].redeemed <= state[c].balance
        /\ state[c].balance <= chain[c].balance /\ state[c].redeemed <= chain[c].balance
    BY DEF IInv, ChanInv, Covered
  <2>2. state[c].redeemed \in Nat /\ state[c].balance \in Nat
    BY <1>1 DEF State
  <2> QED
    BY <1>1, <1>2, <2>1, <2>2
<1>4. /\ state' = [state EXCEPT ![c] = s] /\ c \in active /\ ~Locked(c)
      /\ UNCHANGED <<active, reservedAmt, reservedNonce, reservations, link, caller, external, now>>
  BY DEF UpdateBalance
<1>5. s.balance <= chain[c].balance
  BY <1>1, <1>2
<1> HIDE DEF s
<1> QED
  BY <1>2, <1>3, <1>4, <1>5, StateStep

(* BearNetworkLoss keeps the invariant: the loss was a voucher the channel  *)
(* covers.                                                                  *)
LEMMA BearNetworkLossInv ==
  ASSUME IInv, NEW c \in Chan, BearNetworkLoss(c)
  PROVE  IInv'
<1> DEFINE s == [state[c] EXCEPT !.redeemed = state[c].loss.redeemed, !.nonce = state[c].loss.nonce,
                                 !.loss = NoVoucher, !.stateNonce = @ + 1]
<1>1. state[c] \in State /\ state[c].loss \in Voucher
  BY DEF IInv, TypeOK, State, BearNetworkLoss
<1>2. s \in State /\ s.loss = NoVoucher /\ s.balance = state[c].balance
      /\ s.redeemed = state[c].loss.redeemed
  <2> DEFINE st == state[c]
             k  == st.stateNonce + 1
             v  == st.loss
  <2>1. /\ v.redeemed \in Nat /\ v.nonce \in Nat /\ k \in Nat /\ st.balance \in Nat
        /\ NoVoucher \in Voucher \cup {NoVoucher}
        /\ st = [balance |-> st.balance, redeemed |-> st.redeemed, nonce |-> st.nonce,
                 loss |-> st.loss, stateNonce |-> st.stateNonce]
        /\ s = [st EXCEPT !.redeemed = v.redeemed, !.nonce = v.nonce,
                          !.loss = NoVoucher, !.stateNonce = k]
    BY <1>1, StateFields DEF Voucher
  <2> HIDE DEF s, st, k, v
  <2>2. s = [balance |-> st.balance, redeemed |-> v.redeemed, nonce |-> v.nonce,
             loss |-> NoVoucher, stateNonce |-> k]
    BY <2>1, Zenon
  <2>3. s \in State /\ s.balance = st.balance /\ s.redeemed = v.redeemed /\ s.loss = NoVoucher
    BY <2>1, <2>2, Zenon DEF State
  <2> QED
    BY <2>3 DEF st, v
<1>3. reservedAmt[c] = 0
  BY ReservedNone DEF IInv, ChanInv, LossSound, BearNetworkLoss
<1>4. state[c].loss.redeemed <= chain[c].balance
  BY DEF IInv, ChanInv, LossSound, VouchersSound, BearNetworkLoss
<1>5. /\ state' = [state EXCEPT ![c] = s] /\ c \in active /\ ~Locked(c)
      /\ UNCHANGED <<active, reservedAmt, reservedNonce, reservations, link, caller, external, now>>
  BY DEF BearNetworkLoss
<1>6. /\ state[c].balance \in Nat /\ state[c].loss.redeemed \in Nat
      /\ state[c].balance <= chain[c].balance
  BY <1>1 DEF IInv, ChanInv, State, Voucher
<1>7. reservedAmt[c] > 0 => reservedAmt[c] + s.redeemed <= s.balance
  BY <1>3
<1>8. s.redeemed <= chain[c].balance /\ s.balance <= chain[c].balance
  BY <1>2, <1>4, <1>6
<1> HIDE DEF s
<1> QED
  BY <1>2, <1>5, <1>7, <1>8, StateStep

(* A channel that enters or leaves under the recipient's write lock.        *)
LEMMA InstallStep ==
  ASSUME IInv, NEW c \in Chan, NEW s \in State, Install(c, s), PeerUnlocked,
         UNCHANGED <<caller, chain, signed, now>>,
         adding' \subseteq adding,
         active' \in SUBSET Chan, \A d \in Chan \ {c} : d \in active' => d \in active,
         link' \in BOOLEAN,
         s.loss = NoVoucher, s.redeemed <= s.balance, s.balance <= chain[c].balance
  PROVE  IInv'
<1>1. /\ state'[c] = s /\ reservedAmt'[c] = 0 /\ reservations'[c] = NoReservations
      /\ \A d \in Chan \ {c} :
             /\ state'[d] = state[d] /\ reservedAmt'[d] = reservedAmt[d]
             /\ reservedNonce'[d] = reservedNonce[d] /\ reservations'[d] = reservations[d]
  BY DEF IInv, TypeOK, Install
<1>2. TypeOK'
  <2>1. /\ state' \in [Chan -> State] /\ reservedAmt' \in [Chan -> Int]
        /\ reservedNonce' \in [Chan -> 0 .. MaxRes]
        /\ reservations' \in [Chan -> Table]
    BY ReservedNone, BoundsAssumption DEF IInv, TypeOK, Install, Table
  <2> QED
    BY <2>1 DEF IInv, TypeOK, Table
<1>3. ChanInv(c)'
  <2>1. ChanInv(c)
    BY DEF IInv
  <2>2. TableSound(c)'
    BY <1>1 DEF TableSound, NoReservations
  <2>3. LossSound(c)' /\ VouchersSound(c)' /\ AddingSound(c)'
    BY <1>1, <2>1 DEF ChanInv, LossSound, VouchersSound, AddingSound
  <2>4. s.redeemed \in Nat /\ s.balance \in Nat /\ chain[c].balance \in Nat
    BY DEF State, IInv, TypeOK
  <2> QED
    BY <1>1, <2>1, <2>2, <2>3, <2>4, ReservedNone DEF ChanInv, Covered
<1>4. ASSUME NEW d \in Chan, d # c
      PROVE  ChanInv(d)'
  BY <1>1, <1>4, ChanKept DEF IInv
<1>5. \A u \in Caller : caller'[u] = Idle
  BY DEF PeerUnlocked
<1>6. (\A u \in Caller : CallInv(u)') /\ OneHolder'
  BY <1>5 DEF CallInv, OneHolder, Idle
<1> QED
  BY <1>2, <1>3, <1>4, <1>6 DEF IInv

(* AddOutboundChannel keeps the invariant, whatever has happened since it   *)
(* looked at the chain.                                                     *)
LEMMA AddLockedInv ==
  ASSUME IInv, NEW a \in adding, AddLocked(a)
  PROVE  IInv'
<1> DEFINE c    == a.ch
           seen == a.seen
           s    == [NoState EXCEPT !.balance = seen.balance, !.redeemed = seen.redeemed]
<1>1. /\ c \in Chan /\ seen \in [balance : Nat, redeemed : Nat]
      /\ seen.redeemed <= seen.balance /\ seen.balance <= chain[c].balance
  BY DEF IInv, TypeOK, ChanInv, AddingSound
<1>2. /\ s \in State /\ s.loss = NoVoucher
      /\ s.redeemed = seen.redeemed /\ s.balance = seen.balance
  BY <1>1 DEF State, NoState
<1>3. /\ Install(c, s) /\ PeerUnlocked /\ active' = active \cup {c}
      /\ UNCHANGED <<caller, chain, signed, now>> /\ adding' \subseteq adding
  BY DEF AddLocked, AddEnds
<1>4. active' \in SUBSET Chan /\ link' \in BOOLEAN
  BY <1>1, <1>3 DEF IInv, TypeOK, AddLocked
<1> HIDE DEF c, seen, s
<1> QED
  BY <1>1, <1>2, <1>3, <1>4, InstallStep

(* RetireOutboundChannel keeps the invariant.                               *)
LEMMA RetireInv ==
  ASSUME IInv, NEW c \in Chan, Retire(c)
  PROVE  IInv'
<1>1. NoState \in State /\ NoState.loss = NoVoucher /\ NoState.redeemed = 0 /\ NoState.balance = 0
  BY DEF State, NoState
<1>2. 0 <= chain[c].balance
  BY DEF IInv, TypeOK
<1>3. /\ Install(c, NoState) /\ PeerUnlocked /\ active' = active \ {c}
      /\ UNCHANGED <<caller, external, now>>
  BY DEF Retire
<1>4. active' \in SUBSET Chan /\ link' \in BOOLEAN
  BY DEF IInv, TypeOK, Retire, LinkAfterRetire
<1> QED
  BY <1>1, <1>2, <1>3, <1>4, InstallStep DEF external

(* A call of AddOutboundChannel that has looked at the chain, or gives up.  *)
LEMMA AddingInv ==
  ASSUME IInv, (\E c \in Chan : AddBegin(c)) \/ (\E a \in adding : AddQuit(a))
  PROVE  IInv'
<1>1. UNCHANGED <<cached, caller, chain, signed, now>>
  BY DEF AddBegin, AddQuit
<1>2. \A a \in adding' : a \in adding \/ \E c \in Chan : a = [ch |-> c, seen |-> chain[c]]
  BY DEF AddBegin, AddQuit, AddEnds
<1>3. TypeOK'
  BY <1>1, <1>2 DEF IInv, TypeOK, cached
<1>4. ASSUME NEW d \in Chan
      PROVE  ChanInv(d)'
  <2>1. ChanInv(d) /\ chain[d].balance \in Nat
    BY DEF IInv, TypeOK
  <2>2. TableSound(d)' /\ LossSound(d)' /\ VouchersSound(d)' /\ Covered(d)'
    BY <1>1, <2>1 DEF ChanInv, TableSound, LossSound, VouchersSound, Covered, cached
  <2>3. AddingSound(d)'
    BY <1>1, <1>2, <2>1 DEF ChanInv, AddingSound
  <2> QED
    BY <1>1, <2>1, <2>2, <2>3 DEF ChanInv, cached
<1>5. (\A u \in Caller : CallInv(u)') /\ OneHolder'
  BY <1>1, StandStill, CallsSettleInv DEF cached
<1> QED
  BY <1>3, <1>4, <1>5 DEF IInv

(* What happens on chain only ever raises the balance of a channel, and     *)
(* redeems no more than a voucher that was signed.                          *)
LEMMA ChainInv ==
  ASSUME IInv, NEW c \in Chan,
         (\E b \in Funds : Topup(c, b)) \/ (\E v \in signed[c] : Submit(c, v))
  PROVE  IInv'
<1>1. /\ chain[c] \in [balance : Nat, redeemed : Nat] /\ chain[c].redeemed <= chain[c].balance
      /\ state[c].balance \in Nat /\ state[c].redeemed \in Nat /\ ChanInv(c)
      /\ \A v \in signed[c] : v.redeemed \in Nat /\ v.redeemed <= chain[c].balance
  BY DEF IInv, TypeOK, ChanInv, VouchersSound, State, Voucher
<1>2. PICK h \in [balance : Nat, redeemed : Nat] :
         /\ chain' = [chain EXCEPT ![c] = h]
         /\ chain[c].balance <= h.balance /\ h.redeemed <= h.balance
  <2>1. CASE \E b \in Funds : Topup(c, b)
    <3>0. PICK b \in Funds : Topup(c, b)
      BY <2>1
    <3> DEFINE h == [chain[c] EXCEPT !.balance = b]
    <3>1. chain' = [chain EXCEPT ![c] = h] /\ b > chain[c].balance /\ b \in Nat
      BY <3>0, BoundsAssumption DEF Topup
    <3>2. /\ h \in [balance : Nat, redeemed : Nat]
          /\ chain[c].balance <= h.balance /\ h.redeemed <= h.balance
      BY <1>1, <3>1
    <3> QED
      BY <3>1, <3>2
  <2>2. CASE \E v \in signed[c] : Submit(c, v)
    <3>1. PICK v \in signed[c] : Submit(c, v)
      BY <2>2
    <3> DEFINE h == [chain[c] EXCEPT !.redeemed = v.redeemed]
    <3>2. chain' = [chain EXCEPT ![c] = h]
      BY <3>1 DEF Submit
    <3>3. /\ h \in [balance : Nat, redeemed : Nat]
          /\ chain[c].balance <= h.balance /\ h.redeemed <= h.balance
      BY <1>1
    <3> QED
      BY <3>2, <3>3
  <2> QED
    BY <2>1, <2>2
<1>3. UNCHANGED <<cached, caller, now, signed, adding>>
  BY DEF Topup, Submit
<1>4. chain'[c] = h /\ \A d \in Chan \ {c} : chain'[d] = chain[d]
  BY <1>2 DEF IInv, TypeOK
<1>5. TypeOK'
  BY <1>2, <1>3 DEF IInv, TypeOK, cached
<1>6. ChanInv(c)'
  <2>1. TableSound(c)' /\ LossSound(c)' /\ Covered(c)'
    BY <1>1, <1>3 DEF ChanInv, TableSound, LossSound, Covered, cached
  <2>2. VouchersSound(c)'
    BY <1>1, <1>2, <1>3, <1>4 DEF ChanInv, VouchersSound, cached
  <2>3. AddingSound(c)'
    <3>1. \A a \in adding : a.seen.balance \in Nat
      BY DEF IInv, TypeOK
    <3> QED
      BY <1>1, <1>2, <1>3, <1>4, <3>1 DEF ChanInv, AddingSound, cached
  <2> QED
    BY <1>1, <1>2, <1>3, <1>4, <2>1, <2>2, <2>3 DEF ChanInv, cached
<1>7. ASSUME NEW d \in Chan, d # c
      PROVE  ChanInv(d)'
  BY <1>3, <1>4, <1>7, ChanKept DEF IInv, cached
<1>8. (\A u \in Caller : CallInv(u)') /\ OneHolder'
  BY <1>3, StandStill, CallsSettleInv DEF cached
<1> QED
  BY <1>5, <1>6, <1>7, <1>8 DEF IInv

(* The invariant does not depend on the time.                               *)
LEMMA TickInv ==
  ASSUME IInv, Tick
  PROVE  IInv'
<1>1. TypeOK'
  BY DEF IInv, TypeOK, Tick, cached, external
<1>2. ASSUME NEW d \in Chan
      PROVE  ChanInv(d)'
  BY ChanKept DEF IInv, Tick, cached, external
<1>3. (\A u \in Caller : CallInv(u)') /\ OneHolder'
  BY StandStill, CallsSettleInv DEF Tick, cached
<1> QED
  BY <1>1, <1>2, <1>3 DEF IInv

-----------------------------------------------------------------------------
(* Pay, under the write lock: the voucher is covered, and what commit will  *)
(* write fits what is there.                                                *)
LEMMA PayLockedStep ==
  ASSUME IInv, NEW t \in Caller, PayLocked(t),
         NEW c \in Chan, NEW id \in Id, NEW petty \in 1 .. MaxPetty,
         caller[t].ch = c, caller[t].id = id, caller[t].petty = petty
  PROVE  IInv'
<1> DEFINE r     == reservations[c][id]
           L     == Live(reservations[c])
           price == PriceOf(r, petty)
           gross == price.gross
           paid  == [petty |-> price.petty, surcharge |-> price.surcharge]
           next  == [r EXCEPT !.paid = paid, !.remain = @ - gross]
           v     == [nonce |-> state[c].nonce + 1, redeemed |-> state[c].redeemed + gross]
           st    == [state[c] EXCEPT !.redeemed = v.redeemed, !.nonce = v.nonce, !.stateNonce = @ + 1]
           res   == IF next.remain = 0 THEN NoRes ELSE next
           after == [res |-> res, reserved |-> ReservedAfterRelease(c) - gross, state |-> st]
           call  == [pc |-> "pending", ch |-> c, id |-> id, after |-> after]
<1>1. /\ c \in active /\ ~Locked(c) /\ state[c] \in State /\ caller[t].pc = "pay"
  BY DEF PayLocked, IInv, TypeOK, CallInv
<1>2. /\ ReleaseExpired(c)
      /\ signed' = [signed EXCEPT ![c] = @ \cup {v}]
      /\ caller' = [caller EXCEPT ![t] = call]
      /\ UNCHANGED <<active, state, reservedNonce, link, chain, adding, now>>
      /\ state[c].loss = NoVoucher /\ r # NoRes /\ ~Expired(r) /\ gross <= r.remain
  BY DEF PayLocked, CanPay
<1>3. /\ r \in Reservation /\ L[id] = r /\ r.terms \in Offers /\ r.paid \in Ledger
      /\ r.remain \in Nat /\ r.deadline \in Nat /\ LedgerExact(r.terms, r.paid)
  <2>1. r \in Reservation /\ L[id] = r
    BY <1>1, <1>2 DEF IInv, TypeOK, Live
  <2>2. LedgerExact(r.terms, r.paid)
    BY <1>1, <1>2 DEF IInv, ChanInv, TableSound
  <2> QED
    BY <2>1, <2>2 DEF Reservation
<1>4. gross \in Nat /\ paid \in Ledger /\ LedgerExact(r.terms, paid)
  <2>1. petty \in Nat \ {0}
    BY BoundsAssumption
  <2>2. r.terms.ppp \in Nat /\ r.terms.period \in Nat /\ LegalTerms(r.terms)
    BY <1>3, OffersAssumption
  <2> QED
    BY <1>3, <2>1, <2>2, GrossToPayLemma DEF PriceOf, Ledger
<1> HIDE DEF price, gross, paid
<1>5. /\ next \in Reservation /\ next.remain = r.remain - gross
      /\ next.terms = r.terms /\ next.paid = paid
  <2> DEFINE rest == r.remain - gross
  <2>1. rest \in Nat
    <3> HIDE DEF r
    <3> QED
      BY <1>2, <1>3, <1>4
  <2>2. next = [r EXCEPT !.paid = paid, !.remain = rest]
    OBVIOUS
  <2>3. r = [terms |-> r.terms, paid |-> r.paid, remain |-> r.remain, deadline |-> r.deadline]
    BY <1>3 DEF Reservation
  <2> HIDE DEF r, rest, next
  <2>4. next = [terms |-> r.terms, paid |-> paid, remain |-> rest, deadline |-> r.deadline]
    BY <2>2, <2>3, Zenon
  <2>5. next \in Reservation /\ next.remain = rest /\ next.terms = r.terms /\ next.paid = paid
    BY <1>3, <1>4, <2>1, <2>4, Zenon DEF Reservation
  <2> QED
    BY <2>5 DEF rest
<1>6. /\ res \in Reservation \cup {NoRes}
      /\ Remain(r) = r.remain /\ Remain(r) = gross + Remain(res)
      /\ res # NoRes => LedgerExact(res.terms, res.paid)
  <2>1. Remain(NoRes) = 0 /\ Remain(r) = r.remain /\ Remain(next) = next.remain
    BY <1>2, <1>5, NoneAssumption DEF Remain
  <2> HIDE DEF next, r
  <2>2. CASE next.remain = 0
    BY <1>2, <1>3, <1>4, <1>5, <2>1, <2>2
  <2>3. CASE next.remain # 0
    BY <1>2, <1>3, <1>4, <1>5, <2>1, <2>3
  <2> QED
    BY <2>2, <2>3
<1>7. /\ v \in Voucher /\ v.nonce = state[c].nonce + 1
      /\ v.redeemed = state[c].redeemed + gross
      /\ state[c].redeemed \in Nat /\ state[c].nonce \in Nat /\ state[c].balance \in Nat
  <2>1. /\ state[c].redeemed \in Nat /\ state[c].nonce \in Nat /\ state[c].balance \in Nat
    BY <1>1 DEF State
  <2> QED
    BY <1>4, <2>1 DEF Voucher
<1>8. st \in State /\ st.redeemed = v.redeemed /\ st.loss = state[c].loss
  <2> DEFINE old == state[c]
             k   == old.stateNonce + 1
             red == v.redeemed
             n   == v.nonce
  <2>1. /\ red \in Nat /\ n \in Nat /\ k \in Nat /\ old.balance \in Nat
        /\ old.loss \in Voucher \cup {NoVoucher}
        /\ old = [balance |-> old.balance, redeemed |-> old.redeemed, nonce |-> old.nonce,
                  loss |-> old.loss, stateNonce |-> old.stateNonce]
        /\ st = [old EXCEPT !.redeemed = red, !.nonce = n, !.stateNonce = k]
    BY <1>1, <1>4, <1>7, StateFields
  <2> HIDE DEF st, old, k, red, n
  <2>2. st = [balance |-> old.balance, redeemed |-> red, nonce |-> n,
              loss |-> old.loss, stateNonce |-> k]
    BY <2>1, Zenon
  <2>3. st \in State /\ st.redeemed = red /\ st.loss = old.loss
    BY <2>1, <2>2, Zenon DEF State
  <2> QED
    BY <2>3 DEF red, old
<1>9. after \in [res : Reservation \cup {NoRes}, reserved : Int, state : State]
  <2>1. ReservedAfterRelease(c) - gross \in Int
    BY <1>1, <1>4, ReleaseSound
  <2> HIDE DEF res, st
  <2> QED
    BY <1>6, <1>8, <2>1
<1>10. call \in PendingCall
  <2> HIDE DEF after
  <2> QED
    BY <1>1, <1>9 DEF PendingCall
<1>11. /\ reservations' \in [Chan -> Table] /\ reservedAmt' \in [Chan -> Int]
       /\ \A d \in Chan \ {c} : /\ reservations'[d] = reservations[d]
                                 /\ reservedAmt'[d] = reservedAmt[d]
       /\ reservations'[c] = L /\ reservedAmt'[c] = ReservedAfterRelease(c)
  <2>1. reservations'[c] = L /\ reservedAmt'[c] = ReservedAfterRelease(c)
    BY <1>1, <1>2 DEF ReleaseExpired, IInv, TypeOK
  <2> HIDE DEF L
  <2> QED
    BY <1>1, <1>2, <2>1, ReleaseType
<1>12. /\ caller'[t] = call
       /\ \A u \in Caller : u # t => caller'[u] = caller[u]
  <2> HIDE DEF call
  <2> QED
    BY <1>2 DEF IInv, TypeOK
<1>13. /\ signed'[c] = signed[c] \cup {v}
       /\ \A d \in Chan \ {c} : signed'[d] = signed[d]
       /\ signed' \in [Chan -> SUBSET Voucher]
  <2> HIDE DEF v
  <2> QED
    BY <1>1, <1>2, <1>7 DEF IInv, TypeOK
<1>14. TypeOK'
  <2>1. caller' \in [Caller -> {Idle} \cup ReserveCall \cup PayCall \cup PendingCall]
    <3> HIDE DEF call
    <3> QED
      BY <1>2, <1>10 DEF IInv, TypeOK
  <2> QED
    BY <1>2, <1>11, <1>13, <2>1 DEF IInv, TypeOK, Table
<1>15. v.redeemed <= chain[c].balance
  <2>1. L \in Table /\ ReservedAfterRelease(c) = Reserved(L) /\ ReservedAfterRelease(c) <= reservedAmt[c]
    BY <1>1, ReleaseSound
  <2>2. /\ Reserved(L) = Cardinality(Others(L, id)) + Remain(L[id])
        /\ Cardinality(Others(L, id)) \in Nat
    BY <1>1, <2>1, ReservedAt
  <2>3. /\ reservedAmt[c] > 0 => reservedAmt[c] + state[c].redeemed <= state[c].balance
        /\ state[c].balance <= chain[c].balance /\ state[c].redeemed <= chain[c].balance
        /\ reservedAmt[c] \in Int /\ chain[c].balance \in Nat
    BY <1>1 DEF IInv, ChanInv, Covered, TypeOK
  <2>4. Remain(L[id]) = r.remain
    BY <1>3, <1>6
  <2> HIDE DEF L, r, v
  <2> QED
    BY <1>2, <1>3, <1>4, <1>7, <2>1, <2>2, <2>3, <2>4
<1>16. ChanInv(c)'
  <2>1. VouchersSound(c)'
    <3> HIDE DEF v
    <3> QED
      BY <1>1, <1>2, <1>13, <1>15 DEF IInv, ChanInv, VouchersSound
  <2>2. signed[c] \subseteq signed'[c] /\ AddingSound(c)'
    BY <1>1, <1>2, <1>13 DEF IInv, ChanInv, AddingSound
  <2> QED
    BY <1>2, <2>1, <2>2, ReleaseInv
<1>17. ASSUME NEW d \in Chan, d # c
       PROVE  ChanInv(d)'
  BY <1>2, <1>11, <1>13, <1>17, ChanKept DEF IInv
<1>18. CallInv(t)'
  <2>1. call.pc = "pending" /\ call.ch = c /\ call.id = id /\ call.after = after
    BY Zenon
  <2>2. after.res = res /\ after.reserved = ReservedAfterRelease(c) - gross /\ after.state = st
    BY Zenon
  <2>3. v.redeemed - state[c].redeemed = gross
    BY <1>4, <1>7
  <2>4. st = [state[c] EXCEPT !.redeemed = st.redeemed, !.nonce = @ + 1, !.stateNonce = @ + 1]
    BY <1>7, <1>8
  <2> HIDE DEF call, after, st, res, v
  <2>5. Fresh(t)'
    <3>1. /\ caller'[t].ch = c /\ caller'[t].id = id /\ caller'[t].after = after
          /\ reservations'[c][id] = r /\ state'[c] = state[c]
      BY <1>2, <1>3, <1>11, <1>12, <2>1
    <3>2. /\ c \in active' /\ gross >= 0 /\ r # NoRes
          /\ st.redeemed - state[c].redeemed = gross
          /\ after.reserved = reservedAmt'[c] - gross
          /\ Remain(r) = gross + Remain(after.res)
      BY <1>1, <1>2, <1>4, <1>6, <1>8, <1>11, <2>2, <2>3
    <3> HIDE DEF r
    <3> QED
      BY <2>2, <2>4, <3>1, <3>2, Zenon DEF Fresh
  <2> QED
    BY <1>2, <1>6, <1>12, <2>1, <2>2, <2>5 DEF CallInv
<1>19. \A u \in Caller : caller[u].pc = "pending" => caller[u].ch \in Chan \ {c}
  BY <1>1, FreeChannel, PendingCallType DEF IInv, PendingCall
<1>20. ASSUME NEW u \in Caller, u # t
       PROVE  CallInv(u)'
  BY <1>2, <1>11, <1>12, <1>19, <1>20, CallKept DEF IInv
<1>21. OneHolder'
  <2>1. call.pc = "pending" /\ call.ch = c
    BY Zenon
  <2> HIDE DEF call
  <2> QED
    BY <1>12, <1>19, <2>1 DEF IInv, OneHolder
<1>22. (\A d \in Chan : ChanInv(d)') /\ (\A u \in Caller : CallInv(u)')
  BY <1>16, <1>17, <1>18, <1>20
<1> QED
  BY <1>14, <1>21, <1>22 DEF IInv

(* Pay under the write lock keeps the invariant.                            *)
LEMMA PayLockedInv ==
  ASSUME IInv, NEW t \in Caller, PayLocked(t)
  PROVE  IInv'
<1>1. /\ caller[t].ch \in Chan /\ caller[t].id \in Id /\ caller[t].petty \in 1 .. MaxPetty
  BY PayCallType DEF PayLocked, IInv, PayCall
<1> QED
  BY <1>1, PayLockedStep

-----------------------------------------------------------------------------
(* The holder of a channel's lock writes it and lets go.                    *)
LEMMA HolderStep ==
  ASSUME IInv, NEW t \in Caller, caller[t].pc = "pending",
         NEW c \in Chan, caller[t].ch = c,
         NEW s \in State, NEW amount \in Int, NEW table \in Table,
         state' = [state EXCEPT ![c] = s],
         reservedAmt' = [reservedAmt EXCEPT ![c] = amount],
         reservations' = [reservations EXCEPT ![c] = table],
         caller' = [caller EXCEPT ![t] = Idle],
         UNCHANGED <<active, reservedNonce, link, external, now>>,
         ChanInv(c)'
  PROVE  IInv'
<1>1. \A d \in Chan \ {c} : /\ state'[d] = state[d] /\ reservedAmt'[d] = reservedAmt[d]
                            /\ reservations'[d] = reservations[d]
  BY DEF IInv, TypeOK
<1>2. caller'[t] = Idle /\ \A u \in Caller : u # t => caller'[u] = caller[u]
  BY DEF IInv, TypeOK
<1>3. TypeOK'
  BY DEF IInv, TypeOK, external, Table
<1>4. ASSUME NEW d \in Chan, d # c
      PROVE  ChanInv(d)'
  BY <1>1, <1>4, ChanKept DEF IInv, external
<1>5. \A u \in Caller : u # t /\ caller[u].pc = "pending" => caller[u].ch \in Chan \ {c}
  BY PendingCallType DEF IInv, OneHolder, PendingCall
<1>6. ASSUME NEW u \in Caller, u # t
      PROVE  CallInv(u)'
  BY <1>1, <1>2, <1>5, <1>6, CallKept DEF IInv
<1>7. CallInv(t)'
  BY <1>2 DEF CallInv, Idle
<1>8. OneHolder'
  BY <1>2 DEF IInv, OneHolder, Idle
<1> QED
  BY <1>3, <1>4, <1>6, <1>7, <1>8 DEF IInv

(* commit keeps the invariant: what it writes was computed from what it     *)
(* overwrites.                                                              *)
LEMMA CommitStep ==
  ASSUME IInv, NEW t \in Caller, Commit(t),
         NEW c \in Chan, NEW id \in Id, caller[t].ch = c, caller[t].id = id
  PROVE  IInv'
<1> DEFINE a     == caller[t].after
           R     == reservations[c]
           res   == IF a.res = NoRes THEN NoRes ELSE [a.res EXCEPT !.deadline = now + Inactivity]
           table == [R EXCEPT ![id] = res]
           gross == a.state.redeemed - state[c].redeemed
<1>1. /\ caller[t].pc = "pending"
      /\ a.res \in Reservation \cup {NoRes} /\ a.reserved \in Int /\ a.state \in State
      /\ R \in Table /\ state[c] \in State
  BY PendingCallType DEF Commit, IInv, TypeOK, PendingCall, Table
<1>2. /\ c \in active /\ state[c].loss = NoVoucher /\ ChanInv(c)
      /\ a.res # NoRes => LedgerExact(a.res.terms, a.res.paid)
      /\ Fresh(t)
  BY <1>1 DEF IInv, CallInv, Fresh
<1>3. /\ gross >= 0 /\ a.reserved = reservedAmt[c] - gross
      /\ R[id] # NoRes /\ Remain(R[id]) = gross + Remain(a.res)
      /\ a.state.balance = state[c].balance /\ a.state.loss = NoVoucher
  <2>1. /\ gross >= 0 /\ a.reserved = reservedAmt[c] - gross
        /\ R[id] # NoRes /\ Remain(R[id]) = gross + Remain(a.res)
    BY <1>2 DEF Fresh
  <2>2. a.state = [state[c] EXCEPT !.redeemed = a.state.redeemed, !.nonce = @ + 1, !.stateNonce = @ + 1]
    BY <1>2 DEF Fresh
  <2>3. a.state.balance = state[c].balance /\ a.state.loss = state[c].loss
    <3> DEFINE st == a.state
               red == st.redeemed
               n == state[c].nonce + 1
               k == state[c].stateNonce + 1
               old == state[c]
    <3>1. /\ st = [old EXCEPT !.redeemed = red, !.nonce = n, !.stateNonce = k]
          /\ old = [balance |-> old.balance, redeemed |-> old.redeemed, nonce |-> old.nonce,
                    loss |-> old.loss, stateNonce |-> old.stateNonce]
      BY <1>1, <2>2, StateFields
    <3> HIDE DEF st, red, n, k, old
    <3>2. st.balance = old.balance /\ st.loss = old.loss
      BY <3>1, Zenon
    <3> QED
      BY <3>2 DEF st, old
  <2> QED
    BY <1>2, <2>1, <2>3
<1>4. /\ res \in Reservation \cup {NoRes} /\ Remain(res) = Remain(a.res)
      /\ res # NoRes => LedgerExact(res.terms, res.paid)
  <2>1. CASE a.res = NoRes
    BY <2>1
  <2>2. CASE a.res # NoRes
    <3> DEFINE old == a.res
               dl  == now + Inactivity
    <3>1. dl \in Nat
      BY BoundsAssumption DEF IInv, TypeOK
    <3>2. /\ old.terms \in Offers /\ old.paid \in Ledger /\ old.remain \in Nat
          /\ old = [terms |-> old.terms, paid |-> old.paid, remain |-> old.remain,
                    deadline |-> old.deadline]
      BY <1>1, <2>2 DEF Reservation
    <3>3. res = [old EXCEPT !.deadline = dl]
      BY <2>2
    <3> HIDE DEF res, dl, old
    <3>4. res = [terms |-> old.terms, paid |-> old.paid, remain |-> old.remain, deadline |-> dl]
      BY <3>2, <3>3, Zenon
    <3>5. /\ res \in Reservation /\ res.remain = old.remain
          /\ res.terms = old.terms /\ res.paid = old.paid
      BY <3>1, <3>2, <3>4, Zenon DEF Reservation
    <3> QED
      BY <1>2, <2>2, <3>5, NoneAssumption DEF Remain, old
  <2> QED
    BY <2>1, <2>2
<1> HIDE DEF res
<1>5. /\ table \in Table
      /\ Reserved(table) = Reserved(R) - Remain(R[id]) + Remain(res)
      /\ table[id] = res /\ \A i \in Id \ {id} : table[i] = R[i]
  <2>1. table[id] = res /\ \A i \in Id \ {id} : table[i] = R[i]
    BY <1>1 DEF Table
  <2> HIDE DEF R
  <2> QED
    BY <1>1, <1>4, <2>1, ReservedUpdate
<1>6. Reserved(table) = a.reserved
  <2>1. /\ Reserved(R) = reservedAmt[c] /\ Reserved(R) \in Nat
        /\ a.state.redeemed \in Nat /\ state[c].redeemed \in Nat /\ Remain(res) \in Nat
    BY <1>1, <1>2, <1>4, UnitsFinite, StateFields, RemainNat DEF ChanInv
  <2>2. gross \in Int /\ Remain(R[id]) = gross + Remain(res)
    BY <1>3, <1>4, <2>1
  <2> HIDE DEF table, R, gross
  <2> QED
    BY <1>3, <1>5, <2>1, <2>2
<1>7. /\ state' = [state EXCEPT ![c] = a.state]
      /\ reservedAmt' = [reservedAmt EXCEPT ![c] = a.reserved]
      /\ reservations' = [reservations EXCEPT ![c] = table]
      /\ caller' = [caller EXCEPT ![t] = Idle]
      /\ UNCHANGED <<active, reservedNonce, link, external, now>>
  BY DEF Commit, res
<1> HIDE DEF table
<1>8. /\ state'[c] = a.state /\ reservedAmt'[c] = a.reserved /\ reservations'[c] = table
      /\ reservedNonce' = reservedNonce /\ active' = active /\ chain' = chain /\ signed' = signed
      /\ adding' = adding
  BY <1>7 DEF IInv, TypeOK, external
<1>9. ChanInv(c)'
  <2>1. TableSound(c)'
    <3>1. ASSUME NEW i \in Id
          PROVE  /\ i > reservedNonce[c] => table[i] = NoRes
                 /\ table[i] # NoRes => LedgerExact(table[i].terms, table[i].paid)
      <4>1. CASE i = id
        BY <1>2, <1>3, <1>4, <1>5, <4>1 DEF ChanInv, TableSound
      <4>2. CASE i # id
        BY <1>2, <1>5, <4>2 DEF ChanInv, TableSound
      <4> QED
        BY <4>1, <4>2
    <3> QED
      BY <1>8, <3>1 DEF TableSound
  <2>2. LossSound(c)'
    BY <1>3, <1>8 DEF LossSound
  <2>3. VouchersSound(c)' /\ AddingSound(c)'
    BY <1>2, <1>3, <1>8 DEF ChanInv, VouchersSound, AddingSound
  <2>4. Covered(c)' /\ state'[c].redeemed <= chain'[c].balance
    <3>1. /\ reservedAmt[c] \in Int /\ a.state.redeemed \in Nat /\ state[c].redeemed \in Nat
          /\ state[c].balance \in Nat /\ chain[c].balance \in Nat
          /\ reservedAmt[c] > 0 => reservedAmt[c] + state[c].redeemed <= state[c].balance
          /\ state[c].balance <= chain[c].balance /\ state[c].redeemed <= chain[c].balance
      BY <1>1, <1>2, StateFields DEF IInv, TypeOK, ChanInv, Covered
    <3>2. a.reserved \in Nat
      BY <1>5, <1>6, UnitsFinite
    <3> QED
      BY <1>3, <1>8, <3>1, <3>2 DEF Covered
  <2> QED
    BY <1>2, <1>3, <1>6, <1>8, <2>1, <2>2, <2>3, <2>4 DEF ChanInv
<1> HIDE DEF a
<1> QED
  BY <1>1, <1>5, <1>7, <1>9, HolderStep

(* A revert that reports a network loss keeps the invariant: the channel    *)
(* is emptied.                                                              *)
LEMMA RevertWithLossStep ==
  ASSUME IInv, NEW t \in Caller, NEW c \in Chan, caller[t].ch = c,
         NEW v \in signed[c], RevertWithLoss(t, v)
  PROVE  IInv'
<1> DEFINE s == [state[c] EXCEPT !.loss = v, !.stateNonce = @ + 1]
<1>1. /\ caller[t].pc = "pending" /\ state[c] \in State /\ v \in Voucher
      /\ ChanInv(c) /\ c \in active
  BY DEF RevertWithLoss, IInv, TypeOK, CallInv, Fresh
<1>2. /\ s \in State /\ s.balance = state[c].balance /\ s.redeemed = state[c].redeemed
      /\ s.nonce = state[c].nonce /\ s.loss = v
  <2> DEFINE old == state[c]
             k   == old.stateNonce + 1
  <2>1. /\ k \in Nat /\ old.balance \in Nat /\ old.redeemed \in Nat /\ old.nonce \in Nat
        /\ v \in Voucher \cup {NoVoucher}
        /\ old = [balance |-> old.balance, redeemed |-> old.redeemed, nonce |-> old.nonce,
                  loss |-> old.loss, stateNonce |-> old.stateNonce]
        /\ s = [old EXCEPT !.loss = v, !.stateNonce = k]
    BY <1>1, StateFields
  <2> HIDE DEF s, old, k
  <2>2. s = [balance |-> old.balance, redeemed |-> old.redeemed, nonce |-> old.nonce,
             loss |-> v, stateNonce |-> k]
    BY <2>1, Zenon
  <2>3. s \in State /\ s.balance = old.balance /\ s.redeemed = old.redeemed
                    /\ s.nonce = old.nonce /\ s.loss = v
    BY <2>1, <2>2, Zenon DEF State
  <2> QED
    BY <2>3 DEF old
<1>3. /\ state' = [state EXCEPT ![c] = s]
      /\ reservedAmt' = [reservedAmt EXCEPT ![c] = 0]
      /\ reservations' = [reservations EXCEPT ![c] = NoReservations]
      /\ caller' = [caller EXCEPT ![t] = Idle]
      /\ UNCHANGED <<active, reservedNonce, link, external, now>>
      /\ v.nonce > state[c].nonce /\ v.redeemed >= state[c].redeemed
  BY DEF RevertWithLoss
<1> HIDE DEF s
<1>4. /\ state'[c] = s /\ reservedAmt'[c] = 0 /\ reservations'[c] = NoReservations
      /\ active' = active /\ chain' = chain /\ signed' = signed /\ adding' = adding
  BY <1>3 DEF IInv, TypeOK, external
<1>5. ChanInv(c)'
  <2>1. TableSound(c)'
    BY <1>4 DEF TableSound, NoReservations
  <2>2. LossSound(c)'
    BY <1>2, <1>3, <1>4 DEF LossSound
  <2>3. VouchersSound(c)' /\ AddingSound(c)'
    BY <1>1, <1>2, <1>4 DEF ChanInv, VouchersSound, AddingSound
  <2>4. Covered(c)'
    BY <1>4 DEF Covered
  <2> QED
    BY <1>1, <1>2, <1>4, <2>1, <2>2, <2>3, <2>4, ReservedNone DEF ChanInv
<1>6. 0 \in Int /\ NoReservations \in Table
  BY ReservedNone
<1> QED
  BY <1>1, <1>2, <1>3, <1>5, <1>6, HolderStep

(* Every way to end a payment in flight keeps the invariant.                *)
LEMMA HolderInv ==
  ASSUME IInv, NEW t \in Caller,
         Commit(t) \/ \E c \in Chan : \E v \in signed[c] : RevertWithLoss(t, v)
  PROVE  IInv'
<1>1. caller[t].pc = "pending"
  BY DEF Commit, RevertWithLoss
<1>2. caller[t].ch \in Chan /\ caller[t].id \in Id
  BY <1>1, PendingCallType DEF IInv, PendingCall
<1>3. CASE Commit(t)
  BY <1>2, <1>3, CommitStep
<1>4. CASE \E c \in Chan : \E v \in signed[c] : RevertWithLoss(t, v)
  <2>1. PICK v : v \in signed[caller[t].ch] /\ RevertWithLoss(t, v)
    BY <1>4 DEF RevertWithLoss
  <2> QED
    BY <1>2, <2>1, RevertWithLossStep
<1> QED
  BY <1>3, <1>4

(* Every step of the payment manager keeps the invariant.                   *)
LEMMA NextIInv == IInv /\ [Next]_vars => IInv'
<1> SUFFICES ASSUME IInv, [Next]_vars
             PROVE  IInv'
  OBVIOUS
<1>1. ASSUME NEW t \in Caller, Reserving(t)
      PROVE  IInv'
  BY <1>1, ReserveBeginInv, ReserveProbeInv, ReserveLockedInv, ReturnInv DEF Reserving
<1>2. ASSUME NEW t \in Caller, Paying(t)
      PROVE  IInv'
  BY <1>2, PayProbeInv, PayLockedInv, PayRefusedInv, ReturnInv, HolderInv DEF Paying
<1>3. ASSUME NEW c \in Chan,
             \/ Clean(c) \/ UpdateBalance(c) \/ BearNetworkLoss(c)
             \/ AddBegin(c) \/ Retire(c)
             \/ (\E b \in Funds : Topup(c, b)) \/ (\E v \in signed[c] : Submit(c, v))
      PROVE  IInv'
  BY <1>3, CleanInv, UpdateBalanceInv, BearNetworkLossInv, AddingInv, RetireInv, ChainInv
<1>6. ASSUME NEW a \in adding, AddLocked(a) \/ AddQuit(a)
      PROVE  IInv'
  BY <1>6, AddLockedInv, AddingInv
<1>4. CASE Tick
  BY <1>4, TickInv
<1>5. CASE UNCHANGED vars
  <2>1. /\ active' = active /\ state' = state /\ reservedAmt' = reservedAmt
        /\ reservedNonce' = reservedNonce /\ reservations' = reservations /\ link' = link
        /\ caller' = caller /\ now' = now /\ chain' = chain /\ signed' = signed
        /\ adding' = adding
    BY <1>5 DEF vars
  <2>2. TypeOK'
    BY <2>1 DEF IInv, TypeOK
  <2>3. \A c \in Chan : ChanInv(c)'
    BY <2>1, ChanKept DEF IInv
  <2>4. (\A u \in Caller : CallInv(u)') /\ OneHolder'
    BY <2>1, StandStill, CallsSettleInv
  <2> QED
    BY <2>2, <2>3, <2>4 DEF IInv
<1> QED
  BY <1>1, <1>2, <1>3, <1>4, <1>5, <1>6 DEF Next

(* The invariant holds throughout: the channels are sound, the calls are    *)
(* sound, and a channel's write lock has one holder.                        *)
THEOREM Invariance == Spec => []IInv
<1>1. Init => IInv
  BY InitIInv
<1>2. IInv /\ [Next]_vars => IInv'
  BY NextIInv
<1> QED
  BY <1>1, <1>2, PTL DEF Spec

-----------------------------------------------------------------------------
(* Every amount, nonce and reservation keeps its type; none is negative.    *)
THEOREM TypeCorrect == Spec => []TypeOK
<1>1. IInv => TypeOK
  BY DEF IInv
<1> QED
  BY <1>1, Invariance, PTL

(* The reserved amount of a channel is the sum of its reservations.         *)
THEOREM ReservedIsSumHolds == Spec => []ReservedIsSum
<1>1. IInv => ReservedIsSum
  BY DEF IInv, TypeOK, ChanInv, ReservedIsSum
<1> QED
  BY <1>1, Invariance, PTL

(* Reserve, pay, expiry and loss in any order never overbook a channel.     *)
THEOREM NoOverbookingHolds == Spec => []NoOverbooking
<1>1. IInv => NoOverbooking
  BY DEF IInv, TypeOK, ChanInv, Covered, NoOverbooking
<1> QED
  BY <1>1, Invariance, PTL

(* Every voucher ever signed is covered by the channel's balance.           *)
THEOREM VouchersCoveredHolds == Spec => []VouchersCovered
<1>1. IInv => VouchersCovered
  BY DEF IInv, ChanInv, VouchersSound, VouchersCovered
<1> QED
  BY <1>1, Invariance, PTL

(* A channel with a recorded network loss is empty, and nobody pays on it.  *)
THEOREM LossQuarantineHolds == Spec => []LossQuarantine
<1>1. IInv => LossQuarantine
  <2> SUFFICES ASSUME IInv, NEW c \in active, state[c].loss # NoVoucher
               PROVE  /\ reservations[c] = NoReservations /\ reservedAmt[c] = 0
                      /\ ~Locked(c)
                      /\ state[c].loss.nonce > state[c].nonce
                      /\ state[c].loss.redeemed >= state[c].redeemed
    BY DEF LossQuarantine
  <2>1. c \in Chan /\ ChanInv(c)
    BY DEF IInv, TypeOK
  <2>2. ~Locked(c)
    BY DEF Locked, IInv, CallInv
  <2> QED
    BY <2>1, <2>2, ReservedNone DEF ChanInv, LossSound
<1> QED
  BY <1>1, Invariance, PTL

(* What a payment in flight read before the round trip is still so when it  *)
(* is committed or reverted.                                                *)
THEOREM PendingIsFreshHolds == Spec => []PendingIsFresh
<1>1. IInv => PendingIsFresh
  BY DEF IInv, CallInv, PendingIsFresh
<1> QED
  BY <1>1, Invariance, PTL

-----------------------------------------------------------------------------
(* The only steps that change the state of a channel that stays.            *)
LEMMA StateWriters ==
  ASSUME IInv, Next, NEW c \in active \cap active', state'[c] # state[c]
  PROVE  /\ c \in Chan
         /\ \/ \E t \in Caller : Commit(t) /\ caller[t].ch = c
            \/ \E t \in Caller : \E v \in signed[c] : RevertWithLoss(t, v) /\ caller[t].ch = c
            \/ UpdateBalance(c)
            \/ BearNetworkLoss(c)
<1>1. c \in Chan /\ state \in [Chan -> State]
  BY DEF IInv, TypeOK
<1>2. ASSUME NEW t \in Caller, Reserving(t)
      PROVE  FALSE
  BY <1>2 DEF Reserving, ReserveBegin, ReserveProbe, ReserveQuit, ReserveLocked, ReserveReturn, cached
<1>3. ASSUME NEW t \in Caller, Paying(t)
      PROVE  \/ Commit(t) /\ caller[t].ch = c
             \/ \E v \in signed[c] : RevertWithLoss(t, v) /\ caller[t].ch = c
  <2>1. CASE Commit(t)
    BY <1>1, <2>1 DEF Commit
  <2>2. CASE \E d \in Chan : \E v \in signed[d] : RevertWithLoss(t, v)
    <3>1. PICK v : RevertWithLoss(t, v)
      BY <2>2
    <3>2. /\ v \in signed[caller[t].ch]
          /\ state' = [state EXCEPT ![caller[t].ch] =
                         [state[caller[t].ch] EXCEPT !.loss = v, !.stateNonce = @ + 1]]
      BY <3>1 DEF RevertWithLoss
    <3>3. caller[t].ch = c
      BY <1>1, <3>2
    <3> QED
      BY <3>1, <3>2, <3>3
  <2>3. CASE ~Commit(t) /\ ~\E d \in Chan : \E v \in signed[d] : RevertWithLoss(t, v)
    BY <1>3, <2>3 DEF Paying, PayProbe, PayLocked, PayRefused, PayTimeout, Revert, cached
  <2> QED
    BY <2>1, <2>2, <2>3
<1>4. ASSUME NEW d \in Chan,
             \/ Clean(d) \/ UpdateBalance(d) \/ BearNetworkLoss(d)
             \/ AddBegin(d) \/ Retire(d)
             \/ (\E b \in Funds : Topup(d, b)) \/ (\E v \in signed[d] : Submit(d, v))
      PROVE  UpdateBalance(c) \/ BearNetworkLoss(c)
  <2>1. d = c \/ state'[c] = state[c]
    <3>1. CASE Retire(d)
      BY <1>1, <3>1 DEF Retire, Install
    <3>2. CASE UpdateBalance(d) \/ BearNetworkLoss(d)
      BY <1>1, <3>2 DEF UpdateBalance, BearNetworkLoss
    <3>3. CASE \/ Clean(d) \/ AddBegin(d) \/ (\E b \in Funds : Topup(d, b))
               \/ \E v \in signed[d] : Submit(d, v)
      BY <3>3 DEF Clean, AddBegin, Topup, Submit, cached
    <3> QED
      BY <1>4, <3>1, <3>2, <3>3
  <2>2. /\ ~Clean(c) /\ ~AddBegin(c) /\ ~(\E b \in Funds : Topup(c, b))
        /\ ~\E v \in signed[c] : Submit(c, v)
    BY DEF Clean, AddBegin, Topup, Submit, cached
  <2>3. ~Retire(c)
    BY DEF Retire
  <2> QED
    BY <1>4, <2>1, <2>2, <2>3
<1>5. ~Tick
  BY DEF Tick, cached
<1>6. ASSUME NEW a \in adding, AddLocked(a) \/ AddQuit(a)
      PROVE  FALSE
  <2>1. ~AddQuit(a)
    BY DEF AddQuit, cached
  <2>2. CASE AddLocked(a)
    <3>1. a.ch # c /\ state'[c] = state[c]
      BY <1>1, <2>2 DEF AddLocked, Install
    <3> QED
      BY <3>1
  <2> QED
    BY <1>6, <2>1, <2>2
<1> QED
  BY <1>1, <1>2, <1>3, <1>4, <1>5, <1>6 DEF Next

(* What commit makes of the state it read.                                  *)
LEMMA CommitWrites ==
  ASSUME IInv, NEW t \in Caller, Commit(t), NEW c \in Chan, caller[t].ch = c
  PROVE  /\ state'[c].balance = state[c].balance
         /\ state'[c].nonce = state[c].nonce + 1
         /\ state'[c].stateNonce = state[c].stateNonce + 1
         /\ state'[c].redeemed >= state[c].redeemed
         /\ reservedAmt'[c] = reservedAmt[c] - (state'[c].redeemed - state[c].redeemed)
<1> DEFINE a   == caller[t].after
           st  == a.state
           old == state[c]
           red == st.redeemed
           n   == old.nonce + 1
           k   == old.stateNonce + 1
<1>1. state'[c] = st /\ reservedAmt'[c] = a.reserved
  BY DEF Commit, IInv, TypeOK
<1>2. /\ st = [old EXCEPT !.redeemed = red, !.nonce = n, !.stateNonce = k]
      /\ a.reserved = reservedAmt[c] - (red - old.redeemed) /\ red - old.redeemed >= 0
  BY DEF Commit, IInv, CallInv, Fresh
<1>3. st \in State /\ old \in State
  BY PendingCallType DEF Commit, IInv, TypeOK, PendingCall
<1>4. old = [balance |-> old.balance, redeemed |-> old.redeemed, nonce |-> old.nonce,
             loss |-> old.loss, stateNonce |-> old.stateNonce]
  BY <1>3, StateFields
<1>5. red \in Nat /\ old.redeemed \in Nat
  BY <1>3, StateFields
<1>6. st.balance = old.balance /\ st.nonce = n /\ st.stateNonce = k
  <2> HIDE DEF st, old, red, n, k
  <2> QED
    BY <1>2, <1>4, Zenon
<1>7. red >= old.redeemed
  <2> HIDE DEF red, old
  <2> QED
    BY <1>2, <1>5
<1> QED
  BY <1>1, <1>2, <1>6, <1>7

(* Each writer of a channel's state moves it forward.                       *)
LEMMA StateStepsForward ==
  ASSUME IInv, Next, NEW c \in active \cap active', state'[c] # state[c]
  PROVE  /\ state'[c].stateNonce > state[c].stateNonce
         /\ state'[c].nonce >= state[c].nonce
         /\ state'[c].redeemed >= state[c].redeemed
         /\ state'[c].balance >= state[c].balance
         /\ Redeem(c)
<1> DEFINE old == state[c]
           k   == old.stateNonce + 1
<1>1. /\ c \in Chan /\ state \in [Chan -> State] /\ ChanInv(c)
      /\ old.balance \in Nat /\ old.redeemed \in Nat /\ old.nonce \in Nat /\ old.stateNonce \in Nat
      /\ chain[c].balance \in Nat /\ reservedAmt[c] \in Int
  BY StateFields DEF IInv, TypeOK
<1>2. old = [balance |-> old.balance, redeemed |-> old.redeemed, nonce |-> old.nonce,
             loss |-> old.loss, stateNonce |-> old.stateNonce]
  BY <1>1, StateFields
<1>3. ASSUME NEW t \in Caller, Commit(t), caller[t].ch = c
      PROVE  /\ state'[c].stateNonce > state[c].stateNonce
             /\ state'[c].nonce >= state[c].nonce
             /\ state'[c].redeemed >= state[c].redeemed
             /\ state'[c].balance >= state[c].balance
             /\ Redeem(c)
  <2>1. state'[c].redeemed \in Nat
    <3>1. state'[c] = caller[t].after.state
      BY <1>1, <1>3 DEF Commit
    <3>2. caller[t].after.state \in State
      BY <1>3, PendingCallType DEF Commit, IInv, PendingCall
    <3> QED
      BY <3>1, <3>2, StateFields
  <2> QED
    BY <1>1, <1>3, <2>1, CommitWrites DEF Redeem
<1>4. ASSUME NEW t \in Caller, NEW v \in signed[c], RevertWithLoss(t, v), caller[t].ch = c
      PROVE  /\ state'[c].stateNonce = k /\ state'[c].nonce = old.nonce
             /\ state'[c].redeemed = old.redeemed /\ state'[c].balance = old.balance
  <2>1. state'[c] = [old EXCEPT !.loss = v, !.stateNonce = k]
    BY <1>1, <1>4 DEF RevertWithLoss
  <2> HIDE DEF old, k
  <2> QED
    BY <1>2, <2>1, Zenon
<1>5. ASSUME UpdateBalance(c)
      PROVE  /\ state'[c].stateNonce = k /\ state'[c].nonce = old.nonce
             /\ state'[c].redeemed = old.redeemed /\ state'[c].balance = chain[c].balance
  <2> DEFINE b == chain[c].balance
  <2>1. state'[c] = [old EXCEPT !.balance = b, !.stateNonce = k]
    BY <1>1, <1>5 DEF UpdateBalance
  <2> HIDE DEF old, k, b
  <2>2. /\ state'[c].stateNonce = k /\ state'[c].nonce = old.nonce
        /\ state'[c].redeemed = old.redeemed /\ state'[c].balance = b
    BY <1>2, <2>1, Zenon
  <2> QED
    BY <2>2 DEF b
<1>6. ASSUME BearNetworkLoss(c)
      PROVE  /\ state'[c].stateNonce = k /\ state'[c].nonce = old.loss.nonce
             /\ state'[c].redeemed = old.loss.redeemed /\ state'[c].balance = old.balance
  <2> DEFINE red == old.loss.redeemed
             n   == old.loss.nonce
  <2>1. state'[c] = [old EXCEPT !.redeemed = red, !.nonce = n, !.loss = NoVoucher, !.stateNonce = k]
    BY <1>1, <1>6 DEF BearNetworkLoss
  <2> HIDE DEF old, k, red, n
  <2>2. /\ state'[c].stateNonce = k /\ state'[c].nonce = n
        /\ state'[c].redeemed = red /\ state'[c].balance = old.balance
    BY <1>2, <2>1, Zenon
  <2> QED
    BY <2>2 DEF red, n
<1>7. ASSUME BearNetworkLoss(c)
      PROVE  /\ old.loss # NoVoucher
             /\ old.loss.nonce \in Nat /\ old.loss.redeemed \in Nat
             /\ old.loss.nonce > old.nonce /\ old.loss.redeemed >= old.redeemed
  <2>1. old.loss # NoVoucher
    BY <1>7 DEF BearNetworkLoss
  <2>2. old.loss \in Voucher
    BY <1>1, <2>1 DEF State
  <2>3. old.loss.nonce > old.nonce /\ old.loss.redeemed >= old.redeemed
    BY <1>1, <2>1 DEF ChanInv, LossSound
  <2> QED
    BY <2>1, <2>2, <2>3 DEF Voucher
<1>8. /\ old.balance <= chain[c].balance /\ k > old.stateNonce
  BY <1>1 DEF ChanInv
<1>9. CASE \E t \in Caller : \E v \in signed[c] : RevertWithLoss(t, v) /\ caller[t].ch = c
  <2> HIDE DEF k
  <2> QED
    BY <1>1, <1>4, <1>8, <1>9 DEF Redeem
<1>10. CASE UpdateBalance(c)
  <2> HIDE DEF k
  <2> QED
    BY <1>1, <1>5, <1>8, <1>10 DEF Redeem
<1>11. CASE BearNetworkLoss(c)
  <2> HIDE DEF k
  <2> QED
    BY <1>1, <1>6, <1>7, <1>8, <1>11 DEF Redeem
<1> QED
  BY <1>3, <1>9, <1>10, <1>11, StateWriters

(* Money leaves a channel only out of its reservations, or with a network   *)
(* loss that the user bears.                                                *)
THEOREM PaidFromReservationHolds == Spec => PaidFromReservation
<1>1. IInv /\ [Next]_vars => [\A c \in active \cap active' : Redeem(c)]_vars
  <2> SUFFICES ASSUME IInv, Next, NEW c \in active \cap active'
               PROVE  Redeem(c)
    OBVIOUS
  <2>1. CASE state'[c] = state[c]
    BY <2>1 DEF Redeem
  <2>2. CASE state'[c] # state[c]
    BY <2>2, StateStepsForward
  <2> QED
    BY <2>1, <2>2
<1> QED
  BY <1>1, Invariance, PTL DEF Spec, PaidFromReservation

(* A cached state never goes back, and never changes under the same         *)
(* StateNonce.                                                              *)
THEOREM StateMovesForwardHolds == Spec => StateMovesForward
<1>1. IInv /\ [Next]_vars => [\A c \in active \cap active' : Advance(c)]_vars
  <2> SUFFICES ASSUME IInv, Next, NEW c \in active \cap active'
               PROVE  Advance(c)
    OBVIOUS
  <2> QED
    BY StateStepsForward DEF Advance
<1> QED
  BY <1>1, Invariance, PTL DEF Spec, StateMovesForward

-----------------------------------------------------------------------------
(* The other steps leave the calls of Reserve, or what they have made, as   *)
(* they were.                                                               *)
OneMade == \A t \in Caller : caller[t].pc = "reserve" => \E x : caller[t].made \subseteq {x}

(* A goroutine that reserves is the first of its call.                      *)
LEMMA OneMadeKept == TypeOK /\ OneMade /\ [Next]_vars => OneMade'
<1> SUFFICES ASSUME TypeOK, OneMade, [Next]_vars
             PROVE  OneMade'
  OBVIOUS
<1>1. ASSUME NEW t \in Caller, NEW r, caller' = [caller EXCEPT ![t] = r],
             r.pc = "reserve" => \E x : r.made \subseteq {x}
      PROVE  OneMade'
  BY <1>1 DEF OneMade, TypeOK
<1>2. ASSUME NEW t \in Caller, Reserving(t)
      PROVE  OneMade'
  <2>1. CASE \E petty \in 1 .. MaxPetty, terms \in Offers : ReserveBegin(t, petty, terms)
    <3>1. PICK petty \in 1 .. MaxPetty, terms \in Offers : ReserveBegin(t, petty, terms)
      BY <2>1
    <3> DEFINE r == [pc |-> "reserve", petty |-> petty, terms |-> terms,
                     deadline |-> now + Expiry, todo |-> active, ready |-> {}, made |-> {}]
    <3>2. caller' = [caller EXCEPT ![t] = r] /\ r.made \subseteq {{}}
      BY <3>1 DEF ReserveBegin
    <3> HIDE DEF r
    <3> QED
      BY <1>1, <3>2
  <2>2. ASSUME NEW c \in Chan, ReserveProbe(t, c) \/ ReserveQuit(t, c)
        PROVE  OneMade'
    <3>1. /\ caller[t] \in ReserveCall /\ caller[t].pc = "reserve"
          /\ \E todo, ready : caller' = [caller EXCEPT ![t] =
                                  [caller[t] EXCEPT !.todo = todo, !.ready = ready]]
      BY <2>2, ReserveCallType DEF ReserveProbe, ReserveQuit
    <3>2. PICK todo, ready : caller' = [caller EXCEPT ![t] =
                                [caller[t] EXCEPT !.todo = todo, !.ready = ready]]
      BY <3>1
    <3> DEFINE r == [caller[t] EXCEPT !.todo = todo, !.ready = ready]
    <3>3. r.made = caller[t].made
      BY <3>1 DEF ReserveCall
    <3> QED
      BY <1>1, <3>1, <3>2, <3>3 DEF OneMade
  <2>3. ASSUME NEW c \in Chan, ReserveLocked(t, c)
        PROVE  OneMade'
    <3>1. caller[t] \in ReserveCall /\ caller[t].pc = "reserve"
      BY <2>3, ReserveCallType DEF ReserveLocked
    <3>2. CASE Wins(t, c)
      <4> DEFINE new == <<c, reservedNonce[c] + 1>>
                 ready == caller[t].ready \ {c}
                 made == caller[t].made \cup {new}
                 r == [caller[t] EXCEPT !.ready = ready, !.made = made]
      <4>1. caller' = [caller EXCEPT ![t] = r]
        BY <2>3, <3>2 DEF ReserveLocked
      <4>2. r.made = made
        BY <3>1 DEF ReserveCall
      <4>3. made \subseteq {new}
        BY <3>2 DEF Wins
      <4> HIDE DEF r, made
      <4> QED
        BY <1>1, <4>1, <4>2, <4>3
    <3>3. CASE ~Wins(t, c)
      <4> DEFINE r == [caller[t] EXCEPT !.ready = @ \ {c}]
      <4>1. caller' = [caller EXCEPT ![t] = r]
        BY <2>3, <3>3 DEF ReserveLocked
      <4>2. r.made = caller[t].made
        BY <3>1 DEF ReserveCall
      <4> QED
        BY <1>1, <3>1, <4>1, <4>2 DEF OneMade
    <3> QED
      BY <3>2, <3>3
  <2>4. CASE ReserveReturn(t)
    BY <1>1, <2>4 DEF ReserveReturn, Idle
  <2> QED
    BY <1>2, <2>1, <2>2, <2>3, <2>4 DEF Reserving
<1>3. ASSUME NEW t \in Caller, Paying(t)
      PROVE  OneMade'
  <2>1. \E r : r.pc # "reserve" /\ caller' = [caller EXCEPT ![t] = r]
    BY <1>3 DEF Paying, PayProbe, PayLocked, PayRefused, PayTimeout, Commit, Revert,
                RevertWithLoss, Idle
  <2> QED
    BY <1>1, <2>1
<1>4. CASE caller' = caller
  BY <1>4 DEF OneMade
<1> QED
  BY <1>2, <1>3, <1>4
  DEF Next, Clean, UpdateBalance, BearNetworkLoss, AddBegin, AddLocked, AddQuit, Retire, Topup,
      Submit, Tick, vars

(* Of the goroutines of one call of Reserve at most one reserves, although  *)
(* none of them waits for the others.                                       *)
THEOREM OneReservationPerRequestHolds == Spec => []OneReservationPerRequest
<1>1. Init => OneMade
  BY DEF Init, OneMade, Idle
<1>2. OneMade => OneReservationPerRequest
  <2> SUFFICES ASSUME OneMade, NEW t \in Caller, caller[t].pc = "reserve"
               PROVE  Cardinality(caller[t].made) <= 1
    BY DEF OneReservationPerRequest
  <2>1. PICK x : caller[t].made \subseteq {x}
    BY DEF OneMade
  <2>2. caller[t].made = {} \/ caller[t].made = {x}
    BY <2>1
  <2>3. Cardinality({}) = 0 /\ Cardinality({x}) = 1
    BY FS_EmptySet, FS_Singleton
  <2> QED
    BY <2>2, <2>3
<1> QED
  BY <1>1, <1>2, TypeCorrect, OneMadeKept, PTL DEF Spec

(* The route store has a direct link to the recipient just as long as there *)
(* is a channel, however channels are added and retired.                    *)
THEOREM LinkFollowsChannelsHolds == Spec => []LinkFollowsChannels
<1>1. Init => LinkFollowsChannels
  BY DEF Init, LinkFollowsChannels
<1>2. TypeOK /\ LinkFollowsChannels /\ [Next]_vars => LinkFollowsChannels'
  <2> SUFFICES ASSUME TypeOK, LinkFollowsChannels, [Next]_vars, ~RouteStoreFails
               PROVE  link' <=> active' # {}
    BY DEF LinkFollowsChannels
  <2>1. link <=> active # {}
    BY DEF LinkFollowsChannels
  <2>2. ASSUME NEW a \in adding, AddLocked(a)
        PROVE  link' <=> active' # {}
    BY <2>2 DEF AddLocked
  <2>3. ASSUME NEW c \in Chan, Retire(c)
        PROVE  link' <=> active' # {}
    BY <2>1, <2>3 DEF Retire, LinkAfterRetire
  <2>4. CASE UNCHANGED <<active, link>>
    BY <2>1, <2>4
  <2>5. ASSUME NEW t \in Caller, Reserving(t) \/ Paying(t)
        PROVE  UNCHANGED <<active, link>>
    BY <2>5 DEF Reserving, ReserveBegin, ReserveProbe, ReserveQuit, ReserveLocked, ReserveReturn,
                Paying, PayProbe, PayLocked, PayRefused, PayTimeout, Commit, Revert,
                RevertWithLoss, cached
  <2> QED
    BY <2>2, <2>3, <2>4, <2>5
    DEF Next, Clean, UpdateBalance, BearNetworkLoss, AddBegin, AddQuit, Topup, Submit, Tick,
        vars, cached
<1> QED
  BY <1>1, <1>2, TypeCorrect, PTL DEF Spec
=============================================================================
