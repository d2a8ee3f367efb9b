------------------------------- MODULE PayMgr -------------------------------
(***************************************************************************)
(* The outbound half of the payment manager (paymgr/paymentmgr_impl.go,    *)
(* paymgr/routines.go): the channels a node keeps towards one recipient in *)
(* one currency, the reservations on them, and the callers that reserve,   *)
(* pay, commit and revert at the same time.                                *)
(*                                                                         *)
(* Locks.  Reserve and Pay hold the recipient's read lock; the write lock  *)
(* of a channel is taken for one step by everything that changes it, except *)
(* by Pay, which returns holding it: commit or revert releases it, after a *)
(* round trip over the network.  A caller that is "pending" is that holder.*)
(* Adding and retiring a channel take the recipient's write lock.          *)
(* A check made under a read lock and repeated under the write lock is a   *)
(* step of its own where the caller waits in between (Reserve, Pay), and   *)
(* is left out where the whole check is simply made twice.                 *)
(*                                                                         *)
(* The inbound side of a reservation (pettyAmtReceived, surchargeReceived) *)
(* is in PaymentStream: a mismatch there is one of the reasons for which   *)
(* a payment is refused here.  The serving and reservation policies that   *)
(* Reserve consults are reasons to refuse, too.                            *)
(***************************************************************************)
EXTENDS Surcharge, FiniteSets

CONSTANTS Chan,        \* payment channels to the recipient
          Caller,      \* concurrent calls into the payment manager
          Offers,      \* outbound terms a reservation may be made under
          Expiry,      \* time a reservation may wait for its first payment
          Inactivity,  \* time it may wait for each later one
          NoRes, NoVoucher,
          RouteStoreFails, \* the route store may fail to keep the direct link
          \* Bounds of the model:
          MaxPetty,    \* petty amount of one request
          Funds,       \* on-chain balances of a channel
          MaxNonce,    \* voucher nonce
          MaxRes,      \* reservations made on a channel
          MaxAdding,   \* readings of the chain that wait to be inserted
          MaxTime

Id == 1 .. MaxRes
Voucher == [nonce : Nat, redeemed : Nat]
Ledger == [petty : Nat, surcharge : Nat]
State == [balance : Nat, redeemed : Nat, nonce : Nat,
          loss : Voucher \cup {NoVoucher}, stateNonce : Nat]
Reservation == [terms : Offers, paid : Ledger, remain : Nat, deadline : Nat]

ASSUME BoundsAssumption ==
    /\ MaxPetty \in Nat /\ Funds \in SUBSET Nat /\ MaxNonce \in Nat /\ MaxAdding \in Nat
    /\ RouteStoreFails \in BOOLEAN
    /\ MaxRes \in Nat /\ MaxTime \in Nat /\ Expiry \in Nat /\ Inactivity \in Nat
ASSUME OffersAssumption == \A t \in Offers : t.ppp \in Nat /\ t.period \in Nat /\ LegalTerms(t)
ASSUME NoneAssumption == NoRes \notin Reservation /\ NoVoucher \notin Voucher

VARIABLES active,         \* the channels present in mgr.active
          state,          \* state[c]: cachedPaychState.state
          reservedAmt,    \* reservedAmt[c]
          reservedNonce,  \* reservedNonce[c]: the last reservation id given
          reservations,   \* reservations[c][id]: a reservation, or NoRes
          link,           \* the route store has a direct link to the recipient
          caller,         \* caller[t]: where the call of t is, and its local state
          now,            \* the clock
          chain,          \* chain[c]: balance and redeemed amount on chain
          signed,         \* signed[c]: every voucher generated for the channel
          adding          \* what the calls of AddOutboundChannel have read on chain

cached == <<active, state, reservedAmt, reservedNonce, reservations, link>>
external == <<chain, signed, adding>>
vars == <<active, state, reservedAmt, reservedNonce, reservations, link,
          caller, now, chain, signed, adding>>

Idle == [pc |-> "idle"]
NothingPaid == [petty |-> 0, surcharge |-> 0]
NoReservations == [i \in Id |-> NoRes]

(* What the model keeps for a channel that is not in the cache.             *)
NoState == [balance |-> 0, redeemed |-> 0, nonce |-> 0, loss |-> NoVoucher, stateNonce |-> 0]

-----------------------------------------------------------------------------
(* Sums over the reservations of a channel, as the number of the units they *)
(* hold.                                                                    *)
Remain(r) == IF r = NoRes THEN 0 ELSE r.remain
Units(rs) == UNION {{i} \X (1 .. Remain(rs[i])) : i \in Id}
Reserved(rs) == Cardinality(Units(rs))

(* time.Now().After: the expiration before the first payment, the last      *)
(* access plus the inactivity time after it.                                *)
Expired(r) == r # NoRes /\ now > r.deadline

Live(rs) == [i \in Id |-> IF Expired(rs[i]) THEN NoRes ELSE rs[i]]
Lapsed(rs) == [i \in Id |-> IF Expired(rs[i]) THEN rs[i] ELSE NoRes]

(* getExpiredAmount *)
ExpiredAmt(c) == Reserved(Lapsed(reservations[c]))

(* Mutant: the expired reservations go, their amount stays reserved.        *)
ReservedKept(c) == reservedAmt[c]

(* What releaseExpiredAmount leaves as the reserved amount.                 *)
ReservedAfterRelease(c) == reservedAmt[c] - ExpiredAmt(c)

(* releaseExpiredAmount *)
ReleaseExpired(c) ==
    /\ reservations' = [reservations EXCEPT ![c] = Live(@)]
    /\ reservedAmt' = [reservedAmt EXCEPT ![c] = ReservedAfterRelease(c)]

(* Mutant: what has been redeemed already is offered again.                 *)
AvailableAgain(c) == state[c].balance - ReservedAfterRelease(c)

(* What is left for a new reservation once the expired ones are discounted. *)
Available(c) == state[c].balance - (ReservedAfterRelease(c) + state[c].redeemed)

(* Mutant: Pay lets go of the channel while it waits for the recipient.     *)
LockedNever(c) == FALSE

(* The write lock of a channel is held by a payment in flight.              *)
Locked(c) == \E t \in Caller : caller[t].pc = "pending" /\ caller[t].ch = c
PeerUnlocked == \A t \in Caller : caller[t] = Idle

Init ==
    /\ chain \in [Chan -> [balance : Funds, redeemed : {0}]]
    /\ active = {}
    /\ state = [c \in Chan |-> NoState]
    /\ reservedAmt = [c \in Chan |-> 0]
    /\ reservedNonce = [c \in Chan |-> 0]
    /\ reservations = [c \in Chan |-> NoReservations]
    /\ link = FALSE
    /\ caller = [t \in Caller |-> Idle]
    /\ now = 0
    /\ signed = [c \in Chan |-> {}]
    /\ adding = {}

-----------------------------------------------------------------------------
(* Reserve: one goroutine per channel, of which the first to get through    *)
(* wins.  "todo" are the goroutines before their provisional check,         *)
(* "ready" those waiting for the write lock, "made" the results assigned.   *)
ReserveBegin(t, petty, terms) ==
    /\ caller[t] = Idle
    /\ active # {}
    /\ LegalTerms(terms)
    /\ caller' = [caller EXCEPT ![t] =
                    [pc |-> "reserve", petty |-> petty, terms |-> terms,
                     deadline |-> now + Expiry, todo |-> active, ready |-> {}, made |-> {}]]
    /\ UNCHANGED <<cached, external, now>>

(* Mutant: Reserve does not look at the network loss.                       *)
CanReserveOnLoss(t, c) == Available(c) >= GrossRequired(caller[t].terms, caller[t].petty)

CanReserve(t, c) == /\ state[c].loss = NoVoucher
                    /\ Available(c) >= GrossRequired(caller[t].terms, caller[t].petty)

ReserveProbe(t, c) ==
    /\ caller[t].pc = "reserve" /\ c \in caller[t].todo
    /\ ~Locked(c)
    /\ CanReserve(t, c)
    /\ caller' = [caller EXCEPT ![t].todo = @ \ {c}, ![t].ready = @ \cup {c}]
    /\ UNCHANGED <<cached, external, now>>

(* A goroutine gives up: its channel is not served, the requester's policy  *)
(* or the provisional check refuses it, or its context has been cancelled.  *)
ReserveQuit(t, c) ==
    /\ caller[t].pc = "reserve" /\ c \in caller[t].todo \cup caller[t].ready
    /\ caller' = [caller EXCEPT ![t].todo = @ \ {c}, ![t].ready = @ \ {c}]
    /\ UNCHANGED <<cached, external, now>>

(* Mutant: a goroutine does not look whether another has succeeded.         *)
WinsToo(t, c) == CanReserve(t, c)

Wins(t, c) == CanReserve(t, c) /\ caller[t].made = {}

(* Under the write lock: check again, cancel the others, and reserve unless *)
(* another goroutine already has.                                           *)
ReserveLocked(t, c) ==
    LET gross == GrossRequired(caller[t].terms, caller[t].petty)
        id    == reservedNonce[c] + 1
        wins  == Wins(t, c)
    IN
    /\ caller[t].pc = "reserve" /\ c \in caller[t].ready
    /\ ~Locked(c)
    /\ wins => id <= MaxRes
    /\ IF wins
       THEN /\ reservations' = [reservations EXCEPT ![c] =
                    [Live(@) EXCEPT ![id] = [terms |-> caller[t].terms, paid |-> NothingPaid,
                                             remain |-> gross, deadline |-> caller[t].deadline]]]
            /\ reservedAmt' = [reservedAmt EXCEPT ![c] = ReservedAfterRelease(c) + gross]
            /\ reservedNonce' = [reservedNonce EXCEPT ![c] = id]
            /\ caller' = [caller EXCEPT ![t].ready = @ \ {c}, ![t].made = @ \cup {<<c, id>>}]
       ELSE /\ IF state[c].loss = NoVoucher THEN ReleaseExpired(c)
               ELSE UNCHANGED <<reservations, reservedAmt>>
            /\ caller' = [caller EXCEPT ![t].ready = @ \ {c}]
            /\ UNCHANGED reservedNonce
    /\ UNCHANGED <<active, state, link, external, now>>

(* wg.Wait() returns: the caller gets its channel and id, or an error.      *)
ReserveReturn(t) ==
    /\ caller[t].pc = "reserve"
    /\ caller[t].todo = {} /\ caller[t].ready = {}
    /\ caller' = [caller EXCEPT ![t] = Idle]
    /\ UNCHANGED <<cached, external, now>>

-----------------------------------------------------------------------------
PriceOf(r, petty) == GrossToPay(r.terms, r.paid, petty)

CanPay(c, id, petty) ==
    LET r == reservations[c][id] IN
    /\ state[c].loss = NoVoucher
    /\ r # NoRes /\ ~Expired(r)
    /\ PriceOf(r, petty).gross <= r.remain

(* Pay, the provisional check under the read lock.                          *)
PayProbe(t, c, id, petty) ==
    /\ caller[t] = Idle
    /\ c \in active
    /\ ~Locked(c)
    /\ CanPay(c, id, petty)
    /\ caller' = [caller EXCEPT ![t] = [pc |-> "pay", ch |-> c, id |-> id, petty |-> petty]]
    /\ UNCHANGED <<cached, external, now>>

(* Under the write lock: release what has expired, check again, sign the    *)
(* next voucher, and return commit and revert with the lock held.  "after"  *)
(* is what commit will write; nothing else of the cache changes yet.        *)
PayLocked(t) ==
    LET c     == caller[t].ch
        id    == caller[t].id
        r     == reservations[c][id]
        price == PriceOf(r, caller[t].petty)
        next  == [r EXCEPT !.paid = [petty |-> price.petty, surcharge |-> price.surcharge],
                           !.remain = @ - price.gross]
        v     == [nonce |-> state[c].nonce + 1, redeemed |-> state[c].redeemed + price.gross]
    IN
    /\ caller[t].pc = "pay"
    /\ ~Locked(c)
    /\ CanPay(c, id, caller[t].petty)
    /\ v.nonce <= MaxNonce
    /\ ReleaseExpired(c)
    /\ signed' = [signed EXCEPT ![c] = @ \cup {v}]
    /\ caller' = [caller EXCEPT ![t] =
                    [pc |-> "pending", ch |-> c, id |-> id,
                     after |-> [res      |-> IF next.remain = 0 THEN NoRes ELSE next,
                                reserved |-> ReservedAfterRelease(c) - price.gross,
                                state    |-> [state[c] EXCEPT !.redeemed = v.redeemed,
                                                              !.nonce = v.nonce,
                                                              !.stateNonce = @ + 1]]]]
    /\ UNCHANGED <<active, state, reservedNonce, link, chain, adding, now>>

(* Pay fails under the write lock: the reservation has gone, has expired or *)
(* no longer covers the payment, or no voucher could be signed.             *)
PayRefused(t) ==
    /\ caller[t].pc = "pay"
    /\ ~Locked(caller[t].ch)
    /\ IF state[caller[t].ch].loss = NoVoucher THEN ReleaseExpired(caller[t].ch)
       ELSE UNCHANGED <<reservations, reservedAmt>>
    /\ caller' = [caller EXCEPT ![t] = Idle]
    /\ UNCHANGED <<active, state, reservedNonce, link, external, now>>

(* The context ends before the write lock is obtained.                      *)
PayTimeout(t) ==
    /\ caller[t].pc = "pay"
    /\ caller' = [caller EXCEPT ![t] = Idle]
    /\ UNCHANGED <<cached, external, now>>

(* commit(time.Now()): write what Pay prepared.  From its first payment on  *)
(* a reservation lives by its inactivity time.                              *)
Commit(t) ==
    LET c == caller[t].ch
        a == caller[t].after
    IN
    /\ caller[t].pc = "pending"
    /\ reservations' = [reservations EXCEPT ![c][caller[t].id] =
                          IF a.res = NoRes THEN NoRes
                          ELSE [a.res EXCEPT !.deadline = now + Inactivity]]
    /\ reservedAmt' = [reservedAmt EXCEPT ![c] = a.reserved]
    /\ state' = [state EXCEPT ![c] = a.state]
    /\ caller' = [caller EXCEPT ![t] = Idle]
    /\ UNCHANGED <<active, reservedNonce, link, external, now>>

(* revert(""), or revert of something that is not a newer voucher of ours.  *)
Revert(t) ==
    /\ caller[t].pc = "pending"
    /\ caller' = [caller EXCEPT ![t] = Idle]
    /\ UNCHANGED <<cached, external, now>>

(* revert(v): the recipient has proved with a voucher we signed that it has *)
(* received more than we recorded.                                          *)
RevertWithLoss(t, v) ==
    LET c == caller[t].ch IN
    /\ caller[t].pc = "pending"
    /\ v \in signed[c]
    /\ v.nonce > state[c].nonce /\ v.redeemed >= state[c].redeemed
    /\ state' = [state EXCEPT ![c].loss = v, ![c].stateNonce = @ + 1]
    /\ reservedAmt' = [reservedAmt EXCEPT ![c] = 0]
    /\ reservations' = [reservations EXCEPT ![c] = NoReservations]
    /\ caller' = [caller EXCEPT ![t] = Idle]
    /\ UNCHANGED <<active, reservedNonce, link, external, now>>

-----------------------------------------------------------------------------
(* Mutant: the routine needs the recipient for itself.                      *)
CleanAlone(c) ==
    /\ c \in active
    /\ PeerUnlocked
    /\ ExpiredAmt(c) > 0
    /\ ReleaseExpired(c)
    /\ UNCHANGED <<active, state, reservedNonce, link, caller, external, now>>

(* reservationCleanRoutine, one channel of one round.                       *)
Clean(c) ==
    /\ c \in active
    /\ ~Locked(c)
    /\ ExpiredAmt(c) > 0
    /\ ReleaseExpired(c)
    /\ UNCHANGED <<active, state, reservedNonce, link, caller, external, now>>

(* Mutant: the new balance does not move the StateNonce.                    *)
UpdateBalanceUnseen(c) ==
    /\ c \in active
    /\ ~Locked(c)
    /\ state[c].balance # chain[c].balance
    /\ state' = [state EXCEPT ![c].balance = chain[c].balance]
    /\ UNCHANGED <<active, reservedAmt, reservedNonce, reservations, link, caller, external, now>>

UpdateBalance(c) ==
    /\ c \in active
    /\ ~Locked(c)
    /\ state[c].balance # chain[c].balance
    /\ state' = [state EXCEPT ![c].balance = chain[c].balance, ![c].stateNonce = @ + 1]
    /\ UNCHANGED <<active, reservedAmt, reservedNonce, reservations, link, caller, external, now>>

BearNetworkLoss(c) ==
    /\ c \in active
    /\ ~Locked(c)
    /\ state[c].loss # NoVoucher
    /\ state' = [state EXCEPT ![c].redeemed = state[c].loss.redeemed,
                              ![c].nonce = state[c].loss.nonce,
                              ![c].loss = NoVoucher,
                              ![c].stateNonce = @ + 1]
    /\ UNCHANGED <<active, reservedAmt, reservedNonce, reservations, link, caller, external, now>>

(* A channel enters or leaves the cache without reservations.               *)
Install(c, s) ==
    /\ state' = [state EXCEPT ![c] = s]
    /\ reservedAmt' = [reservedAmt EXCEPT ![c] = 0]
    /\ reservedNonce' = [reservedNonce EXCEPT ![c] = 0]
    /\ reservations' = [reservations EXCEPT ![c] = NoReservations]

(* AddOutboundChannel looks at the chain before it has a lock, whether the  *)
(* channel is in the cache or not.  Until the call has the recipient's      *)
(* write lock the channel may be added by another call, paid from, topped   *)
(* up and retired.  Any number of calls may have read the same.             *)
AddBegin(c) ==
    /\ Cardinality(adding) < MaxAdding
    /\ adding' = adding \cup {[ch |-> c, seen |-> chain[c]]}
    /\ UNCHANGED <<cached, caller, chain, signed, now>>

(* One of the calls that have read this comes to its end.                   *)
AddEnds(a) == adding' \in {adding, adding \ {a}}

(* Under the recipient's write lock, for a channel that is not there: the   *)
(* new state has nonce 0.  A direct link that cannot be added is only       *)
(* logged.                                                                  *)
AddLocked(a) ==
    /\ a.ch \notin active
    /\ PeerUnlocked
    /\ AddEnds(a)
    /\ Install(a.ch, [NoState EXCEPT !.balance = a.seen.balance, !.redeemed = a.seen.redeemed])
    /\ active' = active \cup {a.ch}
    /\ link' \in IF RouteStoreFails THEN {TRUE, link} ELSE {TRUE}
    /\ UNCHANGED <<caller, chain, signed, now>>

(* The channel is there, seen under the read lock or under the write lock,  *)
(* or the context ends before the lock is obtained.                         *)
AddQuit(a) ==
    /\ AddEnds(a)
    /\ UNCHANGED <<cached, caller, chain, signed, now>>

(* Mutant: the direct link goes with any channel.                           *)
LinkGone(c) == FALSE

(* The last channel takes the direct link with it.                          *)
LinkAfterRetire(c) == IF active = {c} THEN FALSE ELSE link

(* RetireOutboundChannel, under the recipient's write lock: the channel     *)
(* leaves the cache with its reservations.                                  *)
Retire(c) ==
    /\ c \in active
    /\ PeerUnlocked
    /\ active' = active \ {c}
    /\ Install(c, NoState)
    /\ link' \in IF RouteStoreFails THEN {LinkAfterRetire(c), link} ELSE {LinkAfterRetire(c)}
    /\ UNCHANGED <<caller, external, now>>

-----------------------------------------------------------------------------
(* On chain: the channel is topped up, or the recipient submits a voucher.  *)
Topup(c, b) ==
    /\ b > chain[c].balance
    /\ chain' = [chain EXCEPT ![c].balance = b]
    /\ UNCHANGED <<cached, caller, now, signed, adding>>

Submit(c, v) ==
    /\ v \in signed[c]
    /\ v.redeemed > chain[c].redeemed
    /\ chain' = [chain EXCEPT ![c].redeemed = v.redeemed]
    /\ UNCHANGED <<cached, caller, now, signed, adding>>

Tick == /\ now < MaxTime
        /\ now' = now + 1
        /\ UNCHANGED <<cached, caller, external>>

Reserving(t) ==
    \/ \E petty \in 1 .. MaxPetty, terms \in Offers : ReserveBegin(t, petty, terms)
    \/ \E c \in Chan : ReserveProbe(t, c) \/ ReserveQuit(t, c) \/ ReserveLocked(t, c)
    \/ ReserveReturn(t)

Paying(t) ==
    \/ \E c \in Chan, id \in Id, petty \in 1 .. MaxPetty : PayProbe(t, c, id, petty)
    \/ PayLocked(t) \/ PayRefused(t) \/ PayTimeout(t)
    \/ Commit(t) \/ Revert(t)
    \/ \E c \in Chan : \E v \in signed[c] : RevertWithLoss(t, v)

Next ==
    \/ \E t \in Caller : Reserving(t) \/ Paying(t)
    \/ \E c \in Chan : \/ Clean(c) \/ UpdateBalance(c) \/ BearNetworkLoss(c)
                       \/ AddBegin(c) \/ Retire(c)
                       \/ \E b \in Funds : Topup(c, b)
                       \/ \E v \in signed[c] : Submit(c, v)
    \/ \E a \in adding : AddLocked(a) \/ AddQuit(a)
    \/ Tick

(* The clean routine runs periodically, and every payment sent over the     *)
(* network is answered or times out: commit or revert is then called.       *)
Fairness == /\ \A c \in Chan : WF_vars(Clean(c))
            /\ \A t \in Caller : WF_vars(Commit(t) \/ Revert(t))

Spec == Init /\ [][Next]_vars /\ Fairness

-----------------------------------------------------------------------------
ReserveCall == [pc : {"reserve"}, petty : 1 .. MaxPetty, terms : Offers, deadline : Nat,
                todo : SUBSET Chan, ready : SUBSET Chan, made : SUBSET (Chan \X Id)]
PayCall == [pc : {"pay"}, ch : Chan, id : Id, petty : 1 .. MaxPetty]
PendingCall == [pc : {"pending"}, ch : Chan, id : Id,
                after : [res : Reservation \cup {NoRes}, reserved : Int, state : State]]

(* Types.  That no amount of a State and no remain is ever negative is part *)
(* of it.                                                                   *)
TypeOK ==
    /\ active \in SUBSET Chan
    /\ state \in [Chan -> State]
    /\ reservedAmt \in [Chan -> Int]
    /\ reservedNonce \in [Chan -> 0 .. MaxRes]
    /\ reservations \in [Chan -> [Id -> Reservation \cup {NoRes}]]
    /\ link \in BOOLEAN
    /\ caller \in [Caller -> {Idle} \cup ReserveCall \cup PayCall \cup PendingCall]
    /\ now \in Nat
    /\ chain \in [Chan -> [balance : Nat, redeemed : Nat]]
    /\ signed \in [Chan -> SUBSET Voucher]
    /\ adding \in SUBSET [ch : Chan, seen : [balance : Nat, redeemed : Nat]]

(* The running total the code keeps next to the reservations is their sum,  *)
(* whatever reserve, pay, expiry, clean-up and network loss do at the same  *)
(* time: nothing stays reserved for nobody, nothing is reserved twice.      *)
ReservedIsSum == \A c \in active : reservedAmt[c] = Reserved(reservations[c])

(* What is reserved is really there: the check Reserve makes before it has  *)
(* the lock never lets two requests share the same balance, nor one use     *)
(* what a network loss has taken.  Without a reservation there may be more  *)
(* redeemed than the cache knows of: a channel can be inserted with a       *)
(* balance read before a top-up, and lose what an earlier life of it paid.  *)
NoOverbooking ==
    \A c \in active : reservedAmt[c] > 0 => reservedAmt[c] + state[c].redeemed <= state[c].balance

(* No voucher, not even one whose payment is reverted, promises more than   *)
(* the channel holds on chain.                                              *)
VouchersCovered == \A c \in Chan : \A v \in signed[c] : v.redeemed <= chain[c].balance

(* From the moment a network loss is recorded until the user bears it, the  *)
(* channel is out of use: no reservation on it and no payment in flight.    *)
LossQuarantine ==
    \A c \in active : state[c].loss # NoVoucher =>
        /\ reservations[c] = NoReservations /\ reservedAmt[c] = 0
        /\ ~Locked(c)
        /\ state[c].loss.nonce > state[c].nonce
        /\ state[c].loss.redeemed >= state[c].redeemed

(* A payment in flight works on the state it read before the round trip:    *)
(* nothing it will overwrite has changed since, and its reservation is      *)
(* still there with the money it takes out of it.                           *)
Fresh(t) ==
    LET c     == caller[t].ch
        a     == caller[t].after
        r     == reservations[c][caller[t].id]
        gross == a.state.redeemed - state[c].redeemed
    IN
    /\ c \in active
    /\ gross >= 0
    /\ a.state = [state[c] EXCEPT !.redeemed = a.state.redeemed,
                                  !.nonce = @ + 1, !.stateNonce = @ + 1]
    /\ a.reserved = reservedAmt[c] - gross
    /\ r # NoRes
    /\ Remain(r) = gross + Remain(a.res)

PendingIsFresh == \A t \in Caller : caller[t].pc = "pending" => Fresh(t)

(* One request makes one reservation, though it races a goroutine per       *)
(* channel and the cancellation of the losers comes too late for some.      *)
OneReservationPerRequest ==
    \A t \in Caller : caller[t].pc = "reserve" => Cardinality(caller[t].made) <= 1

(* The route store knows the recipient as a direct neighbour exactly while  *)
(* there is a channel to pay it with (when it does not fail).               *)
LinkFollowsChannels == RouteStoreFails \/ (link <=> active # {})

(* Money leaves a channel only out of a reservation, unit by unit, or when  *)
(* the user bears a network loss.                                           *)
Redeem(c) ==
    state'[c].redeemed # state[c].redeemed =>
        \/ state[c].loss # NoVoucher /\ state'[c].redeemed = state[c].loss.redeemed
        \/ reservedAmt[c] - reservedAmt'[c] = state'[c].redeemed - state[c].redeemed

PaidFromReservation == [][\A c \in active \cap active' : Redeem(c)]_vars

(* While a channel is in the cache its state only moves forward, and every  *)
(* change of it carries a higher StateNonce: the sync routine compares      *)
(* nothing else to see that the store is behind.                            *)
Advance(c) ==
    state'[c] # state[c] =>
        /\ state'[c].stateNonce > state[c].stateNonce
        /\ state'[c].nonce >= state[c].nonce
        /\ state'[c].redeemed >= state[c].redeemed
        /\ state'[c].balance >= state[c].balance

StateMovesForward == [][\A c \in active \cap active' : Advance(c)]_vars

(* A reservation that expires without being used does not hold its money    *)
(* for ever, even if nobody reserves or pays on its channel again.          *)
ExpiredReleased ==
    \A c \in Chan, id \in Id :
        (c \in active /\ Expired(reservations[c][id])) ~> ~(c \in active /\ Expired(reservations[c][id]))
=============================================================================
