------------------------------ MODULE PaychMon ------------------------------
(***************************************************************************)
(* The life of one payment channel at one of its ends: the channel protocol *)
(* (paynet/protos/paychproto) adds and renews it, the monitor (paychmon)    *)
(* tracks it and retires it from the payment manager.  Outbound says which  *)
(* end it is: the payee decides on a renewal, the payer follows its answer. *)
(*                                                                         *)
(* The monitor keeps the settlement of the channel twice: its routine in a *)
(* timer, its store for Check and for the next start.  The routine is told *)
(* by two Go channels of capacity one ("renew", "retire"), into which      *)
(* callers send while they hold the lock of the payment channel; the store *)
(* is told by goroutines that queue operations, in any order.  The node    *)
(* does not restart.                                                       *)
(***************************************************************************)
EXTENDS Integers, Bags

CONSTANTS Call,      \* calls of the channel protocol and of Retire
          Outbound,  \* whether this is the payer's end
          Offers,    \* the settlements of offers to add the channel
          RenewBy,   \* the renew policy of the payee
          RenewWindow,  \* the elapsed percentage from which on it renews
          NoTime, NoControl, Unstored,
          MaxTime, MaxPending   \* bounds on the time and the queued operations

ASSUME EndAssumption == Outbound \in BOOLEAN
ASSUME TimesAssumption == /\ RenewBy \in Nat \ {0} /\ RenewWindow \in Nat
                           /\ MaxTime \in Nat /\ Offers \subseteq 0 .. MaxTime
ASSUME NothingAssumption == NoTime \notin Nat

VARIABLES now,
          settling,  \* the channel is settling on chain
          active,    \* it is an active channel of the payment manager
          control,   \* what the monitor has in its cache, with the routine's state
          stored,    \* what the monitor has stored
          pending,   \* the bag of operations on the store that are under way
          call       \* call[q]: the state of a call at this end

monVars == <<now, settling, active, control, stored, pending, call>>

Time == 0 .. MaxTime
Idle == [kind |-> "none", step |-> "idle", settlement |-> NoTime]
Put(t) == [op |-> "put", settlement |-> t]
Delete == [op |-> "delete", settlement |-> NoTime]

MonInit ==
    /\ now = 0
    /\ settling = FALSE
    /\ active = FALSE
    /\ control = NoControl
    /\ stored = Unstored
    /\ pending = EmptyBag
    /\ call = [q \in Call |-> Idle]

Queue(op) == /\ BagCardinality(pending) < MaxPending
             /\ pending' = pending (+) SetToBag({op})

Asked(q, kind, step, t) ==
    /\ call[q] = Idle
    /\ call' = [call EXCEPT ![q] = [kind |-> kind, step |-> step, settlement |-> t]]
At(q, kind, step) == call[q].kind = kind /\ call[q].step = step
Go(q, step) == call' = [call EXCEPT ![q].step = step]
Return(q) == call' = [call EXCEPT ![q] = Idle]

-----------------------------------------------------------------------------
(* The lock of the channel's path in the cache: Renew sends under the write *)
(* lock, Retire under a read lock.                                          *)
Senders == {q \in Call : call[q].step = "sending"}
MayRead == \A q \in Senders : call[q].kind = "retire"
MayWrite == Senders = {}

(* Mutant: the routine deletes its cache entry under a read lock.           *)
MayForgetReading == MayRead

(* The routine locks the currency, above the channel.                       *)
MayForget == MayWrite

(* Add of an offer with settlement t: handleAdd at the payee, Add at the    *)
(* payer after the payee has succeeded.                                     *)
AddPaych(q, t) ==
    /\ Asked(q, "add", "asked", t)
    /\ UNCHANGED <<now, settling, active, control, stored, pending>>

(* AddInboundChannel or AddOutboundChannel, which accept a channel that is  *)
(* there already.  The payee refuses an offer whose settlement is past.     *)
Enlist(q) ==
    /\ At(q, "add", "asked")
    /\ ~settling
    /\ Outbound \/ now <= call[q].settlement
    /\ active' = TRUE
    /\ Go(q, "enlisted")
    /\ UNCHANGED <<now, settling, control, stored, pending>>

Known == control # NoControl

(* Track: a channel with a control is tracked already.                      *)
Track(q) ==
    /\ At(q, "add", "enlisted")
    /\ \/ Known /\ MayRead /\ UNCHANGED <<control, pending>>
       \/ /\ ~Known /\ MayWrite
          /\ control' = [deadline |-> call[q].settlement, renew |-> NoTime,
                         retire |-> FALSE, phase |-> "tracking"]
          /\ Queue(Put(call[q].settlement))
    /\ Return(q)
    /\ UNCHANGED <<now, settling, active, stored>>

-----------------------------------------------------------------------------
(* uint64(elapsed * 100 / total) >= renewWindow: the quotient is truncated  *)
(* towards 0, and a negative one is a large unsigned number.  A total of 0  *)
(* ends the process, and is left out.                                       *)
InWindow ==
    LET elapsed == (now - stored.updated) * 100
        total   == stored.settlement - stored.updated
    IN  IF total > 0 THEN elapsed \div total >= RenewWindow
                     ELSE total < 0 /\ (elapsed >= -total \/ RenewWindow = 0)

(* handleRenew decides on a settlement from what is stored; the payer's     *)
(* Renew compares what is stored with the answer.                           *)
Decide(q, t) ==
    /\ stored # Unstored
    /\ Outbound \/ (t = now + RenewBy /\ InWindow)
    /\ t >= stored.settlement
    /\ Asked(q, "renew", "decided", t)
    /\ UNCHANGED <<now, settling, active, control, stored, pending>>

(* Renew of the monitor queues the operation on the store, then sends.      *)
Renew(q) ==
    /\ At(q, "renew", "decided")
    /\ control # NoControl /\ MayWrite
    /\ Queue(Put(call[q].settlement))
    /\ Go(q, "sending")
    /\ UNCHANGED <<now, settling, active, control, stored>>

SendRenew(q) ==
    /\ At(q, "renew", "sending")
    /\ control.renew = NoTime
    /\ control' = [control EXCEPT !.renew = call[q].settlement]
    /\ Return(q)
    /\ UNCHANGED <<now, settling, active, stored, pending>>

(* Retire of the monitor, by the user.                                      *)
RetirePaych(q) ==
    /\ control # NoControl /\ MayRead
    /\ Asked(q, "retire", "sending", NoTime)
    /\ UNCHANGED <<now, settling, active, control, stored, pending>>

SendRetire(q) ==
    /\ At(q, "retire", "sending")
    /\ ~control.retire
    /\ control' = [control EXCEPT !.retire = TRUE]
    /\ Return(q)
    /\ UNCHANGED <<now, settling, active, stored, pending>>

(* An error or a deadline ends a call; what it has done stays done.  A call *)
(* that sends has no deadline.                                              *)
Fail(q) ==
    /\ call[q].step \notin {"idle", "sending"}
    /\ Return(q)
    /\ UNCHANGED <<now, settling, active, control, stored, pending>>

-----------------------------------------------------------------------------
(* trackRoutine.                                                            *)
Tracking == control # NoControl /\ control.phase = "tracking"

TakeRenew ==
    /\ Tracking /\ control.renew # NoTime
    /\ control' = [control EXCEPT !.deadline = control.renew, !.renew = NoTime]
    /\ UNCHANGED <<now, settling, active, stored, pending, call>>

(* Mutant: a timer that is set to a time already past does not fire.        *)
OverdueAtOnce == now = control.deadline
Overdue == now >= control.deadline

(* The loop ends: the channel is settling, its time is up, or the routine   *)
(* is told to end; the removal from the store is queued.                    *)
Leave ==
    /\ Tracking
    /\ \/ /\ settling \/ Overdue
          /\ control' = [control EXCEPT !.phase = "leaving"]
       \/ /\ control.retire
          /\ control' = [control EXCEPT !.phase = "leaving", !.retire = FALSE]
    /\ pending' = pending (+) SetToBag({Delete})
    /\ UNCHANGED <<now, settling, active, stored, call>>

(* RetireInboundChannel or RetireOutboundChannel.                           *)
Withdraw ==
    /\ control # NoControl /\ control.phase = "leaving"
    /\ control' = [control EXCEPT !.phase = "left"]
    /\ active' = FALSE
    /\ UNCHANGED <<now, settling, stored, pending, call>>

(* The routine takes its control out of the cache.                          *)
Forget ==
    /\ control # NoControl /\ control.phase = "left"
    /\ MayForget
    /\ control' = NoControl
    /\ UNCHANGED <<now, settling, active, stored, pending, call>>

(* processQueue works off one operation.                                    *)
Work ==
    /\ \E op \in BagToSet(pending) :
        /\ pending' = pending (-) SetToBag({op})
        /\ stored' = IF op = Delete THEN Unstored
                    ELSE [updated |-> now, settlement |-> op.settlement]
    /\ UNCHANGED <<now, settling, active, control, call>>

Settle == /\ ~settling
          /\ settling' = TRUE
          /\ UNCHANGED <<now, active, control, stored, pending, call>>

TimePasses ==
    /\ now < MaxTime
    /\ now' = now + 1
    /\ UNCHANGED <<settling, active, control, stored, pending, call>>

Step(q) ==
    \/ \E t \in Offers : AddPaych(q, t)
    \/ \E t \in Time : Decide(q, t)
    \/ Enlist(q) \/ Track(q) \/ Renew(q) \/ SendRenew(q)
    \/ RetirePaych(q) \/ SendRetire(q) \/ Fail(q)

MonNext == \/ \E q \in Call : Step(q)
           \/ TakeRenew \/ Leave \/ Withdraw \/ Forget \/ Work
           \/ Settle \/ TimePasses

(* Time passes, and the routine goes on when it can.  Nothing is assumed of *)
(* the calls.                                                               *)
MonFairness == /\ WF_monVars(TimePasses) /\ WF_monVars(Leave)
               /\ WF_monVars(Withdraw) /\ WF_monVars(Forget)

MonSpec == MonInit /\ [][MonNext]_monVars /\ MonFairness

-----------------------------------------------------------------------------
Control == [deadline : Time, renew : Time \cup {NoTime}, retire : BOOLEAN,
            phase : {"tracking", "leaving", "left"}]

ASSUME ControlAssumption == NoControl \notin Control

MonTypeOK ==
    /\ now \in Time /\ settling \in BOOLEAN /\ active \in BOOLEAN
    /\ control \in Control \cup {NoControl}
    /\ stored \in [updated : Time, settlement : Time] \cup {Unstored}
    /\ IsABag(pending)
    /\ call \in [Call -> [kind : {"none", "add", "renew", "retire"},
                          step : {"idle", "asked", "enlisted", "decided", "sending"},
                          settlement : Time \cup {NoTime}]]

(* Whoever sends to the routine, Renew or Retire, still finds its channels: *)
(* however far the routine has got in leaving, the locks keep its control   *)
(* in the cache until the last caller has sent.                             *)
SendersAreHeard == Senders # {} => control # NoControl

(* Whatever is tracked is retired in the end: no renewal, signal or waiting *)
(* caller keeps a channel active past its last settlement.                  *)
TrackedRetires == Tracking ~> ~active

(* "PaychMonitor is used to track and monitor all payment channels": unless *)
(* somebody is adding it right now, an active channel is tracked, and so    *)
(* will be retired.                                                         *)
ActiveIsTracked == active /\ (\A q \in Call : call[q].kind # "add") => control # NoControl
=============================================================================
