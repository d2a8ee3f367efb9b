------------------------------ MODULE PaychStore ------------------------------
(***************************************************************************)
(* How the states of the active channels reach the disk                    *)
(* (paychstore/paychstore_impl.go), and what the payment manager makes of  *)
(* it: its cache is the truth while it runs, the sync routine pushes what  *)
(* the store is behind with, a shutdown pushes everything, and a start     *)
(* reads the store back (paymgr/paymentmgr_impl.go, paymgr/routines.go).   *)
(*                                                                         *)
(* Upsert and Remove each start a goroutine that enqueues the operation,   *)
(* so operations enter the queue in any order; one routine then works them *)
(* off.  The store's Shutdown waits for a copy of the WaitGroup that       *)
(* nobody has added to, that is for nothing, and cancels what is left.     *)
(*                                                                         *)
(* A channel state is the life of the channel it belongs to, that is how   *)
(* often the channel has been added, and its version, the number of changes*)
(* since it was added last; the StateNonce the code compares is the version*)
(* in a machine word.  A channel that has been retired may be added again, *)
(* and its nonce starts from 0: only a channel that settles on chain is    *)
(* refused, and the monitor retires others too.                            *)
(***************************************************************************)
EXTENDS Integers, Sequences, Bags

CONSTANTS Chan,
          Absent,       \* no state
          Word,         \* the StateNonce counts modulo Word (2^64)
          Window,       \* distance taken for an overflow (100)
          \* Bounds of the model:
          MaxLives,     \* times a channel is added
          MaxVersion,   \* changes of a channel's state in a life
          MaxInFlight,  \* operations not yet worked off
          MaxFailures   \* operations given up after dsRetry attempts

Version == 0 .. MaxVersion
State == [life : 1 .. MaxLives, version : Version]
Held == State \cup {Absent}
Upsert == [kind : {"upsert"}, ch : Chan, state : State]
Removal == [kind : {"remove"}, ch : Chan]
Op == Upsert \cup Removal

ASSUME WordAssumption == Word \in Nat /\ Window \in Nat /\ Window < Word
ASSUME BoundsAssumption ==
    MaxLives \in Nat /\ MaxVersion \in Nat /\ MaxInFlight \in Nat /\ MaxFailures \in Nat
ASSUME AbsentAssumption == Absent \notin State

VARIABLES mode,      \* the life of the process
          cache,     \* cache[c]: the state in mgr.active, or Absent
          lives,     \* lives[c]: how often c has been added
          saved,     \* saved[c]: the state whose reservations the temp ds holds
          spawned,   \* bag of operations whose goroutine has not enqueued them
          queue,     \* the operations in the queue
          disk,      \* disk[c]: the state in the store, or Absent
          failures   \* number of operations that have been given up

vars == <<mode, cache, lives, saved, spawned, queue, disk, failures>>
store == <<disk, failures>>

Nowhere == [c \in Chan |-> Absent]

Init == /\ mode = "running"
        /\ cache = Nowhere /\ saved = Nowhere /\ disk = Nowhere
        /\ lives = [c \in Chan |-> 0]
        /\ spawned = EmptyBag
        /\ queue = <<>>
        /\ failures = 0

InFlight == BagCardinality(spawned) + Len(queue)

(* Upsert and Remove return at once; the operation is left to a goroutine.  *)
Spawn(op) == /\ InFlight < MaxInFlight
             /\ spawned' = spawned (+) SetToBag({op})

UpsertOf(c, s) == [kind |-> "upsert", ch |-> c, state |-> s]
RemovalOf(c) == [kind |-> "remove", ch |-> c]

-----------------------------------------------------------------------------
(* The payment manager.                                                     *)

Added(c) == [life |-> lives[c] + 1, version |-> 0]

Add(c) == /\ mode = "running" /\ cache[c] = Absent /\ lives[c] < MaxLives
          /\ lives' = [lives EXCEPT ![c] = @ + 1]
          /\ cache' = [cache EXCEPT ![c] = Added(c)]
          /\ Spawn(UpsertOf(c, Added(c)))
          /\ UNCHANGED <<mode, saved, queue, store>>

(* A payment, a new balance or a network loss: nothing is stored for it.    *)
Change(c) == /\ mode = "running" /\ cache[c] # Absent /\ cache[c].version < MaxVersion
             /\ cache' = [cache EXCEPT ![c].version = @ + 1]
             /\ UNCHANGED <<mode, lives, saved, spawned, queue, store>>

Nonce(s) == s.version % Word

(* Mutant: a state that cannot be read is not pushed.                       *)
BehindStored(c) == disk[c] # Absent /\ Nonce(disk[c]) # Nonce(cache[c])

Behind(c) == disk[c] # Absent => Nonce(disk[c]) # Nonce(cache[c])

(* syncRoutine, one channel of one round.                                   *)
Sync(c) == /\ mode = "running" /\ cache[c] # Absent
           /\ Behind(c)
           /\ Spawn(UpsertOf(c, cache[c]))
           /\ UNCHANGED <<mode, cache, lives, saved, queue, store>>

Retire(c) == /\ mode = "running" /\ cache[c] # Absent
             /\ cache' = [cache EXCEPT ![c] = Absent]
             /\ Spawn(RemovalOf(c))
             /\ UNCHANGED <<mode, lives, saved, queue, store>>

(* The upserts of a shutdown.                                               *)
Push == SetToBag({UpsertOf(c, cache[c]) : c \in {d \in Chan : cache[d] # Absent}})

(* PaymentManager.Shutdown: the routines stop and the tree of locks is      *)
(* never released again; the reservations are written to the temp ds here   *)
(* and now, the states are left to the store's queue.                       *)
Stop == /\ mode = "running"
        /\ mode' = "stopping"
        /\ saved' = cache
        /\ spawned' = spawned (+) Push
        /\ UNCHANGED <<cache, lives, queue, store>>

-----------------------------------------------------------------------------
(* The store.                                                               *)

Enqueue(op) == /\ BagIn(op, spawned)
               /\ spawned' = spawned (-) SetToBag({op})
               /\ queue' = Append(queue, op)
               /\ UNCHANGED <<mode, cache, lives, saved, store>>

(* Mutant: any state is written.                                            *)
OldNever(current, new) == FALSE

(* "This state to upsert is old": a lower StateNonce, unless it looks like  *)
(* one that has started again from 0.                                       *)
Old(current, new) ==
    /\ Nonce(current) > Nonce(new)
    /\ ~(Nonce(new) < Window /\ (Word - 1) - Nonce(current) < Window)

Applied(op) ==
    IF op.kind = "remove" THEN Absent
    ELSE IF disk[op.ch] # Absent /\ Old(disk[op.ch], op.state) THEN disk[op.ch]
    ELSE op.state

(* processQueue works an operation off, or gives it up after dsRetry times. *)
Process == /\ queue # <<>>
           /\ queue' = Tail(queue)
           /\ \/ /\ disk' = [disk EXCEPT ![Head(queue).ch] = Applied(Head(queue))]
                 /\ UNCHANGED failures
              \/ /\ failures < MaxFailures
                 /\ failures' = failures + 1
                 /\ UNCHANGED disk
           /\ UNCHANGED <<mode, cache, lives, saved, spawned>>

(* PaychStore.Shutdown: wg.Wait() returns at once, cancel() ends the queue. *)
StoreShutdown == /\ mode = "stopping"
                 /\ mode' = "stopped"
                 /\ spawned' = EmptyBag
                 /\ queue' = <<>>
                 /\ cache' = Nowhere
                 /\ UNCHANGED <<lives, saved, store>>

Crash == /\ mode \in {"running", "stopping"}
         /\ mode' = "crashed"
         /\ spawned' = EmptyBag
         /\ queue' = <<>>
         /\ cache' = Nowhere
         /\ UNCHANGED <<lives, saved, store>>

(* Mutant: the channels of the store start with a new state.                *)
LoadFresh ==
    [c \in Chan |-> IF disk[c] = Absent THEN Absent ELSE [disk[c] EXCEPT !.version = 0]]

Load == disk

(* NewPaymentManagerImpl: the cache is what the store holds.                *)
Start == /\ mode \in {"stopped", "crashed"}
         /\ mode' = "running"
         /\ cache' = Load
         /\ UNCHANGED <<lives, saved, spawned, queue, store>>

Next == \/ \E c \in Chan : Add(c) \/ Change(c) \/ Sync(c) \/ Retire(c)
        \/ Stop \/ StoreShutdown \/ Crash \/ Start
        \/ \E op \in Op : Enqueue(op)
        \/ Process

(* The sync routine runs periodically; goroutines and the queue's routine   *)
(* run.                                                                     *)
Fairness == /\ \A c \in Chan : WF_vars(Sync(c))
            /\ \A op \in Op : WF_vars(Enqueue(op))
            /\ WF_vars(Process)

Spec == Init /\ [][Next]_vars /\ Fairness

-----------------------------------------------------------------------------
TypeOK == /\ mode \in {"running", "stopping", "stopped", "crashed"}
          /\ cache \in [Chan -> Held]
          /\ lives \in [Chan -> 0 .. MaxLives]
          /\ saved \in [Chan -> Held]
          /\ BagToSet(spawned) \subseteq Op
          /\ queue \in Seq(Op)
          /\ disk \in [Chan -> Held]
          /\ failures \in 0 .. MaxFailures

(* The store never goes back to a lower nonce while it holds a channel,     *)
(* whether the states are of one life or of several, though operations      *)
(* overtake one another on their way to the queue.                          *)
NeverOlder(c) ==
    disk[c] # Absent /\ disk'[c] # Absent => disk'[c].version >= disk[c].version
StoreNeverBack == [][\A c \in Chan : NeverOlder(c)]_vars

(* s is t or an earlier state of the same channel.                          *)
s \preceq t == s.life < t.life \/ (s.life = t.life /\ s.version <= t.version)

(* What is stored of a running channel is a state it is in or has been in,  *)
(* in this life or an earlier one, across crashes and restarts: the payment *)
(* manager never starts again behind its own store, where all it wrote would*)
(* be discarded as old, unless the channel has been retired since.          *)
StoreNeverAhead ==
    \A c \in Chan : cache[c] # Absent /\ disk[c] # Absent => disk[c] \preceq cache[c]

(* A state the cache has reached gets to the disk, whatever operations are  *)
(* reordered or given up, as long as the channel stays and the process runs:*)
(* it, a later one, or one of an earlier life whose nonce is as high, and   *)
(* which then hides it.                                                     *)
CatchesUp ==
    \A c \in Chan, s \in State :
        (mode = "running" /\ cache[c] = s) ~>
            \/ disk[c] # Absent /\ disk[c].version >= s.version
            \/ cache[c] = Absent
            \/ mode # "running"

(* "Shutdown safely shuts down the component" (paychstore_impl.go:170) and  *)
(* "Stop and finalising all routines..." (154): after an orderly shutdown   *)
(* the store holds the states the payment manager pushed, the ones the      *)
(* saved reservations belong to.                                            *)
ShutdownKeepsStates ==
    mode = "stopped" => \A c \in Chan : saved[c] # Absent => disk[c] = saved[c]
=============================================================================
