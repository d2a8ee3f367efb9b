---------------------------- MODULE ChannelProofs ----------------------------
(***************************************************************************)
(* Proofs about a node's payment channels, for any channels, networks and   *)
(* bounds:                                                                 *)
(*   - PaychStore: how far what is stored of a channel, and what is on its  *)
(*     way there, can be from the state the channel is in;                 *)
(*   - PaychMon: whoever tells a channel's monitor finds it;               *)
(*   - Routes: what the routes over channels look like, and how long one   *)
(*     lasts after its channel.                                            *)
(* The three share no state.                                                *)
(***************************************************************************)
EXTENDS PaychStore, PaychMon, Routes, SequenceTheorems, TLAPS

-----------------------------------------------------------------------------
(* Nothing is under way, and the process is not there.                      *)
Quiet == spawned = EmptyBag /\ queue = <<>> /\ cache = Nowhere

(* The operations that are on their way to the store.                       *)
Pending == BagToSet(spawned) \cup {queue[i] : i \in DOMAIN queue}

(* s is stored of c, or on its way there.                                   *)
Left(c, s) == disk[c] = s \/ UpsertOf(c, s) \in Pending

(* What is stored of a channel, and what is on its way there, is of a life  *)
(* the channel has had; and while it is there, it is or has been in it.     *)
ChanInv(c) ==
    /\ cache[c] # Absent => cache[c].life <= lives[c]
    /\ \A s \in State : Left(c, s) =>
          /\ s.life <= lives[c]
          /\ cache[c] # Absent => s \preceq cache[c]

IInv == /\ TypeOK
        /\ mode \in {"stopped", "crashed"} => Quiet
        /\ \A c \in Chan : ChanInv(c)

-----------------------------------------------------------------------------
(* What the operations on bags do to the sets behind them.                  *)
LEMMA BagFacts ==
  ASSUME NEW B, NEW S
  PROVE  /\ BagToSet(SetToBag(S)) = S
         /\ BagToSet(B (+) SetToBag(S)) = BagToSet(B) \cup S
         /\ BagToSet(B (-) SetToBag(S)) \subseteq BagToSet(B)
         /\ BagToSet(EmptyBag) = {}
BY DEF BagToSet, SetToBag, (+), (-), EmptyBag

(* Nothing else is under way once nothing is spawned or queued.             *)
LEMMA QuietPending == Quiet => Pending = {}
BY BagFacts DEF Quiet, Pending

(* A goroutine that is started adds its operation to what is under way.     *)
LEMMA SpawnPending ==
  ASSUME NEW S, spawned' = spawned (+) SetToBag(S), queue' = queue
  PROVE  /\ Pending' = Pending \cup S
         /\ BagToSet(spawned)' = BagToSet(spawned) \cup S
BY BagFacts DEF Pending

(* To enter the queue is to stay under way.                                 *)
LEMMA EnqueuePending ==
  ASSUME TypeOK, NEW op \in Op, Enqueue(op)
  PROVE  /\ Pending' \subseteq Pending
         /\ BagToSet(spawned)' \subseteq BagToSet(spawned)
         /\ queue' \in Seq(Op)
<1>1. queue \in Seq(Op) /\ op \in BagToSet(spawned) /\ queue' = Append(queue, op)
  BY DEF TypeOK, Enqueue, BagIn
<1>2. BagToSet(spawned)' \subseteq BagToSet(spawned)
  BY BagFacts DEF Enqueue
<1>3. ASSUME NEW i \in DOMAIN queue'
      PROVE  queue'[i] \in Pending
  BY <1>1, AppendProperties, LenProperties DEF Pending
<1>4. queue' \in Seq(Op)
  BY <1>1, AppendProperties
<1> QED
  BY <1>2, <1>3, <1>4 DEF Pending

(* To be worked off is to be under way no more.                             *)
LEMMA ProcessPending ==
  ASSUME TypeOK, queue # <<>>, queue' = Tail(queue), spawned' = spawned
  PROVE  /\ Pending' \subseteq Pending
         /\ Head(queue) \in Pending /\ Head(queue) \in Op
         /\ queue' \in Seq(Op)
<1>1. queue \in Seq(Op)
  BY DEF TypeOK
<1>2. Len(queue) \in Nat \ {0} /\ DOMAIN queue = 1 .. Len(queue)
  BY <1>1, EmptySeq, LenProperties
<1>3. /\ queue' \in Seq(Op) /\ Len(queue') = Len(queue) - 1
      /\ \A i \in 1 .. Len(queue') : queue'[i] = queue[i + 1]
      /\ Head(queue) \in Op
  BY <1>1, HeadTailProperties
<1>4. ASSUME NEW i \in DOMAIN queue'
      PROVE  queue'[i] \in Pending
  <2>1. i \in 1 .. Len(queue') /\ i + 1 \in DOMAIN queue
    BY <1>2, <1>3, LenProperties
  <2> QED
    BY <1>3, <2>1 DEF Pending
<1>5. Head(queue) = queue[1] /\ 1 \in DOMAIN queue
  BY <1>1, <1>2
<1> QED
  BY <1>3, <1>4, <1>5 DEF Pending

(* A state is no later than itself, and every state of a life that is over  *)
(* is earlier than those of the next.                                       *)
LEMMA InOrder ==
  /\ \A s \in State : s \preceq s
  /\ \A s, t \in State : s.life < t.life => s \preceq t
BY BoundsAssumption DEF \preceq, State, Version

(* A channel is as sound as before when its state is the same and nothing   *)
(* new is stored or under way for it, unless it is what it is in.           *)
LEMMA ChanKept ==
  ASSUME NEW c \in Chan, TypeOK, ChanInv(c), cache'[c] = cache[c], lives'[c] = lives[c],
         \A s \in State : Left(c, s)' => Left(c, s) \/ s = cache[c]
  PROVE  ChanInv(c)'
<1>1. ASSUME NEW s \in State, Left(c, s)'
      PROVE  /\ s.life <= lives'[c]
             /\ cache'[c] # Absent => s \preceq cache'[c]
  <2>1. CASE Left(c, s)
    BY <2>1 DEF ChanInv
  <2>2. CASE s = cache[c]
    BY <2>2, InOrder, AbsentAssumption DEF ChanInv
  <2> QED
    BY <1>1, <2>1, <2>2
<1> QED
  BY <1>1 DEF ChanInv

-----------------------------------------------------------------------------
(* A store that starts empty.                                               *)
LEMMA InitIInv == Init => IInv
<1> SUFFICES ASSUME Init PROVE IInv
  OBVIOUS
<1>1. Pending = {}
  BY BagFacts DEF Init, Pending
<1> QED
  BY <1>1, BagFacts, EmptySeq, BoundsAssumption, AbsentAssumption
  DEF Init, IInv, TypeOK, ChanInv, Left, Nowhere, Held

(* What a goroutine of Upsert or Remove is started with is an operation.    *)
LEMMA OpTypes ==
  ASSUME NEW c \in Chan
  PROVE  /\ \A s \in State : UpsertOf(c, s) \in Op
         /\ RemovalOf(c) \in Op
         /\ \A d, s : UpsertOf(d, s) # RemovalOf(c)
         /\ \A d, s, t : UpsertOf(c, t) = UpsertOf(d, s) => c = d /\ s = t
BY DEF UpsertOf, RemovalOf, Op, Upsert, Removal

(* A channel that is added starts a life of its own: whatever is left is of *)
(* an earlier one.                                                          *)
LEMMA AddInv == ASSUME IInv, NEW c \in Chan, Add(c) PROVE IInv'
<1> DEFINE first == Added(c)
<1>1. /\ mode' = mode /\ saved' = saved /\ queue' = queue
      /\ disk' = disk /\ failures' = failures /\ mode = "running"
      /\ lives[c] < MaxLives
      /\ lives' = [lives EXCEPT ![c] = lives[c] + 1]
      /\ cache' = [cache EXCEPT ![c] = first]
      /\ spawned' = spawned (+) SetToBag({UpsertOf(c, first)})
  BY DEF Add, Spawn, store
<1>2. /\ first \in State /\ first.life = lives[c] + 1
      /\ lives[c] \in Nat /\ lives[c] + 1 \in 0 .. MaxLives
  BY <1>1, BoundsAssumption DEF Added, State, Version, IInv, TypeOK
<1> HIDE DEF first
<1>3. /\ Pending' = Pending \cup {UpsertOf(c, first)}
      /\ BagToSet(spawned)' = BagToSet(spawned) \cup {UpsertOf(c, first)}
  BY <1>1, SpawnPending
<1>4. TypeOK'
  <2>1. cache' \in [Chan -> Held] /\ lives' \in [Chan -> 0 .. MaxLives]
    BY <1>1, <1>2 DEF IInv, TypeOK, Held
  <2>2. BagToSet(spawned)' \subseteq Op
    BY <1>2, <1>3, OpTypes DEF IInv, TypeOK
  <2> QED
    BY <1>1, <2>1, <2>2 DEF IInv, TypeOK
<1>5. ASSUME NEW d \in Chan
      PROVE  ChanInv(d)'
  <2>1. CASE d = c
    <3>1. cache'[c] = first /\ lives'[c] = lives[c] + 1
      BY <1>1 DEF IInv, TypeOK
    <3>2. ASSUME NEW s \in State, Left(c, s)'
          PROVE  s.life <= lives'[c] /\ s \preceq first
      <4>1. CASE s = first
        BY <1>2, <3>1, <4>1, InOrder
      <4>2. CASE s # first
        <5>1. Left(c, s)
          BY <1>1, <1>3, <3>2, <4>2, OpTypes DEF Left
        <5>2. s.life <= lives[c] /\ s.life \in Nat
          BY <5>1 DEF IInv, ChanInv, State
        <5>3. s.life < first.life /\ s.life <= lives'[c]
          BY <1>2, <3>1, <5>2
        <5> QED
          BY <1>2, <5>3, InOrder
      <4> QED
        BY <4>1, <4>2
    <3> QED
      BY <1>2, <2>1, <3>1, <3>2 DEF ChanInv
  <2>2. CASE d # c
    <3>1. cache'[d] = cache[d] /\ lives'[d] = lives[d]
      BY <1>1, <2>2 DEF IInv, TypeOK
    <3>2. \A s \in State : Left(d, s)' => Left(d, s)
      BY <1>1, <1>3, <2>2, OpTypes DEF Left
    <3> QED
      BY <3>1, <3>2, ChanKept DEF IInv
  <2> QED
    BY <2>1, <2>2
<1> QED
  BY <1>1, <1>4, <1>5 DEF IInv

(* A state that changes gets newer.                                         *)
LEMMA ChangeInv == ASSUME IInv, NEW c \in Chan, Change(c) PROVE IInv'
<1> DEFINE next == [cache[c] EXCEPT !.version = @ + 1]
<1>1. /\ UNCHANGED <<mode, lives, saved, spawned, queue, disk, failures>>
      /\ cache' = [cache EXCEPT ![c] = next]
      /\ cache[c] \in State /\ cache[c].version < MaxVersion
  BY DEF Change, store, IInv, TypeOK, Held
<1>2. /\ next \in State /\ next.life = cache[c].life
      /\ next.version = cache[c].version + 1
  BY <1>1, BoundsAssumption DEF State, Version
<1> HIDE DEF next
<1>3. Pending' = Pending
  BY <1>1 DEF Pending
<1>4. TypeOK'
  BY <1>1, <1>2 DEF IInv, TypeOK, Held
<1>5. ASSUME NEW d \in Chan
      PROVE  ChanInv(d)'
  <2>1. CASE d = c
    <3>1. cache'[c] = next /\ cache[c] # Absent
      BY <1>1, AbsentAssumption DEF IInv, TypeOK
    <3>2. \A s \in State : s \preceq cache[c] => s \preceq next
      BY <1>1, <1>2 DEF \preceq, State, Version
    <3>3. \A s \in State : Left(c, s)' <=> Left(c, s)
      BY <1>1, <1>3 DEF Left
    <3> QED
      BY <1>1, <1>2, <2>1, <3>1, <3>2, <3>3 DEF IInv, ChanInv
  <2>2. CASE d # c
    <3>1. cache'[d] = cache[d]
      BY <1>1, <2>2 DEF IInv, TypeOK
    <3> QED
      BY <1>1, <1>3, <3>1, ChanKept DEF IInv, Left
  <2> QED
    BY <2>1, <2>2
<1>6. mode \notin {"stopped", "crashed"}
  BY DEF Change
<1> QED
  BY <1>1, <1>4, <1>5, <1>6 DEF IInv

(* The sync routine sends the state a channel is in.                        *)
LEMMA SyncInv == ASSUME IInv, NEW c \in Chan, Sync(c) PROVE IInv'
<1>1. /\ UNCHANGED <<mode, cache, lives, saved, queue, disk, failures>>
      /\ mode = "running"
      /\ spawned' = spawned (+) SetToBag({UpsertOf(c, cache[c])})
      /\ cache[c] \in State
  BY DEF Sync, Spawn, store, IInv, TypeOK, Held
<1>2. /\ Pending' = Pending \cup {UpsertOf(c, cache[c])}
      /\ BagToSet(spawned)' = BagToSet(spawned) \cup {UpsertOf(c, cache[c])}
  BY <1>1, SpawnPending
<1>3. TypeOK'
  <2>1. BagToSet(spawned)' \subseteq Op
    <3>1. UpsertOf(c, cache[c]) \in Op
      BY <1>1, OpTypes
    <3> QED
      BY <1>2, <3>1 DEF IInv, TypeOK
  <2> QED
    BY <1>1, <2>1 DEF IInv, TypeOK
<1>4. ASSUME NEW d \in Chan
      PROVE  ChanInv(d)'
  <2>1. \A s \in State : Left(d, s)' => Left(d, s) \/ s = cache[d]
    BY <1>1, <1>2, OpTypes DEF Left
  <2> QED
    BY <1>1, <2>1, ChanKept DEF IInv
<1> QED
  BY <1>1, <1>3, <1>4 DEF IInv

(* A channel that is retired has no state to be compared with.              *)
LEMMA RetireInv == ASSUME IInv, NEW c \in Chan, Retire(c) PROVE IInv'
<1>1. /\ UNCHANGED <<mode, lives, saved, queue, disk, failures>>
      /\ mode = "running"
      /\ spawned' = spawned (+) SetToBag({RemovalOf(c)})
      /\ cache' = [cache EXCEPT ![c] = Absent]
  BY DEF Retire, Spawn, store
<1>2. /\ Pending' = Pending \cup {RemovalOf(c)}
      /\ BagToSet(spawned)' = BagToSet(spawned) \cup {RemovalOf(c)}
  BY <1>1, SpawnPending
<1>3. TypeOK'
  <2>1. cache' \in [Chan -> Held]
    BY <1>1 DEF IInv, TypeOK, Held
  <2>2. BagToSet(spawned)' \subseteq Op
    BY <1>2, OpTypes DEF IInv, TypeOK
  <2> QED
    BY <1>1, <2>1, <2>2 DEF IInv, TypeOK
<1>4. \A d \in Chan, s \in State : Left(d, s)' => Left(d, s)
  BY <1>1, <1>2, OpTypes DEF Left
<1>5. ASSUME NEW d \in Chan
      PROVE  ChanInv(d)'
  <2>1. CASE d = c
    <3>1. cache'[c] = Absent
      BY <1>1 DEF IInv, TypeOK
    <3> QED
      BY <1>1, <1>4, <2>1, <3>1 DEF IInv, ChanInv
  <2>2. CASE d # c
    <3>1. cache'[d] = cache[d]
      BY <1>1, <2>2 DEF IInv, TypeOK
    <3> QED
      BY <1>1, <1>4, <3>1, ChanKept DEF IInv
  <2> QED
    BY <2>1, <2>2
<1> QED
  BY <1>1, <1>3, <1>5 DEF IInv

(* What a shutdown sends is the state every channel is in.                  *)
LEMMA StopInv == ASSUME IInv, Stop PROVE IInv'
<1> DEFINE pushed == {UpsertOf(c, cache[c]) : c \in {d \in Chan : cache[d] # Absent}}
<1>1. /\ UNCHANGED <<cache, lives, queue, disk, failures>>
      /\ mode' = "stopping" /\ saved' = cache
      /\ spawned' = spawned (+) SetToBag(pushed)
  BY DEF Stop, Push, store
<1>2. /\ Pending' = Pending \cup pushed
      /\ BagToSet(spawned)' = BagToSet(spawned) \cup pushed
  <2> HIDE DEF pushed
  <2> QED
    BY <1>1, SpawnPending
<1>3. TypeOK'
  <2>1. pushed \subseteq Op
    BY OpTypes DEF IInv, TypeOK, Held
  <2>2. BagToSet(spawned)' \subseteq Op
    BY <1>2, <2>1 DEF IInv, TypeOK
  <2> QED
    BY <1>1, <2>2 DEF IInv, TypeOK
<1>4. ASSUME NEW d \in Chan
      PROVE  ChanInv(d)'
  <2>1. ASSUME NEW s \in State, Left(d, s)'
        PROVE  Left(d, s) \/ s = cache[d]
    <3>1. CASE UpsertOf(d, s) \in pushed
      <4>1. PICK e \in Chan : UpsertOf(d, s) = UpsertOf(e, cache[e])
        BY <3>1
      <4> QED
        BY <4>1, OpTypes
    <3>2. CASE UpsertOf(d, s) \notin pushed
      <4> HIDE DEF pushed
      <4> QED
        BY <1>1, <1>2, <2>1, <3>2 DEF Left
    <3> QED
      BY <3>1, <3>2
  <2> HIDE DEF pushed
  <2> QED
    BY <1>1, <2>1, ChanKept DEF IInv
<1> QED
  BY <1>1, <1>3, <1>4 DEF IInv

-----------------------------------------------------------------------------
(* The queue, and the life of the process.                                  *)
LEMMA EnqueueInv == ASSUME IInv, NEW op \in Op, Enqueue(op) PROVE IInv'
<1>1. UNCHANGED <<mode, cache, lives, saved, disk, failures>>
  BY DEF Enqueue, store
<1>2. /\ Pending' \subseteq Pending
      /\ BagToSet(spawned)' \subseteq BagToSet(spawned)
      /\ queue' \in Seq(Op)
  BY EnqueuePending DEF IInv
<1>3. TypeOK'
  BY <1>1, <1>2 DEF IInv, TypeOK
<1>4. ASSUME NEW d \in Chan
      PROVE  ChanInv(d)'
  BY <1>1, <1>2, ChanKept DEF IInv, Left
<1>5. ~Quiet
  BY BagFacts DEF Enqueue, Quiet, BagIn
<1> QED
  BY <1>1, <1>3, <1>4, <1>5 DEF IInv

(* What is written is what the operation carries, or what is there.         *)
LEMMA ProcessInv == ASSUME IInv, Process PROVE IInv'
<1> DEFINE op == Head(queue)
<1>1. /\ UNCHANGED <<mode, cache, lives, saved, spawned>>
      /\ queue # <<>> /\ queue' = Tail(queue)
      /\ \/ disk' = [disk EXCEPT ![op.ch] = Applied(op)] /\ failures' = failures
         \/ failures < MaxFailures /\ failures' = failures + 1 /\ disk' = disk
  BY DEF Process
<1>2. /\ Pending' \subseteq Pending
      /\ op \in Pending /\ op \in Op
      /\ queue' \in Seq(Op)
  BY <1>1, ProcessPending DEF IInv
<1> HIDE DEF op
<1>3. ASSUME NEW c \in Chan
      PROVE  disk'[c] \in Held /\ \A s \in State : Left(c, s)' => Left(c, s)
  <2>1. CASE c = op.ch /\ disk' = [disk EXCEPT ![op.ch] = Applied(op)]
    <3>1. disk'[c] = Applied(op)
      BY <2>1 DEF IInv, TypeOK
    <3>2. CASE op.kind = "remove"
      <4>1. disk'[c] = Absent
        BY <3>1, <3>2 DEF Applied
      <4> QED
        BY <1>2, <4>1, AbsentAssumption DEF Left, Held
    <3>3. CASE op.kind # "remove"
      <4>1. op.state \in State /\ op = UpsertOf(c, op.state)
        BY <1>2, <2>1, <3>3 DEF Op, Upsert, Removal, UpsertOf
      <4>2. disk'[c] = disk[c] \/ disk'[c] = op.state
        BY <2>1, <3>1, <3>3 DEF Applied
      <4> QED
        BY <1>2, <4>1, <4>2 DEF IInv, TypeOK, Held, Left
    <3> QED
      BY <3>2, <3>3
  <2>2. CASE ~(c = op.ch /\ disk' = [disk EXCEPT ![op.ch] = Applied(op)])
    <3>1. disk'[c] = disk[c]
      BY <1>1, <2>2 DEF IInv, TypeOK
    <3> QED
      BY <1>2, <3>1 DEF IInv, TypeOK, Left
  <2> QED
    BY <2>1, <2>2
<1>4. TypeOK'
  <2>1. disk' \in [Chan -> Held]
    <3>1. CASE disk' = disk
      BY <3>1 DEF IInv, TypeOK
    <3>2. CASE disk' = [disk EXCEPT ![op.ch] = Applied(op)]
      <4>1. disk' \in [Chan -> Held \cup {Applied(op)}]
        BY <3>2 DEF IInv, TypeOK
      <4> QED
        BY <1>3, <4>1
    <3> QED
      BY <1>1, <3>1, <3>2
  <2>2. failures' \in 0 .. MaxFailures
    BY <1>1, BoundsAssumption DEF IInv, TypeOK
  <2> QED
    BY <1>1, <1>2, <2>1, <2>2 DEF IInv, TypeOK
<1>5. ASSUME NEW d \in Chan
      PROVE  ChanInv(d)'
  BY <1>1, <1>3, ChanKept DEF IInv
<1>6. ~Quiet
  BY <1>1 DEF Quiet
<1> QED
  BY <1>1, <1>4, <1>5, <1>6 DEF IInv

(* The process ends, in order or not, and nothing is left under way.        *)
LEMMA EndInv ==
  ASSUME IInv, StoreShutdown \/ Crash
  PROVE  IInv'
<1>1. /\ UNCHANGED <<lives, saved, disk, failures>>
      /\ mode' \in {"stopped", "crashed"}
      /\ spawned' = EmptyBag /\ queue' = <<>> /\ cache' = Nowhere
  BY DEF StoreShutdown, Crash, store
<1>2. TypeOK'
  <2>1. BagToSet(spawned)' = {}
    BY <1>1, BagFacts
  <2>2. cache' \in [Chan -> Held]
    BY <1>1 DEF Nowhere, Held
  <2> QED
    BY <1>1, <2>1, <2>2, EmptySeq DEF IInv, TypeOK
<1>3. ASSUME NEW d \in Chan
      PROVE  ChanInv(d)'
  <2>1. cache'[d] = Absent
    BY <1>1 DEF Nowhere
  <2>2. Pending' = {}
    BY <1>1, BagFacts DEF Pending
  <2>3. \A s \in State : Left(d, s)' => Left(d, s)
    BY <1>1, <2>2 DEF Left
  <2> QED
    BY <1>1, <2>1, <2>3 DEF IInv, ChanInv
<1>4. Quiet'
  BY <1>1 DEF Quiet, Nowhere
<1> QED
  BY <1>2, <1>3, <1>4 DEF IInv

(* A start takes every channel up at the state that is stored.              *)
LEMMA StartInv == ASSUME IInv, Start PROVE IInv'
<1>1. /\ UNCHANGED <<lives, saved, spawned, queue, disk, failures>>
      /\ mode' = "running" /\ cache' = disk /\ Quiet
  BY DEF Start, Load, store, IInv
<1>2. Pending' = {}
  BY <1>1, QuietPending DEF Pending
<1>3. TypeOK'
  BY <1>1 DEF IInv, TypeOK
<1>4. ASSUME NEW d \in Chan
      PROVE  ChanInv(d)'
  <2>1. \A s \in State : Left(d, s)' => s = cache'[d] /\ Left(d, s)
    BY <1>1, <1>2 DEF Left
  <2>2. cache'[d] # Absent => cache'[d] \in State /\ Left(d, cache'[d])
    BY <1>1 DEF IInv, TypeOK, Held, Left
  <2> QED
    BY <1>1, <2>1, <2>2, InOrder DEF IInv, ChanInv
<1> QED
  BY <1>1, <1>3, <1>4 DEF IInv

(* A step that changes nothing.                                             *)
LEMMA StutterInv == ASSUME IInv, UNCHANGED vars PROVE IInv'
<1>1. /\ UNCHANGED <<mode, cache, lives, saved, spawned, queue, disk, failures>>
      /\ Pending' = Pending
  BY DEF vars, Pending
<1> QED
  BY <1>1 DEF IInv, TypeOK, ChanInv, Left, Quiet, Nowhere

(* The invariant is inductive.                                              *)
LEMMA NextIInv == IInv /\ [Next]_vars => IInv'
<1> SUFFICES ASSUME IInv, [Next]_vars PROVE IInv'
  OBVIOUS
<1>1. CASE \E c \in Chan : Add(c) \/ Change(c) \/ Sync(c) \/ Retire(c)
  BY <1>1, AddInv, ChangeInv, SyncInv, RetireInv
<1>2. CASE Stop \/ StoreShutdown \/ Crash \/ Start
  BY <1>2, StopInv, EndInv, StartInv
<1>3. CASE \E op \in Op : Enqueue(op)
  BY <1>3, EnqueueInv
<1>4. CASE Process
  BY <1>4, ProcessInv
<1>5. CASE UNCHANGED vars
  BY <1>5, StutterInv
<1> QED
  BY <1>1, <1>2, <1>3, <1>4, <1>5 DEF Next

(* The invariant of the store and of what is on its way there.              *)
THEOREM Invariant == Spec => []IInv
BY InitIInv, NextIInv, PTL DEF Spec

(* What is stored of a channel is a state it is in or has been in, in this  *)
(* life or an earlier one: the payment manager never starts behind its own  *)
(* store, whatever crashes, however the operations overtake one another,    *)
(* however often a channel is retired and added again and however far the   *)
(* nonces have come (NewPaymentManagerImpl, syncRoutine, processQueue).     *)
THEOREM StoreNeverAheadHolds == Spec => []StoreNeverAhead
<1>1. IInv => StoreNeverAhead
  BY DEF IInv, TypeOK, Held, ChanInv, Left, StoreNeverAhead
<1> QED
  BY <1>1, Invariant, PTL

-----------------------------------------------------------------------------
(* As long as the nonces have not started again from 0, the store takes a   *)
(* state for old exactly when it is.                                        *)
LEMMA OldIsOlder ==
  ASSUME NEW current \in State, NEW new \in State, MaxVersion + Window < Word
  PROVE  Old(current, new) <=> current.version > new.version
<1>1. Nonce(current) = current.version /\ Nonce(new) = new.version
  BY BoundsAssumption, WordAssumption DEF Nonce, State, Version
<1>2. ~((Word - 1) - current.version < Window)
  BY BoundsAssumption, WordAssumption DEF State, Version
<1> QED
  BY <1>1, <1>2 DEF Old

(* The store never goes back to a lower nonce of a channel it holds, in     *)
(* whatever order the operations reach the queue, as long as no nonce comes *)
(* within the window of its word's end (upsert in processQueue): past that  *)
(* the test for an overflow may take an old state for a new one.            *)
THEOREM StoreNeverBackHolds ==
  ASSUME MaxVersion + Window < Word
  PROVE  Spec => StoreNeverBack
<1>1. ASSUME TypeOK, Process, NEW c \in Chan
      PROVE  NeverOlder(c)
  <2> DEFINE op == Head(queue)
  <2>1. op \in Op
    BY <1>1, ProcessPending DEF Process
  <2> SUFFICES ASSUME disk[c] # Absent, disk'[c] # Absent
               PROVE  disk'[c].version >= disk[c].version
    BY DEF NeverOlder
  <2>2. disk[c] \in State /\ disk[c].version >= disk[c].version
    BY <1>1 DEF TypeOK, Held, State, Version
  <2> HIDE DEF op
  <2>3. CASE c = op.ch /\ disk' = [disk EXCEPT ![op.ch] = Applied(op)]
    <3>1. disk'[c] = Applied(op)
      BY <1>1, <2>3 DEF TypeOK
    <3>2. op.kind # "remove" /\ op.state \in State
      BY <2>1, <3>1 DEF Applied, Op, Upsert, Removal
    <3>3. CASE Old(disk[c], op.state)
      BY <2>2, <2>3, <3>1, <3>2, <3>3 DEF Applied
    <3>4. CASE ~Old(disk[c], op.state)
      <4>1. disk'[c] = op.state
        BY <2>3, <3>1, <3>2, <3>4 DEF Applied
      <4>2. ~(disk[c].version > op.state.version)
        BY <2>2, <3>2, <3>4, OldIsOlder
      <4> QED
        BY <2>2, <3>2, <4>1, <4>2 DEF State, Version
    <3> QED
      BY <3>3, <3>4
  <2>4. CASE ~(c = op.ch /\ disk' = [disk EXCEPT ![op.ch] = Applied(op)])
    <3>1. disk' = disk \/ disk' = [disk EXCEPT ![op.ch] = Applied(op)]
      BY <1>1 DEF Process, op
    <3>2. disk'[c] = disk[c]
      BY <1>1, <2>4, <3>1 DEF TypeOK
    <3> QED
      BY <2>2, <3>2
  <2> QED
    BY <2>3, <2>4
<1>2. ASSUME TypeOK, [Next]_vars, ~Process, NEW c \in Chan
      PROVE  NeverOlder(c)
  <2>1. disk' = disk
    BY <1>2 DEF Next, Add, Change, Sync, Retire, Stop, StoreShutdown, Crash, Start,
                Enqueue, store, vars
  <2> QED
    BY <1>2, <2>1 DEF NeverOlder, TypeOK, Held, State, Version
<1>3. TypeOK /\ [Next]_vars => [\A c \in Chan : NeverOlder(c)]_vars
  BY <1>1, <1>2
<1>4. IInv => TypeOK
  BY DEF IInv
<1> QED
  BY <1>3, <1>4, Invariant, PTL DEF Spec, StoreNeverBack

-----------------------------------------------------------------------------
(* The monitor of a channel.  A caller that has got as far as to send has   *)
(* found the control; only the routine takes it away, under a write lock.   *)
MonCall == [kind : {"none", "add", "renew", "retire"},
            step : {"idle", "asked", "enlisted", "decided", "sending"},
            settlement : Time \cup {NoTime}]

MonInv ==
    /\ control \in Control \cup {NoControl}
    /\ call \in [Call -> MonCall]
    /\ \A q \in Call : call[q].kind \in {"add", "renew"} => call[q].settlement \in Time
    /\ SendersAreHeard

(* A step of one call keeps the invariant.                                  *)
LEMMA MonStep ==
    ASSUME MonInv,
           NEW q \in Call, Step(q)
    PROVE  MonInv'
<1> USE DEF MonInv, MonCall, SendersAreHeard, Senders
<1>1. ASSUME NEW t \in Offers, AddPaych(q, t) PROVE MonInv'
  <2>1. t \in Time
    BY <1>1, TimesAssumption DEF Time
  <2> QED
    BY <1>1, <2>1 DEF AddPaych, Asked, Idle
<1>2. ASSUME NEW t \in Time, Decide(q, t) PROVE MonInv'
  BY <1>2 DEF Decide, Asked, Idle
<1>3. CASE Enlist(q)
  BY <1>3 DEF Enlist, Go, At
<1>4. CASE Track(q)
  <2>1. call' = [call EXCEPT ![q] = Idle]
    BY <1>4 DEF Track, Return
  <2>2. call' \in [Call -> MonCall]
    BY <2>1 DEF Idle
  <2>3. CASE UNCHANGED control
    BY <2>1, <2>2, <2>3 DEF Idle
  <2>4. CASE control' = [deadline |-> call[q].settlement, renew |-> NoTime,
                         retire |-> FALSE, phase |-> "tracking"]
    <3>1. call[q].settlement \in Time
      BY <1>4 DEF Track, At
    <3>2. control' \in Control
      BY <2>4, <3>1 DEF Control
    <3> QED
      BY <2>1, <2>2, <3>2, ControlAssumption DEF Idle, Control, Time
  <2> QED
    BY <1>4, <2>3, <2>4 DEF Track
<1>5. CASE Renew(q)
  BY <1>5 DEF Renew, Go, At
<1>6. CASE SendRenew(q)
  <2>1. control \in Control /\ call[q].settlement \in Time
    BY <1>6 DEF SendRenew, At
  <2>2. control' \in Control
    BY <1>6, <2>1 DEF SendRenew, Control
  <2>3. control' # NoControl
    BY <2>2, ControlAssumption DEF Control, Time
  <2> QED
    BY <1>6, <2>2, <2>3 DEF SendRenew, Return, Idle
<1>7. CASE RetirePaych(q)
  BY <1>7 DEF RetirePaych, Asked, Idle
<1>8. CASE SendRetire(q)
  <2>1. control \in Control
    BY <1>8 DEF SendRetire, At
  <2>2. control' \in Control
    BY <1>8, <2>1 DEF SendRetire, Control
  <2>3. control' # NoControl
    BY <2>2, ControlAssumption DEF Control, Time
  <2> QED
    BY <1>8, <2>2, <2>3 DEF SendRetire, Return, Idle
<1>9. CASE Fail(q)
  BY <1>9 DEF Fail, Return, Idle
<1> QED
  BY <1>1, <1>2, <1>3, <1>4, <1>5, <1>6, <1>7, <1>8, <1>9 DEF Step

(* So does a step of the routine, of the store, of the chain or of time.    *)
LEMMA MonKept ==
    ASSUME MonInv, [MonNext]_monVars
    PROVE  MonInv'
<1> USE DEF MonInv, SendersAreHeard, Senders
<1>1. ASSUME control \in Control, control' \in Control, UNCHANGED call
      PROVE  MonInv'
  BY <1>1, ControlAssumption DEF Control, Time, MonCall
<1>2. CASE TakeRenew
  BY <1>1, <1>2 DEF TakeRenew, Tracking, Control
<1>3. CASE Leave
  BY <1>1, <1>3 DEF Leave, Tracking, Control
<1>4. CASE Withdraw
  BY <1>1, <1>4 DEF Withdraw, Control
<1>5. CASE Forget
  BY <1>5 DEF Forget, MayForget, MayWrite, MonCall
<1>6. CASE UNCHANGED <<control, call>>
  BY <1>6 DEF MonCall, Control, Time
<1> QED
  BY <1>2, <1>3, <1>4, <1>5, <1>6, MonStep
     DEF MonNext, Work, Settle, TimePasses, monVars

(* Whoever sends to the routine of a monitor, Renew or Retire, still finds  *)
(* its channels, however far the routine has got in leaving (paychmon:      *)
(* Renew, Retire, trackRoutine), for any number of calls and any times.     *)
THEOREM SendersAreHeardHolds == MonSpec => []SendersAreHeard
<1>1. MonInit => MonInv
  BY DEF MonInit, Idle, MonInv, MonCall, SendersAreHeard, Senders
<1>2. MonInv /\ [MonNext]_monVars => MonInv'
  BY MonKept
<1>3. MonInv => SendersAreHeard
  BY DEF MonInv
<1> QED
  BY <1>1, <1>2, <1>3, PTL DEF MonSpec

-----------------------------------------------------------------------------
(* Routes: what is left of a route that is trimmed and cut starts with the  *)
(* node it came from, goes on like the route, and visits no node twice.     *)
LEMMA CutRoute ==
    ASSUME NEW m \in Node, NEW n \in Node, NEW r \in Seq(Node),
           NEW t \in TrimRoute(m, <<n>> \o r), NEW p \in Prefixes(t), Len(p) > 1
    PROVE  /\ p \in Seq(Node) /\ Len(p) \in 2 .. MaxHop /\ Len(p) <= Len(r) + 1
           /\ p[1] = n /\ \A i \in 2 .. Len(p) : p[i] = r[i - 1]
           /\ IsInjective(<<m>> \o p)
<1>0. MaxHop \in Nat /\ MaxHop > 0
  BY RoutesAssumption
<1>1. PICK s \in Seq(Node) : s = <<n>> \o r
  <2>1. <<n>> \in Seq(Node)
    OBVIOUS
  <2> QED
    BY <2>1, ConcatProperties
<1>2. /\ Len(s) = Len(r) + 1 /\ s[1] = n /\ \A i \in 2 .. Len(r) + 1 : s[i] = r[i - 1]
      /\ Len(r) \in Nat
  <2>1. Len(<<n>>) = 1 /\ <<n>>[1] = n /\ <<n>> \in Seq(Node) /\ Len(r) \in Nat
    OBVIOUS
  <2>2. /\ Len(s) = Len(<<n>>) + Len(r)
        /\ \A i \in 1 .. Len(<<n>>) + Len(r) :
             s[i] = IF i <= Len(<<n>>) THEN <<n>>[i] ELSE r[i - Len(<<n>>)]
    BY <1>1, <2>1, ConcatProperties
  <2> QED
    BY <2>1, <2>2
<1>3. PICK l \in Nat : l = IF Len(s) > MaxHop THEN MaxHop ELSE Len(s)
  BY <1>0, <1>2
<1>4. l <= Len(s) /\ l <= MaxHop
  BY <1>0, <1>2, <1>3
<1>5. t = SubSeq(s, 1, l) /\ IsInjective(<<m>> \o t)
  BY <1>1, <1>3 DEF TrimRoute
<1>6. t \in Seq(Node) /\ Len(t) = l /\ \A i \in 1 .. l : t[i] = s[i]
  <2>1. \A i \in 1 .. l : s[i] \in Node
    BY <1>2, <1>4, ElementOfSeq
  <2>2. /\ SubSeq(s, 1, l) \in Seq(Node)
        /\ Len(SubSeq(s, 1, l)) = IF 1 <= l THEN l - 1 + 1 ELSE 0
        /\ \A i \in 1 .. l - 1 + 1 : SubSeq(s, 1, l)[i] = s[1 + i - 1]
    BY <2>1, SubSeqProperties
  <2> QED
    BY <1>5, <2>2
<1>7. PICK k \in 0 .. Len(t) : p = SubSeq(t, 1, k)
  BY DEF Prefixes
<1>8. p \in Seq(Node) /\ Len(p) = k /\ \A i \in 1 .. k : p[i] = t[i]
  <2>1. \A i \in 1 .. k : t[i] \in Node
    BY <1>6, ElementOfSeq
  <2>2. /\ SubSeq(t, 1, k) \in Seq(Node)
        /\ Len(SubSeq(t, 1, k)) = IF 1 <= k THEN k - 1 + 1 ELSE 0
        /\ \A i \in 1 .. k - 1 + 1 : SubSeq(t, 1, k)[i] = t[1 + i - 1]
    BY <2>1, SubSeqProperties, <1>6
  <2> QED
    BY <1>6, <1>7, <2>2
<1>9. k \in 2 .. MaxHop /\ k <= Len(r) + 1
  <2>1. /\ Len(s) = Len(r) + 1 /\ Len(t) = l /\ Len(p) = k
        /\ k \in Nat /\ k <= l /\ Len(r) \in Nat
    BY <1>2, <1>6, <1>7, <1>8
  <2> QED
    BY <1>0, <1>4, <2>1
<1>10. p[1] = n /\ \A i \in 2 .. k : p[i] = r[i - 1]
  <2>1. \A i \in 1 .. k : p[i] = s[i]
    BY <1>6, <1>8, <1>7
  <2> QED
    BY <1>2, <1>9, <2>1
<1>11. IsInjective(<<m>> \o p)
  <2>1. Len(<<m>>) = 1 /\ <<m>>[1] = m /\ <<m>> \in Seq(Node)
    OBVIOUS
  <2>2. PICK x \in Seq(Node) : x = <<m>> \o t
    BY <1>6, <2>1, ConcatProperties
  <2>3. Len(x) = 1 + l /\ \A i \in 1 .. 1 + l : x[i] = IF i <= 1 THEN m ELSE t[i - 1]
    <3>1. /\ Len(<<m>> \o t) = Len(<<m>>) + Len(t)
          /\ \A i \in 1 .. Len(<<m>>) + Len(t) :
               (<<m>> \o t)[i] = IF i <= Len(<<m>>) THEN <<m>>[i] ELSE t[i - Len(<<m>>)]
      BY <1>6, <2>1, ConcatProperties
    <3> QED
      BY <1>6, <2>1, <2>2, <3>1
  <2>4. PICK y \in Seq(Node) : y = <<m>> \o p
    BY <1>8, <2>1, ConcatProperties
  <2>5. Len(y) = 1 + k /\ \A i \in 1 .. 1 + k : y[i] = IF i <= 1 THEN m ELSE p[i - 1]
    <3>1. /\ Len(<<m>> \o p) = Len(<<m>>) + Len(p)
          /\ \A i \in 1 .. Len(<<m>>) + Len(p) :
               (<<m>> \o p)[i] = IF i <= Len(<<m>>) THEN <<m>>[i] ELSE p[i - Len(<<m>>)]
      BY <1>8, <2>1, ConcatProperties
    <3> QED
      BY <1>8, <2>1, <2>4, <3>1
  <2>6. \A i \in 1 .. 1 + k : i \in 1 .. 1 + l /\ y[i] = x[i]
    <3>1. \A i \in 1 .. 1 + k : i \in 1 .. 1 + l /\ (i <= 1 \/ i - 1 \in 1 .. k)
      BY <1>6, <1>7
    <3>2. ASSUME NEW i \in 1 .. 1 + k PROVE y[i] = x[i]
      <4>1. y[i] = IF i <= 1 THEN m ELSE p[i - 1]
        BY <2>5
      <4>2. x[i] = IF i <= 1 THEN m ELSE t[i - 1]
        BY <2>3, <3>1
      <4> QED
        BY <1>8, <3>1, <4>1, <4>2
    <3> QED
      BY <3>1, <3>2
  <2>7. DOMAIN x = 1 .. 1 + l /\ DOMAIN y = 1 .. 1 + k
    BY <2>2, <2>3, <2>4, <2>5
  <2>8. \A i, j \in DOMAIN x : x[i] = x[j] => i = j
    BY <1>5, <2>2 DEF IsInjective
  <2>9. \A i, j \in DOMAIN y : y[i] = y[j] => i = j
    BY <2>6, <2>7, <2>8
  <2> QED
    BY <2>4, <2>9 DEF IsInjective
<1> QED
  BY <1>8, <1>9, <1>10, <1>11

-----------------------------------------------------------------------------
(* A chain of channels that starts at a node.                               *)
Chain(n, r) ==
    /\ r \in Seq(Node) /\ Len(r) >= 1
    /\ <<n, r[1]>> \in Edge
    /\ \A i \in 1 .. Len(r) - 1 : <<r[i], r[i + 1]>> \in Edge

(* A route a node has stored is one.                                        *)
StoredRoute(n, r) ==
    /\ Chain(n, r) /\ Len(r) \in 2 .. MaxHop
    /\ Head(r) \in link[n]
    /\ IsInjective(<<n>> \o r)

Publication == [todo : SUBSET Node, listed : SUBSET Seq(Node), step : {"none", "listing"}]

RouteInv ==
    /\ link \in [Node -> SUBSET Node]
    /\ \A n \in Node : link[n] \subseteq Neighbours(n)
    /\ DOMAIN routes = Node
    /\ \A n \in Node : \A r \in DOMAIN routes[n] :
          StoredRoute(n, r) /\ routes[n][r] \in 0 .. Expiry
    /\ outbox \in [Edge -> Publication]
    /\ \A e \in Edge : \A r \in outbox[e].listed : Chain(e[2], r)

(* How long Watched may have been gone when a route that is on its way to   *)
(* another node was listed: not at all when it is the link the publisher    *)
(* has it from, and else as long as the publisher may have kept it.         *)
Recent(n, r) ==
    /\ <<n, r[1]>> = Watched => gone = 0
    /\ \A i \in 1 .. Len(r) - 1 : <<r[i], r[i + 1]>> = Watched => gone <= i * Expiry

AgeInv ==
    /\ gone \in Nat
    /\ Watched[2] \in link[Watched[1]] => gone = 0
    /\ \A e \in Edge : \A r \in outbox[e].listed : Recent(e[2], r)
    /\ RoutesRunOut

RoutesInv == RouteInv /\ AgeInv

(* One expiry more for one node more.                                       *)
LEMMA OneMore ==
    ASSUME NEW i \in Nat
    PROVE  (i + 1) * Expiry = i * Expiry + Expiry /\ i * Expiry \in Nat
<1>1. Expiry \in Nat
  BY RoutesAssumption
<1> QED
  BY <1>1

(* A route that was listed, with its publisher in front, is one that its     *)
(* subscriber may store; so is every part of it that ends earlier.          *)
LEMMA StoredFromListed ==
    ASSUME RoutesInv,
           NEW m \in Node, NEW n \in Node, <<m, n>> \in Edge, n \in link[m],
           NEW some, some \subseteq outbox[<<m, n>>].listed,
           NEW p \in Stored(m, {<<n>> \o r : r \in some})
    PROVE  /\ StoredRoute(m, p)
           /\ \A i \in 1 .. Len(p) - 1 : <<p[i], p[i + 1]>> = Watched => gone + Expiry <= i * Expiry
<1>0. Expiry \in Nat /\ MaxHop \in Nat /\ gone \in Nat
  BY RoutesAssumption DEF RoutesInv, AgeInv
<1>1. \E r \in some : \E t \in TrimRoute(m, <<n>> \o r) : p \in Prefixes(t) /\ Len(p) > 1
  BY DEF Stored
<1>2. PICK r \in some : \E t \in TrimRoute(m, <<n>> \o r) : p \in Prefixes(t) /\ Len(p) > 1
  BY <1>1
<1>3. PICK t \in TrimRoute(m, <<n>> \o r) : p \in Prefixes(t) /\ Len(p) > 1
  BY <1>2
<1>4. Chain(n, r) /\ Recent(n, r)
  BY <1>2 DEF RoutesInv, RouteInv, AgeInv
<1>5. r \in Seq(Node) /\ Len(r) \in Nat
  BY <1>4 DEF Chain
<1>6. /\ p \in Seq(Node) /\ Len(p) \in 2 .. MaxHop /\ Len(p) <= Len(r) + 1
      /\ p[1] = n /\ \A i \in 2 .. Len(p) : p[i] = r[i - 1]
      /\ IsInjective(<<m>> \o p)
  BY <1>3, <1>5, CutRoute
<1>7. ASSUME NEW i \in 1 .. Len(p) - 1
      PROVE  /\ <<p[i], p[i + 1]>> \in Edge
             /\ <<p[i], p[i + 1]>> = Watched => gone + Expiry <= i * Expiry
  <2>1. p[i + 1] = r[i]
    <3>1. i + 1 \in 2 .. Len(p) /\ i + 1 - 1 = i
      BY <1>0, <1>6
    <3> QED
      BY <1>6, <3>1
  <2>2. CASE i = 1
    <3>1. p[i] = n /\ p[i + 1] = r[1]
      BY <1>6, <2>1, <2>2
    <3>2. <<n, r[1]>> = Watched => gone = 0
      BY <1>4 DEF Recent
    <3> QED
      BY <1>0, <1>4, <2>2, <3>1, <3>2 DEF Chain
  <2>3. CASE i # 1
    <3>1. i - 1 \in 1 .. Len(r) - 1 /\ i \in 2 .. Len(p) /\ i - 1 + 1 = i /\ i - 1 \in Nat
      BY <1>0, <1>5, <1>6, <2>3
    <3>2. p[i] = r[i - 1]
      BY <1>6, <3>1
    <3>3. PICK j \in Nat : j = i - 1
      BY <3>1
    <3>4. j \in 1 .. Len(r) - 1 /\ i = j + 1
      BY <3>1, <3>3
    <3>5. <<r[j], r[j + 1]>> \in Edge /\ (<<r[j], r[j + 1]>> = Watched => gone <= j * Expiry)
      BY <1>4, <3>4 DEF Chain, Recent
    <3>6. i * Expiry = j * Expiry + Expiry /\ j * Expiry \in Nat
      BY <3>4, OneMore
    <3>7. p[i] = r[j] /\ p[i + 1] = r[j + 1]
      BY <2>1, <3>2, <3>3, <3>4
    <3> QED
      BY <1>0, <3>5, <3>6, <3>7
  <2> QED
    BY <2>2, <2>3
<1>8. Head(p) = n
  BY <1>6
<1>9. <<m, p[1]>> \in Edge /\ Len(p) >= 1
  BY <1>0, <1>6
<1> QED
  BY <1>6, <1>7, <1>8, <1>9 DEF StoredRoute, Chain

(* Fewer routes, and links that still serve them, keep the invariant.       *)
LEMMA FewerRoutes ==
    ASSUME RoutesInv,
           link' \in [Node -> SUBSET Node],
           \A n \in Node : link'[n] \subseteq Neighbours(n),
           DOMAIN routes' = Node,
           \A n \in Node : \A r \in DOMAIN routes'[n] :
              r \in DOMAIN routes[n] /\ routes'[n][r] = routes[n][r] /\ Head(r) \in link'[n],
           outbox' = outbox,
           gone' \in Nat, gone' <= gone, Watched[2] \in link'[Watched[1]] => gone' = 0
    PROVE  RoutesInv'
<1>0. Expiry \in Nat /\ gone \in Nat
  BY RoutesAssumption DEF RoutesInv, AgeInv
<1>1. RouteInv'
  <2>1. ASSUME NEW n \in Node, NEW r \in DOMAIN routes'[n]
        PROVE  StoredRoute(n, r)' /\ routes'[n][r] \in 0 .. Expiry
    BY <2>1 DEF RoutesInv, RouteInv, StoredRoute, Chain
  <2>2. ASSUME NEW e \in Edge, NEW r \in outbox'[e].listed PROVE Chain(e[2], r)
    BY <2>2 DEF RoutesInv, RouteInv
  <2>3. outbox' \in [Edge -> Publication]
    BY DEF RoutesInv, RouteInv
  <2> QED
    BY <2>1, <2>2, <2>3 DEF RouteInv, Publication
<1>2. ASSUME NEW e \in Edge, NEW r \in outbox'[e].listed PROVE Recent(e[2], r)'
  <2>1. Recent(e[2], r) /\ Len(r) \in Nat
    BY <1>2 DEF RoutesInv, RouteInv, AgeInv, Chain
  <2>2. <<e[2], r[1]>> = Watched => gone' = 0
    BY <1>0, <2>1 DEF Recent
  <2>3. ASSUME NEW i \in 1 .. Len(r) - 1, <<r[i], r[i + 1]>> = Watched PROVE gone' <= i * Expiry
    <3>1. i \in Nat
      BY <2>1
    <3>2. i * Expiry \in Nat
      BY <3>1, OneMore
    <3>3. gone <= i * Expiry
      BY <2>1, <2>3 DEF Recent
    <3> QED
      BY <1>0, <3>2, <3>3
  <2> QED
    BY <2>2, <2>3 DEF Recent
<1>3. RoutesRunOut'
  <2> SUFFICES ASSUME NEW n \in Node, NEW r \in DOMAIN routes'[n], NEW i \in 1 .. Len(r) - 1,
                      <<r[i], r[i + 1]>> = Watched, routes'[n][r] > 0
               PROVE  gone' + routes'[n][r] <= i * Expiry
    BY DEF RoutesRunOut
  <2>1. r \in DOMAIN routes[n] /\ routes'[n][r] = routes[n][r]
    OBVIOUS
  <2>2. StoredRoute(n, r) /\ routes[n][r] \in 0 .. Expiry
    BY <2>1 DEF RoutesInv, RouteInv
  <2>3. r \in Seq(Node) /\ Len(r) \in Nat /\ routes[n][r] \in Nat
    BY <1>0, <2>2 DEF StoredRoute, Chain
  <2>4. i \in Nat
    BY <2>3
  <2>5. i * Expiry \in Nat
    BY <2>4, OneMore
  <2>6. gone + routes[n][r] <= i * Expiry
    BY <2>1 DEF RoutesInv, AgeInv, RoutesRunOut
  <2> QED
    BY <1>0, <2>1, <2>3, <2>5, <2>6
<1> QED
  BY <1>1, <1>2, <1>3 DEF RoutesInv, AgeInv

(* A new link makes no route and breaks none.                               *)
LEMMA LinkAdded ==
    ASSUME RoutesInv, NEW n \in Node, NEW x \in Node,
           AddDirectLink(n, x)
    PROVE  RoutesInv'
<1>1. /\ x \in Neighbours(n) /\ link' = [link EXCEPT ![n] = @ \cup {x}]
      /\ gone' = (IF <<n, x>> = Watched THEN 0 ELSE gone)
      /\ routes' = routes /\ outbox' = outbox
  BY DEF AddDirectLink
<1>2. /\ link \in [Node -> SUBSET Node] /\ DOMAIN routes = Node
      /\ \A y \in Node : link[y] \subseteq Neighbours(y)
  BY DEF RoutesInv, RouteInv
<1>3. \A y \in Node : link'[y] = IF y = n THEN link[y] \cup {x} ELSE link[y]
  BY <1>1, <1>2
<1>4. link' \in [Node -> SUBSET Node] /\ \A y \in Node : link'[y] \subseteq Neighbours(y)
  BY <1>1, <1>2, <1>3
<1>5. gone \in Nat /\ gone' \in Nat /\ gone' <= gone
  BY <1>1 DEF RoutesInv, AgeInv
<1>6. ASSUME Watched[2] \in link'[Watched[1]] PROVE gone' = 0
  <2>1. Watched = <<Watched[1], Watched[2]>> /\ Watched[1] \in Node
    BY RoutesAssumption
  <2>2. Watched[2] \in link[Watched[1]] => gone = 0
    BY DEF RoutesInv, AgeInv
  <2>3. CASE Watched[2] \in link[Watched[1]]
    BY <1>1, <2>2, <2>3
  <2>4. CASE Watched[2] \notin link[Watched[1]]
    <3>1. Watched[1] = n /\ Watched[2] = x
      BY <1>3, <1>6, <2>1, <2>4
    <3> QED
      BY <1>1, <2>1, <3>1
  <2> QED
    BY <2>3, <2>4
<1>7. \A y \in Node : \A r \in DOMAIN routes'[y] :
        r \in DOMAIN routes[y] /\ routes'[y][r] = routes[y][r] /\ Head(r) \in link'[y]
  BY <1>1, <1>3 DEF RoutesInv, RouteInv, StoredRoute
<1> QED
  BY <1>1, <1>2, <1>4, <1>5, <1>6, <1>7, FewerRoutes

(* A link goes together with all routes behind it.                          *)
LEMMA LinkRemoved ==
    ASSUME RoutesInv, NEW n \in Node, NEW x \in Node,
           RemoveDirectLink(n, x)
    PROVE  RoutesInv'
<1>1. /\ link' = [link EXCEPT ![n] = @ \ {x}]
      /\ routes' = [routes EXCEPT ![n] = Without(@, Via(n, x))]
      /\ gone' = gone /\ outbox' = outbox
  BY DEF RemoveDirectLink
<1>2. /\ link \in [Node -> SUBSET Node] /\ DOMAIN routes = Node
      /\ \A y \in Node : link[y] \subseteq Neighbours(y)
  BY DEF RoutesInv, RouteInv
<1>3. \A y \in Node : link'[y] = IF y = n THEN link[y] \ {x} ELSE link[y]
  BY <1>1, <1>2
<1>4. link' \in [Node -> SUBSET Node] /\ \A y \in Node : link'[y] \subseteq Neighbours(y)
  BY <1>1, <1>2, <1>3
<1>5. gone \in Nat /\ gone' <= gone /\ (Watched[2] \in link[Watched[1]] => gone = 0)
  BY <1>1 DEF RoutesInv, AgeInv
<1>6. Watched[2] \in link'[Watched[1]] => gone' = 0
  <2>1. Watched[1] \in Node
    BY RoutesAssumption
  <2> QED
    BY <1>1, <1>3, <1>5, <2>1
<1>7. DOMAIN routes' = Node
  BY <1>1, <1>2
<1>8. ASSUME NEW y \in Node, NEW r \in DOMAIN routes'[y]
      PROVE  r \in DOMAIN routes[y] /\ routes'[y][r] = routes[y][r] /\ Head(r) \in link'[y]
  <2>1. CASE y # n
    BY <1>1, <1>2, <1>3, <1>8, <2>1 DEF RoutesInv, RouteInv, StoredRoute
  <2>2. CASE y = n
    <3>1. routes'[n] = Without(routes[n], Via(n, x))
      BY <1>1, <1>2
    <3>2. r \in DOMAIN routes[n] /\ r \notin Via(n, x) /\ routes'[n][r] = routes[n][r]
      BY <1>8, <2>2, <3>1 DEF Without
    <3>3. Head(r) \in link[n] /\ Head(r) # x
      BY <3>2 DEF Via, RoutesInv, RouteInv, StoredRoute
    <3> QED
      BY <1>3, <2>2, <3>2, <3>3
  <2> QED
    BY <2>1, <2>2
<1> QED
  BY <1>1, <1>4, <1>5, <1>6, <1>7, <1>8, FewerRoutes

(* Routes that are removed or cleaned away leave good ones.                 *)
LEMMA SomeRemoved ==
    ASSUME RoutesInv, NEW n \in Node, NEW rs,
           routes' = [routes EXCEPT ![n] = Without(@, rs)],
           UNCHANGED <<link, outbox, gone>>
    PROVE  RoutesInv'
<1>1. /\ link \in [Node -> SUBSET Node] /\ DOMAIN routes = Node
      /\ \A y \in Node : link[y] \subseteq Neighbours(y)
      /\ gone \in Nat /\ (Watched[2] \in link[Watched[1]] => gone = 0)
  BY DEF RoutesInv, RouteInv, AgeInv
<1>2. DOMAIN routes' = Node
  BY <1>1
<1>3. ASSUME NEW y \in Node, NEW r \in DOMAIN routes'[y]
      PROVE  r \in DOMAIN routes[y] /\ routes'[y][r] = routes[y][r] /\ Head(r) \in link'[y]
  <2>1. r \in DOMAIN routes[y] /\ routes'[y][r] = routes[y][r]
    BY <1>1, <1>3 DEF Without
  <2> QED
    BY <2>1 DEF RoutesInv, RouteInv, StoredRoute
<1>4. gone <= gone
  BY <1>1
<1> QED
  BY <1>1, <1>2, <1>3, <1>4, FewerRoutes

(* What a node lists of one of its direct links can be passed on.           *)
LEMMA ListedIsRecent ==
    ASSUME RoutesInv, NEW n \in Node, NEW x, NEW r \in RoutesFrom(n, x)
    PROVE  Chain(n, r) /\ Recent(n, r)
<1>0. Expiry \in Nat /\ gone \in Nat
  BY RoutesAssumption DEF RoutesInv, AgeInv
<1>1. x \in link[n] /\ (r = <<x>> \/ r \in Via(n, x) \ RunOut(n, x))
  BY DEF RoutesFrom
<1>2. x \in Node /\ <<n, x>> \in Edge
  BY <1>1 DEF RoutesInv, RouteInv, Neighbours
<1>3. <<n, x>> = Watched => gone = 0
  BY <1>1 DEF RoutesInv, AgeInv
<1>4. CASE r = <<x>>
  <2>1. Len(r) = 1 /\ r[1] = x /\ r \in Seq(Node)
    BY <1>2, <1>4
  <2> QED
    BY <1>2, <1>3, <2>1 DEF Chain, Recent
<1>5. CASE r \in Via(n, x) \ RunOut(n, x)
  <2>1. r \in DOMAIN routes[n] /\ Head(r) = x /\ routes[n][r] # 0
    BY <1>5 DEF Via, RunOut
  <2>2. StoredRoute(n, r) /\ routes[n][r] \in 0 .. Expiry
    BY <2>1 DEF RoutesInv, RouteInv
  <2>3. Chain(n, r) /\ r \in Seq(Node) /\ Len(r) \in Nat /\ Len(r) >= 1
    BY <2>2 DEF StoredRoute, Chain
  <2>4. r[1] = x
    BY <2>1, <2>3
  <2>5. ASSUME NEW i \in 1 .. Len(r) - 1, <<r[i], r[i + 1]>> = Watched PROVE gone <= i * Expiry
    <3>1. i \in Nat /\ routes[n][r] \in Nat /\ routes[n][r] > 0
      BY <1>0, <2>1, <2>2, <2>3
    <3>2. i * Expiry \in Nat
      BY <3>1, OneMore
    <3>3. gone + routes[n][r] <= i * Expiry
      BY <2>1, <2>5, <3>1 DEF RoutesInv, AgeInv, RoutesRunOut
    <3> QED
      BY <1>0, <3>1, <3>2, <3>3
  <2> QED
    BY <1>3, <2>3, <2>4, <2>5 DEF Recent
<1> QED
  BY <1>1, <1>4, <1>5

(* The publications of a step hold nothing that could not be passed on.     *)
LEMMA Passing ==
    ASSUME RoutesInv, UNCHANGED <<link, routes, gone>>, outbox' \in [Edge -> Publication],
           \A e \in Edge : \A r \in outbox'[e].listed :
              r \in outbox[e].listed \/ (Chain(e[2], r) /\ Recent(e[2], r))
    PROVE  RoutesInv'
<1>1. \A e \in Edge : \A r \in outbox'[e].listed : Chain(e[2], r) /\ Recent(e[2], r)
  BY DEF RoutesInv, RouteInv, AgeInv
<1>2. \A n, r : Recent(n, r)' <=> Recent(n, r)
  BY DEF Recent
<1>3. RouteInv'
  BY <1>1 DEF RoutesInv, RouteInv, StoredRoute, Chain, Publication
<1>4. AgeInv'
  BY <1>1, <1>2 DEF RoutesInv, AgeInv, RoutesRunOut
<1> QED
  BY <1>3, <1>4 DEF RoutesInv

(* A publication that starts has listed nothing new.                        *)
LEMMA Published ==
    ASSUME RoutesInv, NEW e \in Edge, Publish(e)
    PROVE  RoutesInv'
<1>1. PICK xs \in SUBSET link[e[2]] :
        outbox' = [outbox EXCEPT ![e] = [@ EXCEPT !.todo = xs, !.step = "listing"]]
  BY DEF Publish
<1>2. UNCHANGED <<link, routes, gone>>
  BY DEF Publish
<1>3. outbox \in [Edge -> Publication] /\ outbox[e] \in Publication
  BY DEF RoutesInv, RouteInv
<1>4. xs \subseteq Node
  <2>1. e[2] \in Node
    BY RoutesAssumption
  <2> QED
    BY <2>1 DEF RoutesInv, RouteInv
<1>5. [outbox[e] EXCEPT !.todo = xs, !.step = "listing"] \in Publication
      /\ [outbox[e] EXCEPT !.todo = xs, !.step = "listing"].listed = outbox[e].listed
  BY <1>3, <1>4 DEF Publication
<1>6. outbox' \in [Edge -> Publication] /\ \A f \in Edge : outbox'[f].listed = outbox[f].listed
  BY <1>1, <1>3, <1>5
<1> QED
  BY <1>2, <1>6, Passing

(* What a publisher lists behind a link is a chain of channels, and recent. *)
LEMMA Listed ==
    ASSUME RoutesInv, NEW e \in Edge, List(e)
    PROVE  RoutesInv'
<1>1. e[2] \in Node /\ outbox[e] \in Publication /\ outbox \in [Edge -> Publication]
  BY RoutesAssumption DEF RoutesInv, RouteInv
<1>2. PICK x \in outbox[e].todo :
        \/ outbox' = [outbox EXCEPT ![e].todo = @ \ {x},
                                    ![e].listed = @ \cup RoutesFrom(e[2], x)]
        \/ outbox' = [outbox EXCEPT ![e].todo = @ \ {x}]
        \/ \E some \in SUBSET RoutesFrom(e[2], x) :
             outbox' = [outbox EXCEPT ![e].todo = @ \ {x}, ![e].listed = @ \cup some]
  BY DEF List
<1>3. UNCHANGED <<link, routes, gone>>
  BY DEF List
<1>4. ASSUME NEW r \in RoutesFrom(e[2], x)
      PROVE  Chain(e[2], r) /\ Recent(e[2], r) /\ r \in Seq(Node)
  BY <1>1, <1>4, ListedIsRecent DEF Chain
<1>5. ASSUME NEW some \in SUBSET RoutesFrom(e[2], x),
             outbox' = [outbox EXCEPT ![e].todo = @ \ {x}, ![e].listed = @ \cup some]
      PROVE  RoutesInv'
  <2>1. PICK o : o = [outbox[e] EXCEPT !.todo = @ \ {x}, !.listed = @ \cup some]
    OBVIOUS
  <2>2. o \in Publication /\ o.listed = outbox[e].listed \cup some
    BY <1>1, <1>4, <2>1 DEF Publication
  <2>3. outbox' = [outbox EXCEPT ![e] = o]
    BY <1>5, <2>1
  <2>4. outbox' \in [Edge -> Publication]
    BY <1>1, <2>2, <2>3
  <2>5. \A f \in Edge : \A r \in outbox'[f].listed :
          r \in outbox[f].listed \/ (Chain(f[2], r) /\ Recent(f[2], r))
    BY <1>1, <1>4, <2>2, <2>3
  <2> QED
    BY <1>3, <2>4, <2>5, Passing
<1>6. ASSUME outbox' = [outbox EXCEPT ![e].todo = @ \ {x}] PROVE RoutesInv'
  <2>1. PICK o : o = [outbox[e] EXCEPT !.todo = @ \ {x}]
    OBVIOUS
  <2>2. o \in Publication /\ o.listed = outbox[e].listed
    BY <1>1, <2>1 DEF Publication
  <2>3. outbox' = [outbox EXCEPT ![e] = o]
    BY <1>6, <2>1
  <2>4. outbox' \in [Edge -> Publication] /\ \A f \in Edge : outbox'[f].listed = outbox[f].listed
    BY <1>1, <2>2, <2>3
  <2> QED
    BY <1>3, <2>4, Passing
<1> QED
  BY <1>2, <1>5, <1>6

(* What arrives is stored for one expiry more, which is no longer than it    *)
(* may be kept one node further on.                                         *)
LEMMA Handled ==
    ASSUME RoutesInv, NEW e \in Edge, HandlePublish(e)
    PROVE  RoutesInv'
<1>0. /\ Expiry \in Nat /\ gone \in Nat
      /\ e = <<e[1], e[2]>> /\ e[1] \in Node /\ e[2] \in Node
  BY RoutesAssumption DEF RoutesInv, AgeInv
<1>1. PICK m \in Node, n \in Node : m = e[1] /\ n = e[2] /\ e = <<m, n>>
  BY <1>0
<1>2. PICK some \in SUBSET outbox[e].listed : AddRoute(m, n, {<<n>> \o r : r \in some})
  BY <1>1 DEF HandlePublish
<1>3. outbox' = [outbox EXCEPT ![e] = Nothing] /\ link' = link /\ gone' = gone
  BY DEF HandlePublish
<1> DEFINE new == Stored(m, {<<n>> \o r : r \in some})
<1>4. \/ routes' = routes
      \/ /\ n \in link[m]
         /\ routes' = [routes EXCEPT ![m] = With(Without(@, RunOut(m, n)), new)]
  BY <1>2 DEF AddRoute
<1>5. ASSUME NEW p \in new, n \in link[m]
      PROVE  /\ StoredRoute(m, p)
             /\ \A i \in 1 .. Len(p) - 1 : <<p[i], p[i + 1]>> = Watched => gone + Expiry <= i * Expiry
  BY <1>1, <1>5, StoredFromListed
<1> HIDE DEF new
<1>6. DOMAIN routes = Node /\ outbox \in [Edge -> Publication]
  BY DEF RoutesInv, RouteInv
<1>7. DOMAIN routes' = Node
  BY <1>4, <1>6
<1>8. ASSUME NEW y \in Node, NEW r \in DOMAIN routes'[y]
      PROVE  \/ r \in DOMAIN routes[y] /\ routes'[y][r] = routes[y][r]
             \/ y = m /\ n \in link[m] /\ r \in new /\ routes'[y][r] = Expiry
  <2>1. CASE routes' = routes
    BY <1>8, <2>1
  <2>2. CASE n \in link[m] /\ routes' = [routes EXCEPT ![m] =
                 With(Without(@, RunOut(m, n)), new)]
    <3>1. CASE y # m
      BY <1>6, <1>8, <2>2, <3>1
    <3>2. CASE y = m
      <4>1. PICK old : old = Without(routes[m], RunOut(m, n))
        OBVIOUS
      <4>2. routes'[m] = With(old, new)
        BY <1>6, <2>2, <4>1
      <4>3. r \in DOMAIN old \cup new /\ routes'[m][r] = IF r \in new THEN Expiry ELSE old[r]
        BY <1>8, <3>2, <4>2 DEF With
      <4>4. r \in DOMAIN old => r \in DOMAIN routes[m] /\ old[r] = routes[m][r]
        BY <4>1 DEF Without
      <4> QED
        BY <2>2, <3>2, <4>3, <4>4
    <3> QED
      BY <3>1, <3>2
  <2> QED
    BY <1>4, <2>1, <2>2
<1>9. Nothing \in Publication /\ Nothing.listed = {}
  BY DEF Nothing, Publication
<1>10. outbox' \in [Edge -> Publication]
       /\ \A f \in Edge : \A r \in outbox'[f].listed : r \in outbox[f].listed
  BY <1>3, <1>6, <1>9
<1>11. ASSUME NEW y \in Node, NEW r \in DOMAIN routes'[y]
       PROVE  /\ StoredRoute(y, r) /\ routes'[y][r] \in 0 .. Expiry
              /\ \A i \in 1 .. Len(r) - 1 : <<r[i], r[i + 1]>> = Watched /\ routes'[y][r] > 0
                   => gone + routes'[y][r] <= i * Expiry
  <2>1. CASE r \in DOMAIN routes[y] /\ routes'[y][r] = routes[y][r]
    BY <2>1 DEF RoutesInv, RouteInv, AgeInv, RoutesRunOut
  <2>2. CASE y = m /\ n \in link[m] /\ r \in new /\ routes'[y][r] = Expiry
    <3>1. Expiry \in 0 .. Expiry
      BY <1>0
    <3> QED
      BY <1>5, <2>2, <3>1
  <2> QED
    BY <1>8, <1>11, <2>1, <2>2
<1>12. RouteInv'
  <2>1. \A y, r : StoredRoute(y, r)' <=> StoredRoute(y, r)
    BY <1>3 DEF StoredRoute, Chain
  <2> QED
    BY <1>3, <1>7, <1>10, <1>11, <2>1 DEF RoutesInv, RouteInv, Chain, Publication
<1>13. AgeInv'
  <2>1. \A y, r : Recent(y, r)' <=> Recent(y, r)
    BY <1>3 DEF Recent
  <2>2. RoutesRunOut'
    BY <1>3, <1>11 DEF RoutesRunOut
  <2> QED
    BY <1>3, <1>10, <2>1, <2>2 DEF RoutesInv, AgeInv
<1> QED
  BY <1>12, <1>13 DEF RoutesInv

(* With a tick Watched may be gone a tick longer, and every route has one   *)
(* tick less; nothing is under way.                                         *)
LEMMA Ticked ==
    ASSUME RoutesInv, Tick
    PROVE  RoutesInv'
<1>0. Expiry \in Nat /\ gone \in Nat
  BY RoutesAssumption DEF RoutesInv, AgeInv
<1>1. /\ link' = link /\ outbox' = outbox
      /\ \A e \in Edge : outbox[e] = Nothing
      /\ routes' = [n \in Node |-> [r \in DOMAIN routes[n] |->
                       IF routes[n][r] > 0 THEN routes[n][r] - 1 ELSE 0]]
      /\ gone' = (IF Watched[2] \in link[Watched[1]] THEN 0
                  ELSE IF gone < LongGone THEN gone + 1 ELSE gone)
  BY DEF Tick
<1>2. \A e \in Edge : outbox'[e].listed = {}
  BY <1>1 DEF Nothing
<1>3. gone' \in Nat /\ gone' <= gone + 1 /\ (Watched[2] \in link[Watched[1]] => gone' = 0)
  BY <1>0, <1>1
<1>4. ASSUME NEW n \in Node, NEW r \in DOMAIN routes'[n]
      PROVE  /\ r \in DOMAIN routes[n] /\ StoredRoute(n, r) /\ routes[n][r] \in 0 .. Expiry
             /\ routes'[n][r] = IF routes[n][r] > 0 THEN routes[n][r] - 1 ELSE 0
  <2>1. r \in DOMAIN routes[n]
        /\ routes'[n][r] = IF routes[n][r] > 0 THEN routes[n][r] - 1 ELSE 0
    BY <1>1, <1>4
  <2> QED
    BY <2>1 DEF RoutesInv, RouteInv
<1>5. RouteInv'
  <2>1. \A n, r : StoredRoute(n, r)' <=> StoredRoute(n, r)
    BY <1>1 DEF StoredRoute, Chain
  <2>2. \A n \in Node : \A r \in DOMAIN routes'[n] : StoredRoute(n, r)' /\ routes'[n][r] \in 0 .. Expiry
    BY <1>0, <1>4, <2>1
  <2>3. DOMAIN routes' = Node
    BY <1>1
  <2> QED
    BY <1>1, <1>2, <2>2, <2>3 DEF RoutesInv, RouteInv, Publication
<1>6. RoutesRunOut'
  <2> SUFFICES ASSUME NEW n \in Node, NEW r \in DOMAIN routes'[n], NEW i \in 1 .. Len(r) - 1,
                      <<r[i], r[i + 1]>> = Watched, routes'[n][r] > 0
               PROVE  gone' + routes'[n][r] <= i * Expiry
    BY DEF RoutesRunOut
  <2>1. /\ r \in DOMAIN routes[n] /\ StoredRoute(n, r) /\ routes[n][r] \in Nat
        /\ routes'[n][r] = IF routes[n][r] > 0 THEN routes[n][r] - 1 ELSE 0
    BY <1>0, <1>4
  <2>2. routes[n][r] > 0 /\ routes'[n][r] = routes[n][r] - 1
    BY <2>1
  <2>3. gone + routes[n][r] <= i * Expiry
    BY <2>1, <2>2 DEF RoutesInv, AgeInv, RoutesRunOut
  <2>4. i \in Nat
    BY <2>1 DEF StoredRoute, Chain
  <2>5. i * Expiry \in Nat
    BY <2>4, OneMore
  <2> QED
    BY <1>0, <1>3, <2>1, <2>2, <2>3, <2>5
<1>7. AgeInv'
  BY <1>1, <1>2, <1>3, <1>6 DEF AgeInv
<1> QED
  BY <1>5, <1>7 DEF RoutesInv

(* Every step keeps the invariant.                                          *)
LEMMA RoutesKept ==
    ASSUME RoutesInv, [RoutesNext]_routesVars
    PROVE  RoutesInv'
<1>1. ASSUME NEW n \in Node, NEW x \in Node, Clean(n, x) PROVE RoutesInv'
  BY <1>1, SomeRemoved DEF Clean
<1>2. ASSUME NEW n \in Node, NEW r, RemoveRoute(n, r) PROVE RoutesInv'
  BY <1>2, SomeRemoved DEF RemoveRoute
<1>3. CASE UNCHANGED routesVars
  BY <1>3 DEF routesVars, RoutesInv, RouteInv, AgeInv, StoredRoute, Chain, Recent,
     RoutesRunOut, Publication
<1> QED
  BY <1>1, <1>2, <1>3, LinkAdded, LinkRemoved, Published, Listed, Handled, Ticked DEF RoutesNext

(* In the beginning every channel is linked, and no route is known.         *)
LEMMA RoutesStart ==
    ASSUME RoutesInit
    PROVE  RoutesInv
<1>1. /\ link = [n \in Node |-> Neighbours(n)]
      /\ routes = [n \in Node |-> <<>>]
      /\ outbox = [e \in Edge |-> Nothing]
      /\ gone = 0
  BY DEF RoutesInit
<1>2. \A n \in Node : DOMAIN routes[n] = {}
  BY <1>1
<1>3. Nothing \in Publication /\ Nothing.listed = {}
  BY DEF Nothing, Publication
<1>4. \A n \in Node : Neighbours(n) \subseteq Node
  BY DEF Neighbours
<1>5. RouteInv
  BY <1>1, <1>2, <1>3, <1>4 DEF RouteInv
<1>6. AgeInv
  BY <1>1, <1>2, <1>3 DEF AgeInv, RoutesRunOut
<1> QED
  BY <1>5, <1>6 DEF RoutesInv

(* The invariant of the routes: what is stored or on its way is a chain of  *)
(* channels, and how old it can be.                                         *)
THEOREM RoutesInvariant == RoutesSpec => []RoutesInv
<1>1. RoutesInit => RoutesInv
  BY RoutesStart
<1>2. RoutesInv /\ [RoutesNext]_routesVars => RoutesInv'
  BY RoutesKept
<1> QED
  BY <1>1, <1>2, PTL DEF RoutesSpec

(* A route that can be found starts with a direct link, visits no node      *)
(* twice, has at most MaxHop nodes and follows channels (routestore,        *)
(* handlePublish), for any network and whatever is published and removed.   *)
THEOREM RoutesUsableHolds == RoutesSpec => []RoutesUsable
<1>1. RoutesInv => RoutesUsable
  BY DEF RoutesInv, RouteInv, StoredRoute, Chain, RoutesUsable, RoutesTo
<1> QED
  BY <1>1, RoutesInvariant, PTL

(* A route over a channel that has been removed runs out: it is never older *)
(* than one expiry for each node it has come through.                       *)
THEOREM RoutesRunOutHolds == RoutesSpec => []RoutesRunOut
<1>1. RoutesInv => RoutesRunOut
  BY DEF RoutesInv, AgeInv
<1> QED
  BY <1>1, RoutesInvariant, PTL
=============================================================================
