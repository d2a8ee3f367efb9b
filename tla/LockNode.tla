------------------------------- MODULE LockNode -------------------------------
(***************************************************************************)
(* The tree of mutexes of locking/locknode.go: RLock and Lock walk down a  *)
(* path, read-locking what they pass; where the path ends, or leaves the   *)
(* tree, they take the lock that was asked for.  Insert and Remove change  *)
(* the tree under a lock the caller holds.                                 *)
(*                                                                         *)
(* A node is a lock with an identity of its own: one that is removed while *)
(* somebody waits for it is another lock than the one inserted for the     *)
(* same path later.  Each step below is one operation on a mutex or one    *)
(* look at a map of children; the mutex (go-lock's CASMutex) prefers       *)
(* neither readers nor writers.  A release of all the locks of a call is   *)
(* one step.                                                               *)
(***************************************************************************)
EXTENDS Naturals, Sequences

Seqs == INSTANCE SequencesExt

CONSTANTS Proc,
          Path,          \* the paths callers use, as sequences of keys
          Depth,         \* bound: length of a path
          Incarnations,  \* bound: nodes a path can have at a time
          RemoveUnder,   \* what a caller that removes a path has locked:
                         \* its "parent", or the "path" itself
          ContextsEnd    \* a context may end while a call waits

ASSUME DepthAssumption == Depth \in Nat \ {0}
ASSUME PathAssumption ==
    /\ <<>> \in Path
    /\ Path \subseteq Seq(UNION {{p[i] : i \in DOMAIN p} : p \in Path})
    /\ \A p \in Path : Len(p) <= Depth /\ \A i \in 0 .. Len(p) : SubSeq(p, 1, i) \in Path
ASSUME IncarnationsAssumption == Incarnations \in Nat \ {0}
ASSUME UsageAssumption == RemoveUnder \in {"parent", "path"} /\ ContextsEnd \in BOOLEAN

Node == [path : Path, inc : 1 .. Incarnations]
Root == [path |-> <<>>, inc |-> 1]

VARIABLES children,  \* children[n]: the nodes in the map of n
          call       \* call[p]: where the call of p is, and the locks it has

vars == <<children, call>>

Idle == [pc |-> "idle", op |-> "read", path |-> <<>>, at |-> Root,
         reads |-> {}, writes |-> {}]

Below(ns) == ns \cup UNION {children[n] : n \in ns}
Reachable(from) ==
    LET reach[i \in 0 .. Depth] == IF i = 0 THEN from ELSE Below(reach[i - 1])
    IN  reach[Depth]

Tree == Reachable({Root})
InTree(path) == \E n \in Tree : n.path = path

(* The lookup of the next key of a path in a node's map.                    *)
Child(n, path) == {m \in children[n] : m.path = SubSeq(path, 1, Len(n.path) + 1)}

(* The nodes Insert and Remove pass on their way to a path, and the last.   *)
Walk(path) == {n \in Tree : Seqs!IsPrefix(n.path, path)}
Deepest(path) == CHOOSE n \in Walk(path) : \A m \in Walk(path) : Len(m.path) <= Len(n.path)

(* The mutex of a node.                                                     *)
CanRead(p, n) == \A q \in Proc \ {p} : n \notin call[q].writes
CanWrite(p, n) == \A q \in Proc \ {p} : n \notin call[q].reads \cup call[q].writes

Init == /\ children = [n \in Node |-> {}]
        /\ call = [p \in Proc |-> Idle]

-----------------------------------------------------------------------------
Call(p, op, path) ==
    /\ call[p] = Idle
    /\ call' = [call EXCEPT ![p] = [Idle EXCEPT !.pc = "enter", !.op = op, !.path = path]]
    /\ UNCHANGED children

(* On the way down: the read lock of a node, and then a look at its map.    *)
EnterInner(p) ==
    LET n == call[p].at IN
    /\ call[p].pc = "enter" /\ n.path # call[p].path
    /\ CanRead(p, n)
    /\ call' = [call EXCEPT ![p].pc = "lookup", ![p].reads = @ \cup {n}]
    /\ UNCHANGED children

(* At the end of the path: the lock that was asked for.                     *)
EnterLeaf(p) ==
    LET n == call[p].at IN
    /\ call[p].pc = "enter" /\ n.path = call[p].path
    /\ \/ /\ call[p].op = "read" /\ CanRead(p, n)
          /\ call' = [call EXCEPT ![p].pc = "held", ![p].reads = @ \cup {n}]
       \/ /\ call[p].op = "write" /\ CanWrite(p, n)
          /\ call' = [call EXCEPT ![p].pc = "held", ![p].writes = {n}]
    /\ UNCHANGED children

LookupFound(p) ==
    /\ call[p].pc = "lookup"
    /\ \E m \in Child(call[p].at, call[p].path) :
          call' = [call EXCEPT ![p].pc = "enter", ![p].at = m]
    /\ UNCHANGED children

(* Mutants: the read lock is as good as the write lock of a missing child;  *)
(* the read lock is kept while waiting for the write lock.                  *)
AbsentStays(p) == [call[p] EXCEPT !.pc = "held"]
UpgradeHolding(p) ==
    [call[p] EXCEPT !.pc = IF @ = "lookup" /\ call[p].op = "write" THEN "upgrade" ELSE "held"]

(* The child does not exist.  RLock is content with the node; Lock changes  *)
(* from the read lock to the write lock, and for a moment has neither.      *)
Absent(p) ==
    IF call[p].op = "read" THEN [call[p] EXCEPT !.pc = "held"]
    ELSE [call[p] EXCEPT !.pc = "upgrade", !.reads = @ \ {call[p].at}]

LookupAbsent(p) ==
    /\ call[p].pc = "lookup"
    /\ Child(call[p].at, call[p].path) = {}
    /\ call' = [call EXCEPT ![p] = Absent(p)]
    /\ UNCHANGED children

Upgrade(p) ==
    LET n == call[p].at IN
    /\ call[p].pc = "upgrade"
    /\ CanWrite(p, n)
    /\ call' = [call EXCEPT ![p].pc = "confirm", ![p].writes = {n}]
    /\ UNCHANGED children

(* "Lock succeed. Check again": it fails if the child has come meanwhile.   *)
Confirm(p) ==
    /\ call[p].pc = "confirm"
    /\ call' = [call EXCEPT ![p] =
                  IF Child(call[p].at, call[p].path) = {} THEN [@ EXCEPT !.pc = "held"]
                  ELSE Idle]
    /\ UNCHANGED children

(* The context ends first; the locks taken so far are released.             *)
Expire(p) ==
    /\ ContextsEnd
    /\ call[p].pc \in {"enter", "upgrade"}
    /\ call' = [call EXCEPT ![p] = Idle]
    /\ UNCHANGED children

Release(p) ==
    /\ call[p].pc = "held"
    /\ call' = [call EXCEPT ![p] = Idle]
    /\ UNCHANGED children

-----------------------------------------------------------------------------
(* A node that has just been created is one that nobody can still reach.    *)
Referenced == UNION {{call[p].at} \cup call[p].reads \cup call[p].writes : p \in Proc}
Garbage(path) == {n \in Node : n.path = path} \ Reachable({Root} \cup Referenced)

(* The lengths of the prefixes of a path that have no node.                 *)
Missing(path) == Len(Deepest(path).path) + 1 .. Len(path)

MayInsert(p) == call[p].pc = "held" /\ call[p].op = "write" /\ ~InTree(call[p].path)

(* Insert(path) after Lock(path): a chain of new nodes (CreateLockNode)     *)
(* below the last node there is.                                            *)
Insert(p) ==
    LET path == call[p].path
        new  == [i \in Missing(path) |-> CHOOSE n \in Garbage(SubSeq(path, 1, i)) : TRUE]
        last == Deepest(path)
    IN
    /\ MayInsert(p)
    /\ \A i \in Missing(path) : Garbage(SubSeq(path, 1, i)) # {}
    /\ children' = [n \in Node |->
          IF n = last THEN children[n] \cup {new[i] : i \in {j \in Missing(path) :
                                                  \A k \in Missing(path) : j <= k}}
          ELSE IF \E i \in Missing(path) : n = new[i]
               THEN {new[i] : i \in Missing(path) \cap {Len(n.path) + 1}}
               ELSE children[n]]
    /\ UNCHANGED call

(* Mutant: whoever holds a path may remove it.                              *)
RemovableHere(p) ==
    IF call[p].pc = "held" /\ call[p].op = "write" THEN {n \in Tree \ {Root} : n.path = call[p].path}
    ELSE {}

(* The nodes p may remove now: under the parent's lock as most callers do   *)
(* (RetireOutboundChannel, the stores), or under the path's own lock as the *)
(* peer manager does.  The callers look whether there is one first.         *)
Removable(p) ==
    IF call[p].pc = "held" /\ call[p].op = "write"
    THEN {n \in Tree \ {Root} : IF RemoveUnder = "path" THEN n.path = call[p].path
                                ELSE Seqs!Front(n.path) = call[p].path}
    ELSE {}

Remove(p) ==
    /\ \E n \in Removable(p) : children' = [m \in Node |-> children[m] \ {n}]
    /\ UNCHANGED call

Next ==
    \E p \in Proc :
        \/ \E op \in {"read", "write"}, path \in Path : Call(p, op, path)
        \/ EnterInner(p) \/ EnterLeaf(p)
        \/ LookupFound(p) \/ LookupAbsent(p) \/ Upgrade(p) \/ Confirm(p)
        \/ Expire(p) \/ Release(p)
        \/ Insert(p) \/ Remove(p)

Spec == Init /\ [][Next]_vars

-----------------------------------------------------------------------------
CallType == [pc : {"idle", "enter", "lookup", "upgrade", "confirm", "held"},
             op : {"read", "write"}, path : Path, at : Node,
             reads : SUBSET Node, writes : SUBSET Node]

(* Types, and the shape of the tree: a node is one key longer than the node *)
(* it is in the map of, and a map has one node for a key.                   *)
TypeOK ==
    /\ call \in [Proc -> CallType]
    /\ children \in [Node -> SUBSET Node]
    /\ \A n \in Node : \A m \in children[n] : m.path # <<>> /\ Seqs!Front(m.path) = n.path
    /\ \A n \in Tree : \A m, k \in children[n] : m.path = k.path => m = k

(* The maps of children a caller may be looking at, and the ones it may be  *)
(* about to change.                                                         *)
Looks(p) == CASE call[p].pc \in {"lookup", "confirm"} -> {call[p].at}
              [] call[p].pc = "held" /\ call[p].op = "write" -> Walk(call[p].path)
              [] OTHER -> {}
Changes(p) ==
    (IF MayInsert(p) THEN {Deepest(call[p].path)} ELSE {})
        \cup {m \in Tree : children[m] \cap Removable(p) # {}}

(* No map of children is ever read while another call changes it: a read    *)
(* and a write of a Go map at the same time end the process.                *)
NoRacingAccess ==
    \A p, q \in Proc : p # q => Changes(p) \cap (Looks(q) \cup Changes(q)) = {}

(* The locks do not deadlock: no set of callers all wait for one another.   *)
WaitsFor(p, q) ==
    /\ p # q
    /\ \/ /\ call[p].pc = "enter"
          /\ \/ call[p].at \in call[q].writes
             \/ /\ call[p].op = "write" /\ call[p].at.path = call[p].path
                /\ call[p].at \in call[q].reads
       \/ /\ call[p].pc = "upgrade"
          /\ call[p].at \in call[q].reads \cup call[q].writes

NoCircularWait ==
    \A S \in SUBSET Proc : S # {} => \E p \in S : \A q \in S : ~WaitsFor(p, q)

(* The tree is a lock of paths: a caller that has returned from Lock or     *)
(* RLock holds its path, whatever is inserted and removed meanwhile.        *)
Unlocked == [op |-> "none"]
Holds == [p \in Proc |-> IF call[p].pc = "held" THEN [op |-> call[p].op, path |-> call[p].path]
                         ELSE Unlocked]
Abstract == INSTANCE PathLock WITH hold <- Holds
ImplementsPathLock == Abstract!Spec
=============================================================================
