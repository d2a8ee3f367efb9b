------------------------------- MODULE PathLock -------------------------------
(***************************************************************************)
(* What a multi-dimensional lock promises to its callers (locking/,        *)
(* mdlstore/): a path is a list of keys, a lock of a path covers every     *)
(* path below it, and a write lock is shared with nobody whose path it     *)
(* covers.  The module LockNode is the tree of mutexes that implements it. *)
(***************************************************************************)
EXTENDS Naturals, Sequences

CONSTANTS Proc,     \* callers
          Path,     \* the paths they lock
          Unlocked  \* what a caller holds when it holds nothing

Hold == [op : {"read", "write"}, path : Path]

VARIABLE hold  \* hold[p]: what p has locked

(* A write lock covers the paths below its own.                             *)
Covers(a, b) == /\ a.op = "write"
                /\ Len(a.path) <= Len(b.path)
                /\ \A i \in 1 .. Len(a.path) : a.path[i] = b.path[i]

Conflict(a, b) == Covers(a, b) \/ Covers(b, a)

Init == hold = [p \in Proc |-> Unlocked]

Acquire(p, h) ==
    /\ hold[p] = Unlocked
    /\ \A q \in Proc : hold[q] # Unlocked => ~Conflict(h, hold[q])
    /\ hold' = [hold EXCEPT ![p] = h]

Release(p) ==
    /\ hold[p] # Unlocked
    /\ hold' = [hold EXCEPT ![p] = Unlocked]

Next == \E p \in Proc : Release(p) \/ \E h \in Hold : Acquire(p, h)

Spec == Init /\ [][Next]_hold

-----------------------------------------------------------------------------
(* Nobody else is at or below a path that is write-locked.                  *)
Exclusion ==
    \A p, q \in Proc : p # q /\ hold[p] # Unlocked /\ hold[q] # Unlocked =>
        ~Conflict(hold[p], hold[q])
=============================================================================
