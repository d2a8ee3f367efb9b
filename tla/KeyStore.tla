------------------------------ MODULE KeyStore ------------------------------
(***************************************************************************)
(* mdlstore: a store of keys that are paths.  Every key keeps a value and   *)
(* the list of its children, which Put and Delete change with it.           *)
(*                                                                         *)
(* A caller locks a path, makes the changes of one transaction, commits and *)
(* releases the lock.  What the locks exclude is the subject of LockNode;   *)
(* here an operation under a lock is one step, and the check it makes under *)
(* a read lock before, and repeats under the lock, is part of it.           *)
(***************************************************************************)
EXTENDS Naturals, Sequences

CONSTANT NoValue     \* the value of a key that is there for its children only

VARIABLES store,     \* the keys, with their values and children
          emptied,   \* keys somebody has left without children, and will prune
          cache      \* what the manager keeps in memory besides

Root == <<>>
Blank == [value |-> NoValue, kids |-> {}]

New == [q \in {Root} |-> Blank]

Parent(path) == SubSeq(path, 1, Len(path) - 1)
Has(path) == path \in DOMAIN store
Get(path) == store[path].value
Kids(path) == store[path].kids

(* What the calls that list children find below some paths: a path without  *)
(* a key has none.                                                          *)
Under(paths) == UNION {{Append(q, k) : k \in Kids(q)} : q \in {q \in paths : Has(q)}}

(* Put: keys on the way that the list of their parent lacks are created, or *)
(* created again.  The key itself starts without children, even when it     *)
(* had some.                                                                *)
Put(s, v, path) ==
    LET above == {SubSeq(path, 1, i) : i \in 0 .. Len(path) - 1}
        known(q) == \A i \in 1 .. Len(q) : q[i] \in s[SubSeq(q, 1, i - 1)].kids
        old(q) == IF known(q) THEN s[q] ELSE Blank
    IN [q \in DOMAIN s \cup above \cup {path} |->
          IF q = path THEN [value |-> v, kids |-> {}]
          ELSE IF q \in above THEN [old(q) EXCEPT !.kids = @ \cup {path[Len(q) + 1]}]
          ELSE s[q]]

(* Delete, of several keys in one transaction: each leaves the list of its  *)
(* parent.  What is below it is not deleted.                                *)
Delete(s, paths) ==
    [q \in DOMAIN s \ paths |->
       [s[q] EXCEPT !.kids = {k \in @ : Append(q, k) \notin paths}]]

-----------------------------------------------------------------------------
(* What the managers have in common.  A key is removed under the lock of    *)
(* its parent, and when the parent has no other children it is pruned after *)
(* that, under the lock of its own parent.                                  *)
SetKey(v, path) ==
    /\ store' = Put(store, v, path)
    /\ UNCHANGED emptied

RemoveKey(path) ==
    /\ Has(path)
    /\ store' = Delete(store, {path})
    /\ UNCHANGED emptied

RemoveAndNote(path) ==
    /\ Has(path)
    /\ store' = Delete(store, {path})
    /\ emptied' = IF store'[Parent(path)].kids = {} THEN emptied \cup {Parent(path)} ELSE emptied

(* Mutant: nobody looks again whether the key has got children meanwhile.   *)
PruneUnchecked(path) ==
    /\ path \in emptied
    /\ emptied' = emptied \ {path}
    /\ store' = IF Has(path) THEN Delete(store, {path}) ELSE store

(* The second lock may be long in coming, or never be had: the key is then  *)
(* left as it is until the next start.                                      *)
PruneKey(path) ==
    /\ path \in emptied
    /\ emptied' = emptied \ {path}
    /\ store' = IF Has(path) /\ Kids(path) = {} THEN Delete(store, {path}) ELSE store

(* The next start, after a shutdown or a crash: keys without children are   *)
(* deleted, of those that ought to have some.                               *)
StartClean(inner) ==
    /\ store' = Delete(store, {q \in inner : Has(q) /\ Kids(q) = {}})
    /\ emptied' = {}

(* The first of some keys that exists answers for all of them.              *)
FirstOf(paths) ==
    LET found == {i \in 1 .. Len(paths) : Has(paths[i])}
    IN  IF found = {} THEN NoValue
        ELSE Get(paths[CHOOSE i \in found : \A j \in found : i <= j])

(* The same, of a table of entries.                                         *)
Resolved(entries, paths) ==
    LET found == {i \in 1 .. Len(paths) : paths[i] \in DOMAIN entries}
    IN  IF found = {} THEN NoValue
        ELSE entries[paths[CHOOSE i \in found : \A j \in found : i <= j]]
=============================================================================
