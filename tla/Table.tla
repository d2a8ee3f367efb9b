-------------------------------- MODULE Table --------------------------------
(***************************************************************************)
(* What each of the managers that keep their state in a store of keys       *)
(* (KeyStore) promises: a table of entries.  A call sets one entry, or      *)
(* removes one with everything below it; the rest stays as it is, whoever   *)
(* else is at work, and so it does over a restart.                          *)
(***************************************************************************)
EXTENDS Sequences

Seqs == INSTANCE SequencesExt

VARIABLE table

Init == table = <<>>

Set(table1) ==
    \E k \in DOMAIN table1 : \A x \in DOMAIN table \cup DOMAIN table1 :
        x # k => x \in DOMAIN table /\ x \in DOMAIN table1 /\ table1[x] = table[x]

Drop(table1) ==
    \E k \in DOMAIN table :
        table1 = Seqs!Restrict(table, {x \in DOMAIN table : ~Seqs!IsPrefix(k, x)})

Next == Set(table') \/ Drop(table')

Spec == Init /\ [][Next]_table
=============================================================================
