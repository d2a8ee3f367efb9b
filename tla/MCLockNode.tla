------------------------------ MODULE MCLockNode ------------------------------
EXTENDS LockNode, TLC

(* A peer with two channels: siblings, and two levels below the root.       *)
TwoChannels == {<<>>, <<"peer">>, <<"peer", "ch1">>, <<"peer", "ch2">>}

ProcSymmetry == Permutations(Proc)
=============================================================================
