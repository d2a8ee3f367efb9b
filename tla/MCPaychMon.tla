----------------------------- MODULE MCPaychMon -----------------------------
EXTENDS PaychMon, TLC

CallSymmetry == Permutations(Call)
=============================================================================
