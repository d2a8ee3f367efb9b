----------------------------- MODULE MCPaychStore -----------------------------
EXTENDS PaychStore
=============================================================================
