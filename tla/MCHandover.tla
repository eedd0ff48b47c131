----------------------------- MODULE MCHandover -----------------------------
EXTENDS Handover
Symm == Permutations(Clients)
=============================================================================
