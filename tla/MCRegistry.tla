---------------------------- MODULE MCRegistry ----------------------------
EXTENDS Registry, TLC

Symmetry == Permutations(Sess) \cup Permutations(Handler)
=============================================================================
