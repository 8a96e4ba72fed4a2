--------------------------- MODULE MCTlbShootdown ---------------------------
EXTENDS TlbShootdown, TLC

Symmetry == Permutations(Cpus) \cup Permutations(Maps \ Clashing)
=============================================================================
