------------------------------ MODULE MCCoreLease ------------------------------
EXTENDS CoreLease, TLC

Symmetry == Permutations(Stop)
=============================================================================
