------------------------------ MODULE MCAdminPage ------------------------------
EXTENDS AdminPage, TLC

Symmetry == Permutations(Slot)
=============================================================================
