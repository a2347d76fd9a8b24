----------------------------- MODULE MCAdminAccess -----------------------------
EXTENDS AdminAccess, TLC

Symmetry == Permutations(Task)
Ids == {<<"m">>, <<"org", "m">>}
=============================================================================
