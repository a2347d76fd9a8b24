----------------------------- MODULE MCHostSteps -----------------------------
EXTENDS HostSteps, TLC

Symmetry == Permutations(Step) \cup Permutations(Task)
=============================================================================
