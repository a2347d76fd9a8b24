-------------------------- MODULE MCDaemonLifecycle --------------------------
EXTENDS DaemonLifecycle, TLC

Symmetry == Permutations(Daemon) \cup Permutations(Cmd)
=============================================================================
