SPECIFICATION Spec
CONSTANTS
  Daemon = {d1, d2}
  Foreign = {f1}
  Cmd = {c1, c2}
  NoOne = NoOne
SYMMETRY Symmetry
INVARIANTS
  ReadyMeansListening
  LinkOnlyToAtc
  StopIsFinal
  SoleOwnerUndisturbed
  CleanExitLeavesNothing
PROPERTY ForeignVerdictSound
CHECK_DEADLOCK FALSE
