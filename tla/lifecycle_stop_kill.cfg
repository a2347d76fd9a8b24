SPECIFICATION Spec
SYMMETRY Symmetry
CONSTANTS
  Daemon = {d1, d2}
  Foreign = {}
  Cmd = {c1, c2, c3}
  NoOne = NoOne
PROPERTY KillHitsTheStoppedServer
CHECK_DEADLOCK FALSE
