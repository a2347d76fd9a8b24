SPECIFICATION FairSpec
CONSTANTS
  Daemon = {d1, d2}
  Foreign = {}
  Cmd = {c1, c2}
  NoOne = NoOne
PROPERTIES
  CommandsFinish
  CleanupFinishes
CHECK_DEADLOCK FALSE
