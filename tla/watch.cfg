SPECIFICATION FairSpec
CONSTANTS
  Cmd = {c1}
  MaxInstance = 2
  MaxChange = 1
  Error = Error
PROPERTIES
  NeverBackToOldDaemon
  Settles
  TuiCommandsFinish
CHECK_DEADLOCK FALSE
