SPECIFICATION FairSpec
CONSTANTS
  Cmd = {c1}
  MaxInstance = 2
  MaxChange = 1
  Error = Error
PROPERTY GoneIsShown
CHECK_DEADLOCK FALSE
