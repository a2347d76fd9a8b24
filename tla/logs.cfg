SPECIFICATION FairSpec
CONSTANTS
  MaxLines = 4
  MaxCuts = 2
  TailParts = 3
  MaxLog = 3
  Rows = 1
INVARIANTS
  HoldsTheLog
PROPERTIES
  SameLinesInView
  EveryLineArrives
