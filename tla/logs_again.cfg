SPECIFICATION FairSpec
CONSTANTS
  MaxLines = 4
  MaxCuts = 1
  TailParts = 3
  MaxLog = 3
  Rows = 1
PROPERTY StartsAgain
