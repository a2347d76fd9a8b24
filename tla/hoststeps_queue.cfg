SPECIFICATION FairSpec
CONSTANTS
  Step = {s1, s2}
  Task = {t1}
  Strategies = {"root", "manual", "unavailable"}
  MaxRuns = 2
  MaxCrashes = 1
  MaxOverlaps = 0
  MixAndGoOn = TRUE
  None = None
PROPERTY ManualResultIsPosted
CHECK_DEADLOCK FALSE
