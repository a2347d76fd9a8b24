SPECIFICATION FairSpec
CONSTANTS
  Step = {s1, s2}
  Task = {t1}
  Strategies = {"root", "manual"}
  MaxRuns = 2
  MaxCrashes = 1
  MaxOverlaps = 0
  MixAndGoOn = TRUE
  None = None
CHECK_DEADLOCK FALSE
\* One at a time: the first that fails ends the run.
INVARIANT RepairedNotRepeated
\* PROPERTY RanIsReceipted
\* PROPERTY EveryResultIsPosted
