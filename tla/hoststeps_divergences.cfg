SPECIFICATION Spec
CONSTANTS
  Step = {s1, s2}
  Task = {t1, t2}
  Strategies = {"root", "manual"}
  MaxRuns = 2
  MaxCrashes = 0
  MaxOverlaps = 1
  MixAndGoOn = TRUE
  None = None
CHECK_DEADLOCK FALSE
\* One at a time: the first that fails ends the run.
INVARIANT HelperRunsOnce
\* INVARIANT JournalledBeforeRun
