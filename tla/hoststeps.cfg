SPECIFICATION Spec
CONSTANTS
  Step = {s1, s2}
  Task = {t1, t2}
  Strategies = {"root", "manual", "unavailable"}
  MaxRuns = 4
  MaxCrashes = 1
  MaxOverlaps = 1
  MixAndGoOn = FALSE
  None = None
SYMMETRY Symmetry
INVARIANTS
  NoReceiptWithoutRun
  RerunsHaveACause
PROPERTY JournalOnlyAdvances
CHECK_DEADLOCK FALSE
