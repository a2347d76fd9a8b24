SPECIFICATION Spec
CONSTANTS
  Daemon = {d1, d2}
  Foreign = {}
  Cmd = {c1, c2}
  NoOne = NoOne
CHECK_DEADLOCK FALSE
\* One at a time: the first that fails ends the run.
PROPERTY RemovesOnlyItsOwnRecord
\* INVARIANT StoppedMeansAdminClosed
