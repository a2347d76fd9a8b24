SPECIFICATION Spec
CONSTANTS
  Provider = {"llamacpp", "mlx"}
  ModelId <- Ids
  Task = {t1, t2}
  MaxToken = 3
  Idle = 1
SYMMETRY Symmetry
\* One at a time: the first that fails ends the run.
PROPERTY LinkIsOneTime
\* INVARIANT FirstLinkWorks
\* INVARIANT AllRuntimeReachesCore
