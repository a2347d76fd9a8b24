SPECIFICATION Spec
CONSTANTS
  Provider = {"llamacpp", "mlx"}
  ModelId <- Ids
  Task = {t1, t2}
  MaxToken = 3
  Idle = 1
SYMMETRY Symmetry
INVARIANTS
  OldLinksStop
  PrintedLinkKeepsWorking
  SignedInWhileUsed
  RuntimeReachesCore
  ReloadKeepsThePage
