SPECIFICATION Spec
CONSTANTS
  Editor = {e1, e2}
  image = image
  v1 = v1
  v2 = v2
  bad = bad
  Engine = engine
  Field = {engine, image}
  Unknown = {u1}
  Value = {v1, v2, bad}
  Unset = Unset
  Default <- Defaults
  Legal <- LegalValues
  Override = v2
  Original = Original
  NoFile = NoFile
SYMMETRY Symmetry
CHECK_DEADLOCK FALSE
\* One at a time: the first that fails ends the run.
INVARIANT Intact
\* INVARIANT UnsetRepairs
\* PROPERTY OthersSurvive
\* PROPERTY UnsetRemoves
