SPECIFICATION Spec
CONSTANTS
  Editor = {e1, e2}
  image = image
  v1 = v1
  v2 = v2
  bad = bad
  Engine = engine
  Field = {engine, image}
  Unknown = {u1}
  Value = {v1, v2, bad}
  Unset = Unset
  Default <- Defaults
  Legal <- LegalValues
  Override = v2
  Original = Original
  NoFile = NoFile
SYMMETRY Symmetry
INVARIANTS
  AlwaysWhole
  NeverRefused
PROPERTY EditChangesOnlyItsKey
CHECK_DEADLOCK FALSE
