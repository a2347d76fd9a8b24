SPECIFICATION PageSpec
CONSTANTS
  RingSize = 1
  MaxEvents = 3
  MaxEpoch = 2
  NoId = NoId
  Slot = {i1, i2}
SYMMETRY Symmetry
INVARIANTS
  LiveStatusIsCurrent
PROPERTIES
  ShownNeverGoesBack
  StreamKept
