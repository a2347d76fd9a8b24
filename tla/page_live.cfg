SPECIFICATION PageFairSpec
CONSTANTS
  RingSize = 1
  MaxEvents = 2
  MaxEpoch = 2
  NoId = NoId
  Slot = {i1}
PROPERTY StatusCatchesUp
