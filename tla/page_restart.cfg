SPECIFICATION PageFairSpec
CONSTANTS
  RingSize = 1
  MaxEvents = 1
  MaxEpoch = 2
  NoId = NoId
  Slot = {i1}
PROPERTY LearnsOfNewDaemon
