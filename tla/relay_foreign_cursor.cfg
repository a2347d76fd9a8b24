SPECIFICATION Spec
CONSTANTS
  RingSize = 2
  MaxEvents = 5
  MaxEpoch = 2
  NoId = NoId
PROPERTY ForeignCursorResynced
