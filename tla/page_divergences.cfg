SPECIFICATION PageSpec
CONSTANTS
  RingSize = 1
  MaxEvents = 2
  MaxEpoch = 1
  NoId = NoId
  Slot = {i1}
\* One at a time: the first that fails ends the run.
INVARIANT BreaksAreMadeGood
\* INVARIANT KeepsStatusLive
\* INVARIANT SignedOutStaysOut
