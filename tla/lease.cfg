SPECIFICATION LeaseFairSpec
CONSTANTS
  Stop = {c1, c2}
  TTL = 3
INVARIANT LeaseCoversWork
PROPERTIES
  LeaseOnlyLapses
  StopsEnd
CHECK_DEADLOCK FALSE
