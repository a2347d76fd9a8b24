SPECIFICATION LeaseSpec
CONSTANTS
  Stop = {c1, c2}
  TTL = 3
INVARIANT OneStopWins
CHECK_DEADLOCK FALSE
