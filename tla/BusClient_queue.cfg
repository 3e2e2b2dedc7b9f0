\* Three writes, one of which the bus refuses, and a read; a circuit that opens
\* at the second failure; three faults.
SPECIFICATION FairSpec
CONSTANTS
  Writes      = {w1, w2, bad}
  Reads       = {rd}
  Refused     = {bad}
  Threshold   = 2
  MAX_RETRIES = 1
  MaxFaults   = 3
INVARIANTS
  NoWriteLost
  RepeatedOnlyUnheeded
  DrainsInOrder
  ClosedBelowThreshold
PROPERTY DrainsUnlessBlocked
\* When every request has ended and the queue is empty there is nothing to do.
CHECK_DEADLOCK FALSE
