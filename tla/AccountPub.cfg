SPECIFICATION FairSpec
CONSTANTS
  N = 2
  Batch = 2
  MaxTicks = 5
CHECK_DEADLOCK FALSE
INVARIANTS CountsAttempts
PROPERTY Stops
