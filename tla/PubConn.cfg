SPECIFICATION ConnSpec
CONSTANTS
  N = 2
  Batch = 2
  MaxTicks = 3
  MaxFrames = 2
  MaxLeft = 1
CHECK_DEADLOCK FALSE
INVARIANT PingsAreRead
