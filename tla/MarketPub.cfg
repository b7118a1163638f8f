SPECIFICATION FairConnSpec
CONSTANTS
  N = 3
  Batch = 3
  MaxTicks = 7
  MaxFrames = 1
  MaxLeft = 1
CHECK_DEADLOCK FALSE
INVARIANTS CountExact EvenTicks SeqsIncrease
PROPERTIES Stops NoneLeft
