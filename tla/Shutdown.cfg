SPECIFICATION FairSpec
CONSTANTS
  Users = {u1, u2}
  Classes = {c1}
  Batch = 2
  MaxPub = 2
  MaxDials = 2
  MaxLost = 1
CHECK_DEADLOCK FALSE
INVARIANTS TypeOK PublishedComplete DrainCounted CleanRunExact RatioNotFlattered
PROPERTY Exits
