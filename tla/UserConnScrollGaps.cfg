SPECIFICATION Spec
CONSTANTS
  s1 = s1
  s2 = s2
  s3 = s3
  orders = orders
  Symbols = {s1, s2}
  Feeds <- NoFeeds
  NumSlots = 1
  ScrollCount = 1
  MaxPub = 3
  MaxConns = 1
  MaxScrolls = 2
  MaxLost = 0
CHECK_DEADLOCK FALSE
INVARIANTS GapsAreMissed
