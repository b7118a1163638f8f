SPECIFICATION Spec
CONSTANTS
  s1 = s1
  s2 = s2
  s3 = s3
  orders = orders
  Symbols = {s1, s2, s3}
  Feeds <- NoFeeds
  NumSlots = 2
  ScrollCount = 2
  MaxPub = 4
  MaxConns = 1
  MaxScrolls = 1
  MaxLost = 0
CHECK_DEADLOCK FALSE
SYMMETRY SymbolSymmetry
INVARIANTS VisiblePartition OneSubPerSubject LiveMessagesHandled NoDup
