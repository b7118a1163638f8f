SPECIFICATION FairSpec
CONSTANTS
  s1 = s1
  s2 = s2
  s3 = s3
  orders = orders
  Symbols = {s1, s2}
  Feeds <- OneFeed
  NumSlots = 1
  ScrollCount = 1
  MaxPub = 3
  MaxConns = 2
  MaxScrolls = 1
  MaxLost = 1
CHECK_DEADLOCK FALSE
INVARIANTS BrokerConverges GapsAreMissed
PROPERTIES FeedSpec Terminates Settles
