SPECIFICATION FairSpec
CONSTANTS
  NumSymbols = 2
  ConnFlags = {0, 3}
  PerTick = 2
  PubBatch = 3
  SubBatch = 2
  MaxWritten = 1
CHECK_DEADLOCK FALSE
INVARIANTS TypeOK PublishedWithin ReceivedExact ReceivedOnce
PROPERTY BothEnd
