SPECIFICATION CollectSpec
CONSTANTS
  MaxSeq = 4
  MaxDups = 1
  MaxLost = 2
  SampleEvery = 3
  Latencies = {3, 9}
  Bounds <- MCBounds
  Others <- MCOthers
  Sla <- MCSla
  RatioScale = 10
CHECK_DEADLOCK FALSE
INVARIANTS Exact NoUndercount OvercountShows VerdictSound NoFalseAlarm PercentilesRight NeverPartial FinalSyncComplete
