SPECIFICATION StartSpec
CONSTANTS
  Flags <- MCFlags
  ScreenCaps <- MCCaps
  Specs <- MCSpecs
  Totals <- MCTotals
  ShardCounts = {1, 2, 3}
  Configs <- MCConfigs
  TriesPerPick = 2
CHECK_DEADLOCK FALSE
INVARIANTS SingleOwner SlotsAndRest EveryFeedPublished ScreensUsable
PROPERTIES StartsOrExits
