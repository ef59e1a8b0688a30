SPECIFICATION FeedOfFilmSpec
CONSTANTS
  ItemIds = {"i1"}
  Signatures = {"s1"}
  Gap = 1
  MaxClock = 3
  MaxWindows = 2
  MaxDrifts = 0
  FeedEvents = {}
PROPERTY
  QuietRefresh
CHECK_DEADLOCK FALSE
