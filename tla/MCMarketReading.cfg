SPECIFICATION ReadingSpec
CONSTANTS
  s1 = s1
  s2 = s2
  i1 = i1
  k1 = k1
  k2 = k2
  Stocks <- MCStocks
  Indices <- MCIndices
  Sectors <- MCSectors
  EndOf <- MCEndOf
  Short = 1
  Medium = 2
  Long = 3
  Weekdays <- MCWeekdays
  Ceiling = 2
  Capabilities <- MCCapabilities
  Lacking = "ladder"
  Malformed = "indices"
  LastFamily = "ladder"
  Bundles <- MCBundles
  Beginnings <- MCBeginnings
  Asks <- MCAsks
  MaxRuns = 4
  MaxTime = 2
INVARIANTS
  SettledIsOneReading
  IdentityNamesContent
  RefreshFillsTheGap
CHECK_DEADLOCK FALSE
