SPECIFICATION Spec
CONSTANTS
  c1 = c1
  c2 = c2
  t1 = t1
  Company = {c1, c2}
  Pooled = {c1}
  Status = {"supported", "rejected"}
  Beginning = {"empty", "ready", "built", "legacy", "reviewed", "known"}
  MaxSessions = 1
  MaxTime = 6
  MaxOwned = 3
  MaxCalls = 1
  Lookback = 1
  Tab = {t1}
  Nobody = "nobody"
  Scopes <- ScopesMC
INVARIANT HistoryOpens
CHECK_DEADLOCK FALSE
