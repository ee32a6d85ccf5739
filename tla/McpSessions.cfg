SPECIFICATION MCSpec
CONSTANTS
  Call = {1, 2}
  Host = {h1, h2}
  MaxSessions = 2
  MaxOpens = 3
  MaxCalls = 3
  MaxGrants = 1
INVARIANT NothingOrphaned
PROPERTY SessionsEnd
CHECK_DEADLOCK FALSE
