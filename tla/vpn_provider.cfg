SPECIFICATION Spec
CONSTANTS
  s1 = s1
  s2 = s2
  Servers <- TwoServers
  Stored = s1
  None = None
  MaxAttempts = 1
  PollLimit = 1
  MaxActions = 2
  MaxLosses = 2
  MaxRaces = 2
CONSTRAINT FewRaces
INVARIANTS AttemptsBounded RestAgrees OffStaysOff
PROPERTIES Settles
CHECK_DEADLOCK FALSE
