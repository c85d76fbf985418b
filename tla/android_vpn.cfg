SPECIFICATION Spec
CONSTANTS
  None = None
  TakeoverRetries = 1
  PollLimit = 1
  MaxWishes = 3
  MaxFaults = 1
  MaxRaces = 2
CONSTRAINT FewRaces
INVARIANTS NothingLeft RestAgrees WishHolds
PROPERTIES RequestsEnd
CHECK_DEADLOCK FALSE
