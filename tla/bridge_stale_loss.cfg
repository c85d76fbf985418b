SPECIFICATION Spec
CONSTANTS
  Requests <- AllRequests
  MaxRequests = 1
  MaxFaults = 1
INVARIANTS LossIsCurrent
CHECK_DEADLOCK FALSE
