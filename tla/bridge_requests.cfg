SPECIFICATION Spec
CONSTANTS
  Requests <- AllRequests
  MaxRequests = 2
  MaxFaults = 2
INVARIANTS InOrder RestIsTrue ExitStops
PROPERTIES DisconnectStops RequestsAnswered ExitEnds
CHECK_DEADLOCK FALSE
