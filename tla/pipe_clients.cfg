SPECIFICATION Spec
CONSTANTS
  a1 = a1
  a2 = a2
  Apps <- TwoApps
  Nobody = Nobody
  MaxRequests = 1
  MaxEvents = 1
  Room = 1
INVARIANTS FramesIntact EventsReachClients HandleInUse StoppedIsClean
PROPERTIES CommandsEnd StopEnds
CHECK_DEADLOCK FALSE
