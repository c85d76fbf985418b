CONSTANTS
  c1 = c1
  c2 = c2
  n1 = n1
  n2 = n2
  a1 = a1
  a2 = a2
  ip1 = ip1
  ip2 = ip2
  Clients = {c1}
  Host = Host
  Options <- MCOptions
  Networks = {n1, n2}
  Adapters = {a1}
  Ips = {ip1}
  Prefixes = {p1}
  Foreign <- MCNoForeign
  None = None
  MaxCommands = 1
  MaxCrashes = 0
  MaxNetEvents = 2
  MaxFailures = 0
SPECIFICATION SpecFromN1
CHECK_DEADLOCK FALSE
INVARIANTS
  FollowsNetwork
