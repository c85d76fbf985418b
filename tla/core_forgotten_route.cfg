CONSTANTS
  c1 = c1
  c2 = c2
  n1 = n1
  n2 = n2
  a1 = a1
  a2 = a2
  ip1 = ip1
  ip2 = ip2
  Clients = {c1}
  Host = Host
  Options <- MCOptions
  Networks = {n1}
  Adapters = {a1}
  Ips = {ip1, ip2}
  Prefixes = {p1}
  Foreign <- MCForeign
  None = None
  MaxCommands = 2
  MaxCrashes = 1
  MaxNetEvents = 0
  MaxFailures = 0
SPECIFICATION SpecFromN1
CHECK_DEADLOCK FALSE
INVARIANTS
  CleanupRemovesLeftovers
