CONSTANTS
  u1 = u1
  u2 = u2
  Proxies = {u1, u2}
  Direct = Direct
  ChrNet = ChrNet
  OldChrNet = OldChrNet
  Half = Half
  NoBackup = NoBackup
  MaxEdits = 2
  MaxKills = 2
  MaxFailures = 1
SPECIFICATION FairSpec
CHECK_DEADLOCK FALSE
INVARIANTS
  TypeOK
  SettingsComeBack
  NoDeadProxy
  DownIsRestored
PROPERTIES
  DeadProxyGoes
