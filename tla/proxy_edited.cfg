CONSTANTS
  u1 = u1
  u2 = u2
  Proxies = {u1, u2}
  Direct = Direct
  ChrNet = ChrNet
  OldChrNet = OldChrNet
  Half = Half
  NoBackup = NoBackup
  MaxEdits = 1
  MaxKills = 0
  MaxFailures = 0
SPECIFICATION Spec
CHECK_DEADLOCK FALSE
INVARIANTS
  EditsSurvive
