SPECIFICATION Spec
CONSTANTS
  p1 = p1
  p2 = p2
  u1 = u1
  d1 = d1
  d2 = d2
  nobody = nobody
  Starts = {p1, p2}
  Umounts = {u1}
  Dirs = {d1, d2}
  MaxId = 2
  Settings <- SettingsOf
  Hosts <- HostsOf
  Nobody = nobody
SYMMETRY Symmetry
INVARIANTS UmountKillsAll
CHECK_DEADLOCK FALSE
