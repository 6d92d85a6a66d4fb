SPECIFICATION Spec
CONSTANTS
  p1 = p1
  p2 = p2
  t1 = t1
  Procs = {p1, p2}
  Targets = {t1}
  Settings <- MCSettings
  Contents <- MCContents
  Rounds = 1
  SystemRounds = 1
  MaxLoops = 2
  MaxCommands = 3
  MaxTogether = 2
  Troubles = {"killed", "failed", "unbound", "rebooted", "overlapped"}
  MaxTrouble = 1
SYMMETRY Symmetry
INVARIANTS TypeOK NeverStacked MountedOrWarned RunningIsMasked UmountTakesMost
