SPECIFICATION Spec
CONSTANTS
  Cap <- MCCap
  Supported <- MCSupported
  KeepCommon <- MCKeep
  LowWord <- MCLow
  SETUID = "setuid"
  SETGID = "setgid"
  SETPCAP = "setpcap"
  SYS_ADMIN = "sys_admin"
  Id <- MCId
  Root = "root"
  GidOf <- MCGidOf
  GroupsOf <- MCGroupsOf
  Garbled = "bob"
  NoConfig = NoConfig
  Launches <- AllLaunches
  Hosts <- AllHosts
  Creds <- AllCreds
\* ruri ends, or becomes the command.
CHECK_DEADLOCK FALSE
INVARIANTS TypeOK CommandKeepsToCaplist AskedUserIsWhole FilterIsInForce
INVARIANTS CommandIsLocked ForcePanicKeepsNothing
