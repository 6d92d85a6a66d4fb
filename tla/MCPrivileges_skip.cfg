SPECIFICATION Spec
CONSTANTS
  Cap <- MCCap
  Supported <- MCSupported
  KeepCommon <- MCKeep
  LowWord <- MCLow
  SETUID = "setuid"
  SETGID = "setgid"
  SETPCAP = "setpcap"
  SYS_ADMIN = "sys_admin"
  Id <- MCId
  Root = "root"
  GidOf <- MCGidOf
  GroupsOf <- MCGroupsOf
  Garbled = "bob"
  NoConfig = NoConfig
  Launches <- UserLaunches
  Hosts <- OpenHost
  Creds <- FullCreds
\* ruri ends, or becomes the command.
CHECK_DEADLOCK FALSE
INVARIANTS SkipSetgroupsTakesUids
