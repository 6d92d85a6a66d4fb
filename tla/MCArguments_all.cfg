SPECIFICATION Spec
CONSTANTS
  dir = dir
  this = this
  other = other
  cap1 = cap1
  cap2 = cap2
  cap3 = cap3
  short3 = short3
  memory1 = memory1
  percent200 = percent200
  NULL = NULL
  Garbled = Garbled
  TooLarge = TooLarge
  WrapsTo = 1000
  NoFile = NoFile
  UnknownCap = UnknownCap
  Root = root
  ConfigPath = conf
  Dirs = {root, dir}
  Caps = {cap1, cap2, cap3}
  Text <- MCText
  DefaultCaps <- MCDefaultCaps
  MaxOf <- MCMaxOf
  Words <- MCWords
  Usual <- MCUsual
  OldFiles <- MCOldFiles
  EditedKeys = {"container_dir", "env", "rootless", "masked_path", "hidepid", "timens_realtime_offset", "no_network", "drop_caplist"}
  HostNumber <- MCHostNumber
  LimitOf <- MCLimitOf
  ShortCap <- MCShortCap
  IsRoot = TRUE
  MaxWords = 3
  MaxUnusual = 1
  MaxEdits = 1
INVARIANTS TypeOK SpellingsAgree SettingsSurvive CorrectedFileIsAccepted
CHECK_DEADLOCK FALSE
