SPECIFICATION FairSpec
CONSTANTS
  Configs <- TimeoutConfig
  ExitCodes = {0, 1}
  Signals = {15}
  ContPid = 100
PROPERTIES TimeoutKillsContainer
