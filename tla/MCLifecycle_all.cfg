SPECIFICATION FairSpec
CONSTANTS
  Configs <- AllConfigs
  ExitCodes = {0, 1}
  Signals = {15}
  ContPid = 100
INVARIANTS TypeOK TruthfulReport OutcomeIsReported NoUmountUnderSetup
PROPERTIES UmountOnlyWhenAsked KeepsPidFilePromise EndIsPublished UmountHappens TimeoutUmountKills
