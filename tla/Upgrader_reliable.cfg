SPECIFICATION FairSpec
CONSTANTS
  IoThreads = {"io1", "io2"}
  Blocks = 3
  GeneralTryLimit = 3
  ProgressTryLimit = 4
  Registrations = 1
  SendMayFail = FALSE
  MaxOwed = 2
  MaxNesting = 2
INVARIANTS UpgraderOK NoBlockSkipped NoOutcomeOutlives
PROPERTY EndIsFinal
PROPERTY UpgradeEnds
CHECK_DEADLOCK FALSE
