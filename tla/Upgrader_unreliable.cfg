SPECIFICATION Spec
CONSTANTS
  IoThreads = {"io1"}
  Blocks = 1
  GeneralTryLimit = 2
  ProgressTryLimit = 2
  Registrations = 2
  SendMayFail = TRUE
  MaxOwed = 2
  MaxNesting = 2
INVARIANT SuccessIsConfirmed
CHECK_DEADLOCK FALSE
