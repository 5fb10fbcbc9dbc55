SPECIFICATION FairSpec
CONSTANTS
  Lidars = {h1, h2}
  Known = {h1}
  MaxId = 2
  FileLimit = 2
  Reentrant = TRUE
  MaxData = 3
  MaxCalls = 4
INVARIANTS RemovedIsSilent FileIsPrefix FaultIsKnown
PROPERTIES ReplacedAfterLap CallsReturn
CHECK_DEADLOCK FALSE
