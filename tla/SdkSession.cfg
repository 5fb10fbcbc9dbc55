SPECIFICATION FairSpec
CONSTANTS
  ThreadOrder <- MCThreadOrder
  Wanted <- MCWanted
  ThreadOf <- MCThreadOf
  Unkeyed <- MCUnkeyed
  Asked <- MCAsked
  MaxSessions = 2
  MaxGrown = 1
INVARIANTS LoopsOK PostedWakes CleanedUp FirstSessionDetects
PROPERTIES CallsReturn
CHECK_DEADLOCK FALSE
