SPECIFICATION FairSpec
CONSTANTS
  LogTypes = {0}
  MaxIndex = 1
  MaxTrans = 1
  MaxTime = 1
  MaxBags = 3
INVARIANT FilesOK
PROPERTIES NoDataLost EveryBagIsTaken StopEnds
CHECK_DEADLOCK FALSE
