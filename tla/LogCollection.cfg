SPECIFICATION FairSpec
CONSTANTS
  Lidars = {h1}
  MaxCache = 2
  MaxFiles = 3
  MaxSize = 2
  MaxSessions = 2
INVARIANTS DiskOK NoLostWakeup
PROPERTIES OldestFirst CacheIsBounded
CHECK_DEADLOCK FALSE
