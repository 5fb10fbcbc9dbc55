SPECIFICATION FairSpec
CONSTANTS
  Threads = {"detection", "command"}
  HapLidars = {h1}
  Mid360Lidars = {m1}
  Listed = {h1}
  Misfiled = {}
  TypedCfg = {"mid360"}
  OnSegment = {h1, m1}
  RetryLimit = 1
  MaxCount = 3
  MaxOwed = 1
  MaxExtra = 1
INVARIANTS LidarsOK ToldOnceWhenReady
PROPERTY EveryLidarIsTold
CHECK_DEADLOCK FALSE
