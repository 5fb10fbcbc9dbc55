SPECIFICATION FairSpec
CONSTANTS
  MaxSeq = 2
  Commands = {c1, c2, c3}
  Styles = {"cfg", "mid360"}
  IoThreads = {t1}
  AckThreads = {t1}
  TimeOut = 1
  Duplicates = FALSE
  NoCommand = NoCommand
INVARIANT NotForgotten
PROPERTY EveryCommandConcludes
CHECK_DEADLOCK FALSE
