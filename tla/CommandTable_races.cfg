SPECIFICATION Spec
CONSTANTS
  MaxSeq = 2
  Commands = {c1, c2}
  Styles = {"hap", "mid360", "cfg"}
  IoThreads = {t1, t2}
  AckThreads = {t1, t2}
  TimeOut = 2
  Duplicates = TRUE
  NoCommand = NoCommand
INVARIANTS TypeOK OneOutcome SuccessIsAnswered AnswerBeatsTimeout
PROPERTY KeepsLedger
CHECK_DEADLOCK FALSE
