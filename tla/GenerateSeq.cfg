SPECIFICATION GetSeqSpec
CONSTANTS
  MaxSeq = 3
  Calls = {c1, c2, c3, c4, c5}
INVARIANTS GetSeqTypeOK DistinctInALap
PROPERTY OneNumberAtATime
CHECK_DEADLOCK FALSE
