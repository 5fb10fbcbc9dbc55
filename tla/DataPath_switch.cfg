SPECIFICATION Spec
CONSTANTS
  Lidars = {h1, h2}
  Known = {h1, h2}
  MaxId = 2
  FileLimit = 2
  Reentrant = TRUE
  MaxData = 3
  MaxCalls = 4
INVARIANT SwitchedOnForEach
CHECK_DEADLOCK FALSE
