SPECIFICATION Spec
CONSTANTS
  Lidars = {"h", "m"}
  IpOf <- MCIpOf
  TypeOf <- MCTypeOf
  Files <- MCFiles
  Texts <- MCTexts
  Numbers = {0, 2}
  Factory <- MCFactory
  Pushed <- MCPushed
  MaxCalls = 1
INVARIANTS DataReachesItsHandler NeverRefused ReportIsTruthful
CHECK_DEADLOCK FALSE
