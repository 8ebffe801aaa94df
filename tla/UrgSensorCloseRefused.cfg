SPECIFICATION Spec
CONSTANTS
  DataLines = 1
  UnitWrap = 4
  MaxRx = 8
  Prompt = FALSE
  MaxNoise = 0
  MayRefuse = TRUE
  Late = FALSE
  MayDisconnect = FALSE
  Ops = {"start", "laser", "get", "stop", "close"}
  ScanTimes = {1}
  StepsAsked = 2
  Polite = TRUE
  MaxCalls = 4
  NoisyCalls = 0
INVARIANT DarkAfterClose
CHECK_DEADLOCK FALSE
