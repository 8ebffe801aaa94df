SPECIFICATION Spec
CONSTANTS
  DataLines = 1
  UnitWrap = 4
  MaxRx = 15
  Prompt = TRUE
  MaxNoise = 0
  MayRefuse = FALSE
  Late = FALSE
  MayDisconnect = FALSE
  Ops = {"start", "get", "stop", "close"}
  ScanTimes = {0}
  StepsAsked = 2
  Polite = TRUE
  MaxCalls = 4
  NoisyCalls = 0
INVARIANT StopWorks
CHECK_DEADLOCK FALSE
