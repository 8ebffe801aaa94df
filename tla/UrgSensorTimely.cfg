SPECIFICATION Spec
CONSTANTS
  DataLines = 1
  UnitWrap = 4
  MaxRx = 10
  Prompt = TRUE
  MaxNoise = 3
  MayRefuse = FALSE
  Late = FALSE
  MayDisconnect = FALSE
  Ops = {"start", "get", "stop", "laser", "tm0", "tm1", "tm2", "info", "sleep", "reboot", "close"}
  ScanTimes = {1, 2, 100}
  StepsAsked = 2
  Polite = TRUE
  MaxCalls = 6
  NoisyCalls = 2
INVARIANT TypeOK
INVARIANT StopWorks
INVARIANT StopLeavesNothing
INVARIANT DarkAfterClose
INVARIANT FreshAnswer
INVARIANT FiniteScans
INVARIANT FreshScan
INVARIANT NoMixedScan
CHECK_DEADLOCK FALSE
