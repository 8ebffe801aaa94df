SPECIFICATION FairSpec
CONSTANTS
  DataLines = 1
  UnitWrap = 2
  MaxRx = 5
  Prompt = FALSE
  MaxNoise = 1
  MayRefuse = TRUE
  Late = TRUE
  MayDisconnect = TRUE
  Ops = {"start", "start_bad", "get", "stop", "tm0", "tm1", "reboot", "close"}
  ScanTimes = {0, 2}
  StepsAsked = 6
  Polite = FALSE
  MaxCalls = 2
  NoisyCalls = 2
INVARIANT Guarded
INVARIANT QuietWhenNotSending
INVARIANT NoMixedScan
PROPERTY CallsReturn
CHECK_DEADLOCK FALSE
