SPECIFICATION MCSpec
CONSTANTS
  Descriptors = {1, 2}
  Closed = 0
  Devices <- Sensors
  Types = {"Distance", "Multiecho"}
  ScanTimes = {0, 1, 2}
  Windows <- SomeWindows
  Kinds = {"PROD"}
  MaxLine = 3
  Average_times = 2
  MaxDelay = 2
  Wrap = 8
  MaxCalls = 6
  MaxFaults = 1
  MaxTime = 4
  Ports = {"COM1", "COM2", "COM3"}
  MaxDevices = 4
  MaxArguments = 3
CHECK_DEADLOCK FALSE
INVARIANT OwnDescriptor
INVARIANT LosesRefusedOnly
INVARIANT ActiveIsConnected
INVARIANT NamesOfPeer
INVARIANT OwnScan
 
INVARIANT AnglesFit
INVARIANT PortsKept
INVARIANT FirstIsSensor
PROPERTY LeavesOthersAlone
