SPECIFICATION FairSpec
CONSTANTS
  Types = {"com", "serial", "ethernet"}
  Worlds <- AnyWorld
  MaxRx = 4
INVARIANT TypeOK
INVARIANT FindsSensor
INVARIANT OpenLeavesReady
PROPERTY OpenReturnsAtLast
CHECK_DEADLOCK FALSE
