SPECIFICATION Spec
CONSTANTS
  Types = {"serial", "com", "ethernet"}
  Worlds <- NoSensor
  MaxRx = 4
INVARIANT OpenTells
CHECK_DEADLOCK FALSE
