SPECIFICATION Spec
CONSTANTS
  Rho = {0, 50}
  DMAX = 50
  Window = 3
  MaxSteps = 3
  MaxEchoes = 1
  MaxLine = 4
  Types = {"distance"}
INVARIANT EntriesAsRead
CHECK_DEADLOCK FALSE
