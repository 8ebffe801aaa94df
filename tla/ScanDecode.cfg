SPECIFICATION MCSpec
CONSTANTS
  Rho = {0, 50}
  DMAX = 50
  Window = 3
  MaxSteps = 5
  MaxEchoes = 2
  MaxLine = 4
  Types = {"distance", "distance_intensity", "multiecho", "multiecho_intensity"}
INVARIANT TypeOK
INVARIANT DecodesScan
INVARIANT FitsDriver
INVARIANT CountsSteps
CHECK_DEADLOCK FALSE
