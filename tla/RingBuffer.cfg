SPECIFICATION Spec
CONSTANTS
  Byte = {0, 1}
  buffer_size = 4
INVARIANT TypeOK
PROPERTY RefinesFifo
