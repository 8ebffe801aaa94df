SPECIFICATION Spec
CONSTANTS
  Char = {"a", "b"}
  LF = "LF"
  Sizes = {2, 3}
  Types = {"serial", "ethernet"}
  ring_capacity = 3
  MaxWaiting = 5
INVARIANT TypeOK
PROPERTY ReadsStream
