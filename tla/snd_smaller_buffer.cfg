\* The buffer is made smaller while the stream is open.
SPECIFICATION Spec
CONSTANTS
  Configs <- TwoSizes
  BoundFactor = 4
  DataSize = 7
  Versions = {FALSE}
  OtherThread = FALSE
INVARIANT PointerInRange
