\* Two CPUs, three vectors that cover the width of jiffies.
SPECIFICATION Spec
CONSTANTS
  CPUs = {c1, c2}
  Timers = {t1}
  None = None
  LongBits = 5
  TVR_BITS = 1
  TVN_BITS = 2
  Vectors = 2
  Delays <- AnyDelay
  LagMax = 1
INVARIANTS Linked OnTime Serialized DelSyncQuiet
