\* Ownership, and an outside flush; at most 3 instances outstanding, 8 / 2 > 3.
SPECIFICATION Spec
CONSTANTS
  NCPU = 2
  Works = {w1}
  Flushers = {f1}
  NoWork = NoWork
  LongMod = 8
  SelfFlush = FALSE
INVARIANTS TypeOK PendingHeld OneHolder WqDataOk NoLostWakeup
PROPERTIES FlushReturns ImplementsDelayedWork
