\* An outside flush next to a handler that flushes its own queue.
SPECIFICATION Spec
CONSTANTS
  NCPU = 1
  Works = {w1, w2}
  Flushers = {f1}
  NoWork = NoWork
  LongMod = 16
  SelfFlush = TRUE
PROPERTY FlushReturns
