\* One CPU: a handler flushes the queue it runs from, next to an outside flush;
\* works may be queued for ever.  At most 3 instances outstanding, 8 / 2 > 3.
SPECIFICATION FairSpec
CONSTANTS
  NCPU = 1
  Works = {w1}
  Flushers = {f1}
  NoWork = NoWork
  LongMod = 8
  SelfFlush = TRUE
PROPERTIES FlushTerminates KeepsDelayedWorkFair
