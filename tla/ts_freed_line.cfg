\* The work that outlives free_irq().
SPECIFICATION Spec
CONSTANTS
  CPUs = {cpu}
  Drivers = {ts}
  None = None
  Shared = FALSE
  Controllers = {"level"}
  CountMax = 2
  UnhandledMax = 1
  cpu = cpu
  ts = ts
INVARIANT FreedLineDisabled
