\* The touchscreen driver, loaded and unloaded.
SPECIFICATION FairSpec
CONSTANTS
  CPUs = {cpu}
  Drivers = {ts}
  None = None
  Shared = FALSE
  Controllers = {"level"}
  CountMax = 2
  UnhandledMax = 1
  cpu = cpu
  ts = ts
INVARIANTS DisableHasEnable UnloadedIsQuiet
PROPERTIES PenReported UnloadEnds
