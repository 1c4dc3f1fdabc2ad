\* Two drivers share a line, edge or level; none requests while another one frees.
SPECIFICATION FairSpec
CONSTANTS
  CPUs = {c1, c2}
  Drivers = {d1, d2}
  None = None
  Shared = TRUE
  Controllers = {"level", "edge"}
  RequestDuringFree = FALSE
  CountMax = 2
  UnhandledMax = 1
INVARIANTS TypeOK HandlersExclusive DisabledIsQuiet FreeWaits DepthCounts
INVARIANT EnabledIsUnmasked
PROPERTIES PendingServed SyncReturns
