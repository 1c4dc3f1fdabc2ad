\* One driver requests the line while another one frees it.
SPECIFICATION Spec
CONSTANTS
  CPUs = {c1, c2}
  Drivers = {d1, d2}
  None = None
  Shared = FALSE
  Controllers = {"edge"}
  RequestDuringFree = TRUE
  CountMax = 2
  UnhandledMax = 1
INVARIANT FreeWaits
