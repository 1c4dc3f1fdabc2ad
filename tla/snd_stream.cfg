\* Both versions of the driver, a buffer of three periods; a second thread
\* issues ioctls at any moment.
SPECIFICATION FairSpec
CONSTANTS
  Configs <- ThreePeriods
  BoundFactor = 4
  DataSize = 7
  Versions = {FALSE, TRUE}
  OtherThread = TRUE
INVARIANTS TypeOK NoStall AvailBounded
PROPERTIES PositionKept CloseReturns
