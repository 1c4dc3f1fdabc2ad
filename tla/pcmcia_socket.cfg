\* One socket and two cards that come and go, users, the power management and
\* the loading and unloading of the bridge.  A card is not exchanged before
\* its removal was looked at.
SPECIFICATION FairSpec
CONSTANTS
  Cards = {k1, k2}
  None = None
  Junk = Junk
  FastSwap = FALSE
INVARIANTS NoLostEvent Balanced Settled
PROPERTIES ImplementsCard SlotFollowed UnloadEnds
