\* Functions through all passes, then run by two cores.
SPECIFICATION Spec
CONSTANTS
  Trips = 2
  Tile = 2
  L1Size = 8
  Sources <- MCSources
INVARIANT Verified
INVARIANT DataRight
INVARIANT NoUseAfterEnd
