SPECIFICATION FairSpec
CONSTANTS
  Fields <- MCFields
  Base <- MCBase
  Woven <- MCWoven
  Sources <- MCSources
  MaxTrips = 3
INVARIANTS
  Verified
  LaunchesKept
PROPERTY
  CompileEnds
