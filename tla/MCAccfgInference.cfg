SPECIFICATION FairSpec
CONSTANTS
  Fields <- MCFields
  Base <- MCBase
  Woven <- MCWoven
  Sources <- SetBackOnly
  MaxTrips = 2
INVARIANT
  InferenceSound
