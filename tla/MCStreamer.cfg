\* Two lanes; reading, writing and readWrite jobs, each kind on a streamer of its own.
SPECIFICATION FairSpec
CONSTANTS
  NumDims = 2
  SpatialDims <- TwoLanes
  AddrBits = 3
  QueueDepth = 2
  IsLastDepth = 9
  NoData = NoData
  JobSets <- AllJobSets
  MaxJobs = 2
  Outputs <- Numbered
  NumBanks = 2
INVARIANT TypeOK
INVARIANT ReadsInOrder
INVARIANT DoneMeansWritten
INVARIANT NoReadLost
INVARIANT BypassAssertion
PROPERTY JobsEnd
