\* Two lanes that store, granted at different times.
SPECIFICATION Spec
CONSTANTS
  NumDims = 2
  SpatialDims <- TwoLanes
  AddrBits = 3
  QueueDepth = 2
  IsLastDepth = 9
  NoData = NoData
  JobSets <- StoreJobSets
  MaxJobs = 2
  Outputs <- Numbered
  NumBanks = 2
INVARIANT ResultInMemory
