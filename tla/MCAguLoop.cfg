\* Three temporal dimensions, bounds 0..3, addresses of 3 bits.
SPECIFICATION Spec
CONSTANTS
  NumDims = 3
  SpatialDims <- OneLane
  AddrBits = 3
  Configs <- GoodConfigs
INVARIANT NestOrder
INVARIANT FetchedAtFirstUse
INVARIANT RetiredAtLastUse
PROPERTY Finishes
