\* A reduction, then a normal job.
SPECIFICATION Spec
CONSTANTS
  NumDims = 2
  SpatialDims <- OneLane
  AddrBits = 3
  DataBits = 4
  QueueDepth = 3
  IsLastDepth = 8
  NoData = NoData
  Regs <- AluRegs
  StartReg = "start"
  NumBanks = 2
  Programs <- MixedPrograms
INVARIANT ResultAtDone
