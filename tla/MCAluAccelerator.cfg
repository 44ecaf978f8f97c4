\* Two jobs in normal mode, or two in readWrite mode, programmed back to back.
SPECIFICATION FairSpec
CONSTANTS
  NumDims = 2
  SpatialDims <- OneLane
  AddrBits = 4
  DataBits = 4
  QueueDepth = 3
  IsLastDepth = 8
  NoData = NoData
  Regs <- AluRegs
  StartReg = "start"
  NumBanks = 2
  Programs <- AllPrograms
INVARIANT ResultAtDone
INVARIANT DoneMeansDrained
PROPERTY ProgramEnds
