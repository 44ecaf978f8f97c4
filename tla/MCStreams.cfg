CONSTANTS
  Jobs <- MCJobs
  Dma <- MCDma
SPECIFICATION Spec
INVARIANT SameWork
INVARIANT FinishedOnce
INVARIANT AddressesRight
INVARIANT CopyRight
