\* Two cores, two tags competing for one line, two words per line.
SPECIFICATION FairSpec
CONSTANTS
  NumInp = 2
  Tags = {"t0", "t1"}
  Lines = {"l0"}
  Instrs = {"i0", "i1"}
  Words <- MCWords
  Mem <- MCMem
  NoAddr = NoAddr
INVARIANT TypeOK
INVARIANT LinesCoherent
INVARIANT OneOwner
PROPERTY PortSpec
PROPERTY EveryFetchAccepted
