\* Three cores run programs that synchronise in one order and a pipeline of four stages.
SPECIFICATION SysFairSpec
CONSTANTS
  Cores <- ThreeCores
  NumStages = 4
  CoreOf <- Dispatch
  Outer <- TwoRows
  Inner <- ThreeColumns
  NoTile = NoTile
  Manager = 0
  Programs <- MatchedPrograms
  ManagerSyncs = 2
  ManagerWaits = TRUE
CHECK_DEADLOCK FALSE
INVARIANT SyncTypeOK
INVARIANT TypeOK
INVARIANT InBounds
INVARIANT NoRace
INVARIANT OutputRight
PROPERTY LocalSpec
PROPERTY GlobalSpec
PROPERTY ProgramsEnd
PROPERTY ProgramFinishes
