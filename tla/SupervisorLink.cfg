CONSTANTS
  p1 = p1
  NoPane = NoPane
  Panes <- OnePane
  Window = 2
  MinGrant = 1
  ChunkSizes <- Chunks
  PrintLimit = 3
  LinkLimit = 3
  BreakLimit = 1
  SwapLimit = 1
  RecordsAtOnce = TRUE
  Versions <- WindowOnly
SPECIFICATION FairSpec
INVARIANTS LinkIsConsistent
PROPERTIES ImplementsOutputStream  SupervisorEnds
CHECK_DEADLOCK FALSE
