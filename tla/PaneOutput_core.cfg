CONSTANTS
  p1 = p1
  p2 = p2
  NoSlot = NoSlot
  NoPane = NoPane
  Panes <- OnePane
  Slots <- ThreeSlots
  ByteLimit = 3
  TurnLimit = 1
  ChunkSizes <- LongReads
  SerialModulus = 3
  EndingPanes <- FirstPane
  RequestKinds <- AllRequests
SPECIFICATION FairSpec
INVARIANTS QueuesAreConsistent
PROPERTIES ImplementsOutputStream WaitsEnd
CHECK_DEADLOCK FALSE
