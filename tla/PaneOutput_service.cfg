CONSTANTS
  p1 = p1
  p2 = p2
  NoSlot = NoSlot
  NoPane = NoPane
  Panes <- TwoPanes
  Slots <- TwoSlots
  ByteLimit = 2
  TurnLimit = 1
  ChunkSizes <- UnitReads
  SerialModulus = 2
  EndingPanes <- SecondPane
  RequestKinds <- NoRequests
SPECIFICATION FairSpec
PROPERTIES QueuesAreServed
CHECK_DEADLOCK FALSE
