CONSTANTS
  Kinds <- AllKinds
  MaxPending = 2
SPECIFICATION FairSpec
INVARIANTS ExitToldOnce ExitIsNotSwallowed
PROPERTIES NoChunkAfterExit WaitersReturn
CHECK_DEADLOCK FALSE
