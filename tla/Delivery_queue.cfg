CONSTANTS
  Clients = {c1}
  Capacity = 2
  Targets = {}
  MaxHostWrites = 1
  RejectedActions = {a1, a2}
  MaxHeldRejections = 1
  Inputs <- QueueInputs
  MaxInputs = 3
SPECIFICATION Spec
SYMMETRY QueueSymmetry
INVARIANTS QueueIsConsistent NoFrameIsForgotten StreamIsContinuous
CHECK_DEADLOCK FALSE
