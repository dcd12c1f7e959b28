CONSTANTS
  Clients = {c1}
  Capacity = 1
  Targets = {t1}
  MaxHostWrites = 1
  RejectedActions = {}
  MaxHeldRejections = 1
  Inputs <- StreamInputs
  MaxInputs = 2
SPECIFICATION ReadingSpec
INVARIANTS RequestsPrecedeEnding
PROPERTIES ClientsAreServed EndingsComplete
CHECK_DEADLOCK FALSE
