CONSTANTS
  here = here
  there = there
  Viewers <- TwoViewers
  Remote <- There
  AutoClose = TRUE
  RecordLimit = 1
  Outcomes = {"exec", "keep", "rebuild"}
  Commands <- SomeCommands
  MaxConnections = 2
  MaxSwaps = 1
  Fresh = Fresh
  None = None
SPECIFICATION FairSpec
INVARIANTS StoreIsConsistent ViewComesBack
PROPERTIES WindowRunsItsTime SwapSettles
CHECK_DEADLOCK FALSE
