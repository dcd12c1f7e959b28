CONSTANTS
  p1 = p1
  p2 = p2
  Panes <- TwoPanes
  Pids = {1}
  Inherited <- SecondPane
  Policies <- OnePolicyEach
  TypedInto <- FirstPane
  MaxQueued = 1
  SwapLimit = 1
  Foreign = Foreign
  NoOne = NoOne
  NoPid = NoPid
SPECIFICATION FairSpec
INVARIANTS ProcessesAreOurs
PROPERTIES EndedIsReaped NoInputIsLostToSwap 
CHECK_DEADLOCK FALSE
