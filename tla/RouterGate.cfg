CONSTANTS
  Conns = {c1, c2}
  NoConn = NoConn
  RequestKinds <- AllKinds
  MaxRestartsDue = 1
SPECIFICATION FairSpec
INVARIANTS RequestsAreHeld NoRequestIsDropped
 
CHECK_DEADLOCK FALSE
