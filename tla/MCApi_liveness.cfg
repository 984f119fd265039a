SPECIFICATION FairSpec
CONSTANTS
  r1 = r1
  r2 = r2
  r3 = r3
  Request <- ThreeRequests
  Wanted <- OnlySearches
  PoolSize = 1
  MaxOverflow = 1
  MaxEpoch = 2
  NoConn = NoConn
PROPERTIES
  EveryRequestAnswered
