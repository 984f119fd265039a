SPECIFICATION Spec
CONSTANTS
  r1 = r1
  r2 = r2
  r3 = r3
  Request <- ThreeRequests
  Wanted <- EveryWay
  PoolSize = 1
  MaxOverflow = 1
  MaxEpoch = 2
  NoConn = NoConn
SYMMETRY Symmetry
INVARIANTS
  TypeOK
  PoolAccounts
  CalmRequestsSucceed
