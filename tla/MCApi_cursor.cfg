SPECIFICATION Spec
CONSTANTS
  r1 = r1
  r2 = r2
  r3 = r3
  Request <- OneRequest
  Wanted <- TamperedCursors
  PoolSize = 1
  MaxOverflow = 1
  MaxEpoch = 1
  NoConn = NoConn
INVARIANTS
  TamperedCursorIs400
