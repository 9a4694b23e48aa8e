CONSTANTS
  c1 = c1
  c2 = c2
  c3 = c3
  c4 = c4
  c5 = c5
  Conns = {c3, c4, c5}
  NoConn = NoConn
  ReqLen <- MCReqLen
  NumWorkers = 2
  RingBound = 1
  MaxClients = 1
  BufMax = 2
  MaxUnits = 0
SPECIFICATION Spec
SYMMETRY Alike
INVARIANT Ownership
CHECK_DEADLOCK FALSE
