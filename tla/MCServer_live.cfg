CONSTANTS
  c1 = c1
  c2 = c2
  c3 = c3
  c4 = c4
  c5 = c5
  Conns = {c1, c3}
  NoConn = NoConn
  ReqLen <- MCReqLen
  NumWorkers = 1
  RingBound = 1
  MaxClients = 1
  BufMax = 2
  MaxUnits = 2
SPECIFICATION Spec
PROPERTIES RingsDrain RequestsServed StopEnds
CHECK_DEADLOCK FALSE
