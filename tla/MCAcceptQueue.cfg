CONSTANTS
  Socks = {s1, s2, s3}
  NoSock = NoSock
  Cap = 4
SPECIFICATION Spec
INVARIANT NoSlotRace
PROPERTY ImplementsFifo
