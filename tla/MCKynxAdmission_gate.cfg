SPECIFICATION GateSpec
CONSTANTS
  a = a
  b = b
  t1 = t1
  t2 = t2
  NoIP = NoIP
  IPs <- TwoIPs
  Threads <- TwoThreads
  Slots = 1
  Milli = 3
  NsPerMs = 1
  Word = 256
  RateLimit = 1
  WindowMs = 2
  Burst = 2
  BanThreshold = 2
  ScoreIncrement = 1
  ScoreDecay = 1
  BanNs = 2
  MaxTime = 6
CHECK_DEADLOCK FALSE
SYMMETRY Alike
INVARIANTS AdmissionInv RateBound BanIsSustained BanHolds
