SPECIFICATION RouteSpec
CONSTANTS
  Threads = {t1, t2}
  Rate = 2
  Win = 6
  GivenBurst = 3
  Milli = 4
  NsPerMs = 2
  Word = 4096
  MaxTime = 18
CHECK_DEADLOCK FALSE
INVARIANT RouteInv
PROPERTY IdleWindowAdmits
