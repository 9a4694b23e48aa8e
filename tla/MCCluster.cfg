SPECIFICATION ClusterSpec
CONSTANTS
  Tools = {t1, t2}
  N = 2
  MaxPid = 4
  MaxCommands = 4
INVARIANTS ClusterInv DrainedStay OneAtATime
CONSTRAINT Undisturbed
SYMMETRY MCSymmetry
CHECK_DEADLOCK FALSE
