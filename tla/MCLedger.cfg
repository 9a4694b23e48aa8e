SPECIFICATION Spec
CONSTANTS
  t1 = t1
  t2 = t2
  t3 = t3
  a = a
  ab = ab
  NoKey = NoKey
  Keys = {a, ab}
  Threads = {t1, t2, t3}
  PrefixOf <- Nested
  Rows = 4
  MaxCalls = 5
SYMMETRY ThreadSymmetry
INVARIANTS LedgerInv OwnRow CallsAccounted
CHECK_DEADLOCK FALSE
