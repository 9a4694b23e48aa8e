SPECIFICATION Spec
CONSTANTS
  s1 = s1
  Align = 2
  Page = 4
  DefReserve = 8
  DefCommit = 4
  Initial = 4
  MaxRule = 16
  HotLimit = 4
  HotCeiling = 8
  SizeMax = 63
  Sizes = {1, 3, 10, 63}
  Strings = {s1}
  LeaseLimit = 6
  MaxSegs = 3
  MaxAllocs = 4
  MaxResets = 1
  MaxCps = 1
INVARIANTS LiveDisjoint LiveMapped AccountsExact
CHECK_DEADLOCK FALSE
