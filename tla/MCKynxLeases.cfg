CONSTANTS
  m1 = m1
  m2 = m2
  Movers <- TwoMovers
  PoolSize = 16
  NumWorkers = 18
  MaxLost = 1
SPECIFICATION TiersSpec
SYMMETRY MoverSymmetry
INVARIANTS LeasesInv QuiescentTier
