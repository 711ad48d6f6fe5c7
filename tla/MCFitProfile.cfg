\* Two looks, two submissions, an erasure, an empty pool and another, every fault.
SPECIFICATION FitSpec
CONSTANTS
  Looks = {l1, l2}
  Submits = {s1, s2}
  Erasures = {e1}
  Pools = {p1, NoPool}
  NoPool = NoPool
  NoRow = NoRow
  FitFaults = {"db", "crash"}
SYMMETRY Symmetry
INVARIANTS
  ScoredOnce
  VersionsDistinct
  ErasedStaysErased
  OneOpenSet
CHECK_DEADLOCK FALSE
