\* Two syncs, a reader, every fault, leases that run out.
SPECIFICATION Spec
CONSTANTS
  i1 = i1
  i2 = i2
  c1 = c1
  c2 = c2
  Syncs = {s1, s2}
  Readers = {r1}
  Institutions = {i1, i2}
  Courses = {c1, c2}
  InstOf <- MCInstOf
  BatchSize = 1
  LockTtl = 2
  MaxLogs = 2
  NoEntry = NoEntry
  Faults = {"csv", "db", "cache", "crash"}
SYMMETRY Symmetry
INVARIANTS
  SuccessMeansStored
  OneSyncAtATime
  RunningRowHasSync
  LockHasSync
  FreshAfterSync
