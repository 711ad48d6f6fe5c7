\* The sweep on two pods under the lock, for one reminder; one retry, a lease of
\* two ticks, every fault.
SPECIFICATION FairSweepSpec
CONSTANTS
  Pods = {p1, p2}
  Tokens = {t1, t2, t3}
  NoToken = NoToken
  ExpectedDuration = 1
  MinLockTtl = 1
  MaxRetries = 1
  Apps = {a1}
  Ladder = 1
  NoItem = NoItem
INVARIANTS
  RemindedOnce
PROPERTIES
  ImplementsLease
  KeyIsFreed
