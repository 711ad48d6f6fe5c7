\* Four guarded requests beside an unguarded import, a cap of two.
SPECIFICATION FairSpec
CONSTANTS
  r1 = r1
  r2 = r2
  r3 = r3
  r4 = r4
  i1 = i1
  i2 = i2
  i3 = i3
  i4 = i4
  Requests = {r1, r2, r3, r4}
  Items = {i1, i2, i3, i4}
  ItemOf <- MCItemOf
  Importable = {i4}
  Max = 2
  NoRequest = NoRequest
PROPERTIES
  GuardedStaysWithinCap
  ImplementsQuota
  RequestsEnd
