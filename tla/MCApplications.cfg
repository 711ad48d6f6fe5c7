\* Two rage runs, an auto-apply job and the user, two jobs, every fault.
SPECIFICATION ApplicationsSpec
CONSTANTS
  Jobs = {j1, j2}
  Rages = {r1, r2}
  Autos = {a1}
  Applies = {p1}
  MaxApplications = 2
  DailyLimit = 1
  HourlyCap = 1
  MaxAttempts = 2
  Wirings <- Either
  None = None
  Faults = {"tailor", "db", "cache", "crash"}
SYMMETRY Symmetry
CHECK_DEADLOCK FALSE
INVARIANTS
  LimitRespected
PROPERTIES
  CapRespected
  FirstComeFirstServed
