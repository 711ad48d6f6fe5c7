\* A call of every kind, a cap of one, as many tries as calls.
SPECIFICATION Spec
CONSTANTS
  c1 = c1
  c2 = c2
  c3 = c3
  c4 = c4
  blank = blank
  edited = edited
  Calls = {c1, c2, c3, c4}
  Kind <- KindAll
  Values = {blank}
  Blank = blank
  MaxVersions = 1
  MaxRetries = 4
INVARIANTS
  Capped
  Sequential
  BudgetSuffices
PROPERTY
  KeepsNewest
CHECK_DEADLOCK FALSE
