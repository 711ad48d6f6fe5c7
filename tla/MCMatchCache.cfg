\* Two callers, two edits, every fault.
SPECIFICATION FairSpec
CONSTANTS
  Callers = {x1, x2}
  MaxEdits = 2
  MaxAttempts = 2
  None = None
  Faults <- AllFaults
INVARIANTS
  StaleIsPending
PROPERTY
  InvalidationArrives
