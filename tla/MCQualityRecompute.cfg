\* Two workers, a direct call, every fault.
SPECIFICATION Spec
CONSTANTS
  Handlers = {h1, h2}
  Workers = {w1, w2}
  Callers = {m1}
  EditKinds = {"text", "rest"}
  MaxEdits = 3
  MaxAttempts = 2
  NoScore = NoScore
  NoRow = NoRow
  Faults = {"db", "queue", "ai", "crash"}
SYMMETRY Symmetry
INVARIANTS
  OneGrader
  AcceptedIsScored
PROPERTY
  ScoreNeverGoesBack
CHECK_DEADLOCK FALSE
