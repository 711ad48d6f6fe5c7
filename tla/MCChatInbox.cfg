\* A direct message and a reply between two users, one call of everything else,
\* every fault.
SPECIFICATION Spec
CONSTANTS
  Users = {u, v}
  Directs = {d1}
  Replies = {r1}
  Counts = {c1}
  Marks = {m1}
  Gates = {g1}
  None = None
  Faults = {"db", "cache", "crash"}
SYMMETRY Symmetry
CHECK_DEADLOCK FALSE
INVARIANTS
  UnreadIsRight
  PreviewIsLatest
  FailedReplyIsNotStored
PROPERTIES
  NothingAcrossABlock
