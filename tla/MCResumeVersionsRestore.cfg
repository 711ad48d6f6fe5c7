\* A snapshot, an edit of the sections, and the restore of the snapshot.
SPECIFICATION Spec
CONSTANTS
  c1 = c1
  c2 = c2
  c3 = c3
  c4 = c4
  blank = blank
  edited = edited
  Calls = {c1, c2}
  Kind <- KindTwo
  Values = {blank, edited}
  Blank = blank
  MaxVersions = 3
  MaxRetries = 2
PROPERTY
  RestoreRollsBack
CHECK_DEADLOCK FALSE
