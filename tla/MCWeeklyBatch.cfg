\* Two queue jobs of one user with two attempts each, two postings, an approval, every
\* fault.  No symmetry: there is a liveness property.
SPECIFICATION FairBatchSpec
CONSTANTS
  Jobs = {j1, j2}
  Workers = {w1, w2}
  Approvals = {a1}
  BatchSize = 1
  MaxAttempts = 2
  None = None
  BatchFaults = {"db", "mail", "crash"}
INVARIANTS
  OneDigest
  DigestIsBatch
  DecisionsAgree
PROPERTIES
  BatchEnds
