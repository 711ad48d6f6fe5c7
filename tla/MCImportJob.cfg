CONSTANTS
  Requests = {create, retry1, retry2}
  Creator = create
  Cancellers = {cancel1}
  NoResume = NoResume
  Gone = Gone
  Faults <- AllFaults
SPECIFICATION FairSpec
INVARIANTS
  CompletedNamesResume
  OneResume
  RunningIsProcessed
PROPERTIES
  NothingAfterCancel
  ImportEnds
CHECK_DEADLOCK FALSE
