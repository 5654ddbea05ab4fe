SPECIFICATION Spec
CONSTANTS
  c1 = c1
  c2 = c2
  Clients = {c1, c2}
  MaxJobs = 3
  Requests <- Clashing
  Faults = {"timeout"}
  GlobalUpdates <- NoUpdates
SYMMETRY Symmetry
INVARIANTS
  TypeOK
  ExactReplies
  MapExact
  SendOrder
  OwnAnswer
CHECK_DEADLOCK FALSE
