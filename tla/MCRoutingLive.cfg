SPECIFICATION FairSpec
CONSTANTS
  Clients = {"c1", "c2"}
  MaxJobs = 2
  Requests <- EachKind
  Faults = {"socket"}
  GlobalUpdates <- NoUpdates
PROPERTIES
  QueuedIsSent
  OperationsReturn
CHECK_DEADLOCK FALSE
