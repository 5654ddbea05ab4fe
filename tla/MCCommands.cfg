SPECIFICATION Spec
CONSTANTS
  Clients = {"c1"}
  MaxJobs = 2
  Requests <- Everything
  Faults = {}
  GlobalUpdates <- PutUpdates
INVARIANTS
  ManagerSurvives
  OwnAnswer
PROPERTY TicketsImplemented
CHECK_DEADLOCK FALSE
