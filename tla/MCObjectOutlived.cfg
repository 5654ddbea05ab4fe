SPECIFICATION LifeSpec
CONSTANTS
  Clients = {"c1"}
  Owner = "c1"
  MaxJobs = 2
  Requests <- FewRequests
  Faults = {}
  GlobalUpdates <- NoUpdates
INVARIANT ObjectOutlivesManager
CHECK_DEADLOCK FALSE
