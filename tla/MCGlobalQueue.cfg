SPECIFICATION Spec
CONSTANTS
  Clients = {"c1"}
  MaxJobs = 1
  Requests <- Watching
  Faults = {}
  GlobalUpdates <- GetUpdates
INVARIANT GlobalQueueIsFollowed
CHECK_DEADLOCK FALSE
