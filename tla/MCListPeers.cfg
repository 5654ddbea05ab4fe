SPECIFICATION Spec
CONSTANTS
  Clients = {"c1"}
  MaxJobs = 2
  Requests <- TwoPeerCommands
  Faults = {"timeout"}
  GlobalUpdates <- NoUpdates
INVARIANT ListPeersNeverFails
CHECK_DEADLOCK FALSE
