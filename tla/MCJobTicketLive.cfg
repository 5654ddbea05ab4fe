SPECIFICATION FairSpec
CONSTANTS
  c1 = c1
  c2 = c2
  Clients = {c1, c2}
  Mgr = Mgr
  Nobody = Nobody
  MaxResponses = 2
  MaxCalls = 1
PROPERTIES
  BoundedCallsReturn
  WaitReturns
CHECK_DEADLOCK FALSE
