SPECIFICATION Spec
CONSTANTS
  c1 = c1
  c2 = c2
  Clients = {c1, c2}
  Mgr = Mgr
  Nobody = Nobody
  MaxResponses = 1
  MaxCalls = 2
INVARIANT
  NoFalseTimeout
CHECK_DEADLOCK FALSE
