SPECIFICATION Spec
CONSTANTS
  c1 = c1
  c2 = c2
  Clients = {c1, c2}
  Mgr = Mgr
  Nobody = Nobody
  MaxResponses = 2
  MaxCalls = 2
SYMMETRY Symmetry
INVARIANTS
  TypeOK
  ReadableAfterWait
  LockDiscipline
  GetFailureSafe
  IInv
PROPERTIES
  FinishedIsFinal
  TicketImplemented
CHECK_DEADLOCK FALSE
