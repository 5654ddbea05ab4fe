SPECIFICATION OpSpec
CONSTANTS
  Clients = {"c1", "c2"}
  Owner = "c2"
  MaxJobs = 5
  Requests <- AllRequests
  Faults = {"timeout"}
  GlobalUpdates <- NoUpdates
  Operations <- SomeOperations
  MaxCalls = 1
  Shared = {"d"}
  UniqueIds = {"u"}
  ReadBytes = 6
  SaltBytes <- SomeSalts
  InitialNotes <- Notes
  BlockBytes = 4
  LengthBytes = 1
  WordLimit = 64
  WordSizes = {4, 8}
CONSTRAINTS
  OneTimeout
  Together
INVARIANTS
  OpTypeOK
  BuiltAfterHello
  ShutdownEndsManager
  OrphansEnd
  OneIterationLeft
  TestFilesRemoved
  DiskIsShared
  HashIsOfFile
  NotesComeBack
PROPERTY
  FallbackForCause
CHECK_DEADLOCK FALSE
