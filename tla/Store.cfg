\* Three threads, two where a COMMIT may fail; the other instances are in MCStore
CONSTANTS
  Processes = {1, 2}
  MaxStops = 1
  Threads = {1, 2, 3}
  FewThreads = {1, 2}
  MaxTries = 2
  MaxRequests = 2
  MoreRequests = 3
  MaxCrashes = 1
SPECIFICATION Spec
INVARIANTS
  MigrationSafe
PROPERTIES
  RequestsKept
  ImplementsLog
  StoreProgress
\* it stops when every store is open, or the requests are used up
CHECK_DEADLOCK FALSE
