\* One worker at a time, restarted after a crash; two jobs, one of a type without handler
CONSTANTS
  w1 = w1
  w2 = w2
  NoWorker = NoWorker
  Workers = {w1, w2}
  Jobs = {1, 2}
  Mortal = {w1}
  Unsupported = {2}
  SingleWorker = TRUE
  MaxAttempts = 2
  LeaseSeconds = 1
  BackoffSeconds = 1
  LastStage = 1

SPECIFICATION FairSpec
INVARIANTS
  WorkersSurvive
PROPERTIES
  LiveLeaseKept
  EveryJobSettles
  ImplementsFairLifecycle
