\* Two workers: settling a job that was recovered meanwhile is not a lost lease
CONSTANTS
  w1 = w1
  w2 = w2
  NoWorker = NoWorker
  Workers = {w1, w2}
  Jobs = {1}
  Mortal = {w1, w2}
  Unsupported = {}
  SingleWorker = FALSE
  MaxAttempts = 2
  LeaseSeconds = 1
  BackoffSeconds = 1
  LastStage = 2

SPECIFICATION Spec
PROPERTY LostLeaseIsStale
