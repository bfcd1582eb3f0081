\* One worker: the clock is read before the wait for the store
CONSTANTS
  w1 = w1
  w2 = w2
  NoWorker = NoWorker
  Workers = {w1, w2}
  Jobs = {1}
  Mortal = {w1, w2}
  Unsupported = {}
  SingleWorker = TRUE
  MaxAttempts = 2
  LeaseSeconds = 1
  BackoffSeconds = 1
  LastStage = 2

SPECIFICATION Spec
PROPERTY ExpiredLeaseFences
