\* Two workers over one database, one job: every interleaving of their steps, with crashes
CONSTANTS
  w1 = w1
  w2 = w2
  NoWorker = NoWorker
  Workers = {w1, w2}
  Jobs = {1}
  Mortal = {w1, w2}
  Unsupported = {}
  SingleWorker = FALSE
  MaxAttempts = 2
  LeaseSeconds = 2
  BackoffSeconds = 1
  LastStage = 2

SPECIFICATION Spec
INVARIANTS
  CheckpointsBacked
  SuccessIsComplete
  AttemptHasOneWorker
  TransientFailureIsExhausted
PROPERTIES
  TerminalFinal
  OnlyAllowedTransitions
  OnlyCurrentAttemptWrites
  ImplementsLifecycle
SYMMETRY WorkerSymmetry
