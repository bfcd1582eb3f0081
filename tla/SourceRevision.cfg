\* Two clients with three requests each, two texts, restarts
CONSTANTS
  c1 = c1
  c2 = c2
  c3 = c3
  a = a
  b = b
  None = None
  Clients = {c1, c2}
  Texts = {a, b}
  MaxTries = 2
  MaxRequests = 3

SPECIFICATION Spec
INVARIANTS
  GaplessHistory
  EveryRevisionHasJob
  AnswerOwnsRevision
  ExtractionFaithful
  RefreshFollowsExtraction
PROPERTIES
  NeverBackwards
  ImplementsLog
SYMMETRY Symmetry
\* clients may stop sending
CHECK_DEADLOCK FALSE
