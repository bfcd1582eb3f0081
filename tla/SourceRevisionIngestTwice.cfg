\* Two ingests of one text at the same time: the second is refused
CONSTANTS
  c1 = c1
  c2 = c2
  c3 = c3
  a = a
  b = b
  None = None
  Clients = {c1, c2}
  Texts = {a, b}
  MaxTries = 3
  MaxRequests = 2

SPECIFICATION Spec
INVARIANTS
  IngestIdempotent
SYMMETRY Symmetry
\* clients may stop sending
CHECK_DEADLOCK FALSE
