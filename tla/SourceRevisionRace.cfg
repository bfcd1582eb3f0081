\* Three clients with two requests each: the three tries of a revise against its rivals
CONSTANTS
  c1 = c1
  c2 = c2
  c3 = c3
  a = a
  b = b
  None = None
  Clients = {c1, c2, c3}
  Texts = {a}
  MaxTries = 3
  MaxRequests = 2

SPECIFICATION Spec
INVARIANTS
  ConflictMeansBeaten
SYMMETRY Symmetry
\* clients may stop sending
CHECK_DEADLOCK FALSE
