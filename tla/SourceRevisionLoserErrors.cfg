\* A revise that lost the race for two revisions is answered with a server error
CONSTANTS
  c1 = c1
  c2 = c2
  c3 = c3
  a = a
  b = b
  None = None
  Clients = {c1, c2}
  Texts = {a, b}
  MaxTries = 3
  MaxRequests = 3

SPECIFICATION Spec
INVARIANTS
  LoserRetries
SYMMETRY Symmetry
\* clients may stop sending
CHECK_DEADLOCK FALSE
