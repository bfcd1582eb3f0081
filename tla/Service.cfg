\* Three users alone, two clients of two users; two logins and a limit of two; three
\* buckets and lists cut at one; the queries are of QueryData.
CONSTANTS
  Client = c1
  Clients = {c1, c2}
  Users = {u1, u2, u3}
  FewUsers = {u1, u2}
  Orgs = {o1}
  LoginClients = {d1, d2}
  Tokens = {n1, n2}
  Limit = 2
  LoginWindow = 2
  TTL = 2
  Worker = w1
  SignalIds = {1, 2, 3}
  MaxBucket = 3
  MaxAttempts = 2
  MaxSignals = 1
  MaxNew = 1
  Thread = t1
  Threads = {t1, t2}
  Keys = {k1, k2, k3}
  FewKeys = {k1}
  Quota = 2
  Window = 2
  MaxKeys = 2
  MaxClock = 6
  Entities = {"e1", "e2"}
  Meetings = {"m1"}
  Nobody <- Nothing
  Forms <- NamesOf
  Requests <- Questions
  Mentions <- AllMentions
  Report <- Reported
  Parts <- WrittenParts
  EvidenceKeys <- AllKeys
  Hash <- HashOf
  Budget = 5
  MinOverlap = 2
  ProbeTopK = 10
  MaxRevision = 2
  MaxMoments = 3

SPECIFICATION Spec
INVARIANTS
  LoginsSafe
  ScansReportOnce
  AnswersGrounded
PROPERTIES
  MembershipKept
  QuotaKept
\* every user may be disabled, or every slug taken: then no request is let in
CHECK_DEADLOCK FALSE
