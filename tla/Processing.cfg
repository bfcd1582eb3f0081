\* A run of the pipeline and a request; two runs of the index, or one and a removal;
\* two revisions or a refresh of the status; a search over four entities and two
\* meetings.  The bounds of the other instances are in MCProcessing.
CONSTANTS
  Runs = {w1}
  Run = w1
  Callers = {c1}
  EntityIds = {1, 2}
  MentionIds = {1, 2, 3}
  Indexers = {x1, x2}
  Indexer = x1
  Cleaners = {r1}
  LastRevision = 2
  MaxJobs = 2
  MaxLate = 1
  Evidence = {1, 2}
  Findings = {{1}, {1, 2}}
  Nodes = {1, 2, 3, 4}
  Listed = {1, 2, 3}
  Origins = {1, 5}
  FirstMeeting = m1
  SecondMeeting = m2
  Hops = 3
  FewHops = 2
  MaxWrites = 1
  Subjects = {1, 2}
  Subject = 1
  Counts = {0, 2}

SPECIFICATION Spec
INVARIANTS
  StatusIsTrue
  PathsComplete
  ImpactsComplete
PROPERTIES
  PipelineConsistent
  IndexKept
\* nothing is left to do when the mentions, jobs and revisions are used up
CHECK_DEADLOCK FALSE
