# ThreadLine in TLA+

ThreadLine ingests meeting transcripts, extracts and resolves what was said, and
derives intelligence from it. The requests of its API, a background worker and a
SQLite database share the work; a meeting is processed by *jobs* that survive
crashes and are retried. This directory models the parts of ThreadLine whose
correctness depends on who does what when, checks the models with TLC and proves
theorems about them with TLAPS. Paths below are relative to `src/`.

## 1. The system

| Component | State it keeps | Operations | Correct means |
|---|---|---|---|
| Job repository (`app/repositories/background_job_repository.py`) | table `background_jobs`: status, attempts, stage, worker, lease, retry time | enqueue, claim, transition, checkpoint, recover_stale, cancel | an attempt has one owner; finished jobs stay finished; only legal transitions; attempts bounded |
| Worker (`app/services/background_worker_service.py`, `meeting_processing_service.py`) | the claimed job, its local copy of the row | run_once: recover, list, claim, stages, settle; shutdown | every job is settled; progress never runs ahead of output; the thread survives |
| Worker lifecycle (`app/main.py`) | registered worker and thread | start, stop, loop, ownership check of handlers, scheduler tick | one worker per process; a dead one is replaced by a restart |
| Meetings API (`app/api/meetings.py`, `meeting_service.py`, `extraction_service.py`, `sqlite_source_repositories.py`) | tables `meetings`, `extraction_results` | ingest, revise, extract | one order of revisions, none lost, each with its job; derived rows match their revision |
| Meeting pipeline (`meeting_pipeline_orchestrator.py` and services) | mentions, entities, dependencies, semantic records | observe, resolve, persist relationships, derive, index | no stage mixes source revisions; retries are idempotent |
| Consistency status (`processing_consistency_service.py`) | none (reads all of the above) | get_consistency_status | CURRENT only when the revision has been processed; a failure is not hidden |
| Semantic index (`semantic_indexing_service.py`, `semantic_index_repository.py`) | a JSON file of embeddings | index, advance, rebuild, remove | a stamp is of a revision at which the text was said; no record lost between processes |
| Proactive scans (`proactive_intelligence_service.py`, `main.py` tick) | scan jobs and their summaries | plan, enqueue, scan | one outstanding scan per organisation; only new signals reported |
| Rate limiter (`rate_limit.py`, `api/query.py`) | hits per key, bounded number of keys | check | at most N in every window; bounded memory |
| Authentication (`app/auth/service.py`, `auth_repositories.py`) | users, members, sessions, failed logins | bootstrap, provision, change role, remove, disable, log in | an organisation keeps an owner; removal and disable stick; bounded guesses |
| SQLite store (`sqlite_store.py`) | one connection, one lock, a schema version | transaction, migrations | a migration can be stopped anywhere; dirty reads do no harm |
| Entity resolution (`app/entity_resolution`) | none | shortlist, score, decide | decisions have a clear winner and do not depend on unrelated entities |
| Dependency graph and impact (`dependency_graph_service.py`, `impact_analysis_service.py`) | dependency records | search, chains, impacts | every path once, cycles exact, nothing blocked left out |
| Temporal state (`correlation_service.py`, `app/temporal`) | none | correlate, replay | the lifecycle follows the meetings, not the order they arrive in |
| Read models (`insight_service.py` and its readers) | none | insights, attention, actions, portfolio, changes | what is said follows the history; counts agree |
| Queries (`natural_language_query_service.py` and retrieval) | none | preview, query | answers cite what they show; what was found was reported at the current revision |
| Providers, frontend | none | remote calls, presentation | — |

How they interact: a request writes the meeting and its job in one transaction;
the worker polls the job table, claims, and runs the pipeline stage by stage, each
stage checking that the job is still owned and, on writes, that its revision is
still the meeting's; the status reads what is stored and says whether it agrees.
There is no message bus: every interaction is a row that one party writes and
another one reads, and every difficulty is in what happens between the two.

What is hard, and where, is listed line by line under `hazards` in `PROJECT.json`.
In short: reads that are checked before a later write (claims, transitions,
revisions, ownership, revision guards); lists worked through after they were
selected (`recover_stale`); a handler that outlives its lease; a crash between an
output and the record of it; the exceptions of the repository inside the worker's
own exception handlers; retries of requests and of jobs; answers put together from several reads; a file
and a connection that several parties share; a migration that stops half-way.

## 2. The modules

| Module | What it is |
|---|---|
| `JobQueue` | the job table, the workers that drive it, the cancelling client, the clock |
| `JobQueueInvariant` | the inductive invariant `IInv` of `JobQueue` |
| `JobLifecycle` | abstract: what the queue promises of a job, without workers, leases or clocks |
| `JobQueueRefinement` | the mapping under which `JobQueue` implements `JobLifecycle` |
| `JobQueueProofs` | theorems and proofs about `JobQueue`, for all values of the constants |
| `MCJobQueue` | the instances of `JobQueue` for TLC |
| `SourceRevision` | ingest, revise and extract of one meeting over the guarded writes |
| `SourceRevisionInvariant` | the inductive invariant `IInv` of `SourceRevision` |
| `SourceRevisionProofs` | theorems and proofs about `SourceRevision`, for all values of the constants |
| `SourceRevisionLog` | `SourceRevision` implements `MeetingLog` |
| `MCSourceRevision` | the instances of `SourceRevision` for TLC |
| `MeetingLog` | abstract: revisions 1, 2, 3, ... of a meeting, each with its job |
| `SharedStore` | the threads of a server on the one connection, or on memory |
| `Migration`, `MigrationSteps` | the schema migration; its statements, version by version |
| `Membership`, `Sessions` | users, organisations and members; logins, throttle and sessions |
| `RateLimiter` | the sliding-window limiter and the threads that build and use it |
| `ProactiveScan` | the scheduler tick, the scan jobs and what a scan reports as new |
| `EvidenceRetrieval`, `Query` | evidence, ranking and context; a query while meetings change |
| `QueryData` | the entities, signals and questions `Query` is checked with |
| `MeetingPipeline` | mentions, entities and dependencies, by the worker and by endpoints |
| `ResolutionPolicy`, `EntityResolution` | the decision about a name; the registry as it grows |
| `DependencyStatements` | from the sentences of a mention to dependencies |
| `SemanticIndex` | the index file and its writers, with crashes inside a write |
| `ConsistencyStatus` | the status of a meeting, read by read |
| `EntityTimeline` | correlation and replay of the observations of an entity |
| `EntityInsights` | insights, attention, actions and events, from the timeline |
| `Portfolio`, `OrganisationChange` | risk and changes, read while meetings are processed |
| `Dependencies`, `DependencyGraph`, `Impact` | records and paths; the search; impacts along chains |
| `MCService`, `MCProcessing`, `MCIntelligence`, `MCStore` | the instances of these for TLC, side by side |
| `SharedStoreProofs`, `SemanticIndexProofs`, `MembershipProofs` | theorems and proofs about these three modules |
| `StoreProofs`, `ProcessingProofs`, `ServiceProofs` | the theorems about what the collections check: those of the modules above carried to their instances, and the proofs about `Migration`, `ConsistencyStatus`, `MeetingPipeline`, `DependencyGraph`, `Impact`, `ProactiveScan`, `Sessions`, `RateLimiter`, `EvidenceRetrieval` and `Query` |

### JobQueue

`job[j]` is the row of job `j`; a lease or retry time of 0 is NULL and status
`ABSENT` is a row not yet inserted. `output[j]` is the set of stages whose durable
output a handler has written. `wk[w]` is where worker `w` stands in `run_once`
and the locals of that call. `cancelling` is a cancel between its read and its
write. `clock` is the repository clock.

The grain of atomicity is that of the code. A transaction and a single statement
are one step each. `transition()` is two: `SettleRead`/`RecoverRead`/`CancelRead`
take the row and check it (lines 338-352), `SettleWrite`/`RecoverWrite`/
`CancelWrite` are the guarded UPDATE with its values (353-373), which write back
the fields of the row *read* over the row that is there. `recover_stale` is a scan
and then one transition per listed job. `checkpoint()` takes its clock value
(`StageDone`) before its transaction (`Checkpoint`).

| Actions | Code |
|---|---|
| `Enqueue` | `enqueue`, `ON CONFLICT DO NOTHING` |
| `CancelRead`, `CancelWrite` | `cancel` = `transition(CANCELLED)` without owner |
| `RecoverScan`, `RecoverRead`, `RecoverWrite` | `recover_stale`, called by `run_once` |
| `ListCandidates`, `Claim`, `ClaimNothing` | the candidate list and the claim loop |
| `HandlerWrites`, `HandlerDisowned`, `HandlerRaises`, `StageDone`, `Checkpoint` | `MeetingProcessingService.process` with `assert_owned`, and the COMPLETED checkpoint of `run_once` |
| `SettleRead`, `SettleInvalid`, `SettleDisowned`, `SettleWrite` | the transition to SUCCEEDED, RETRY_WAITING or FAILED and the `except` clauses around it |
| `Start`, `Shutdown`, `Crash` | `start_background_worker`, `shutdown`, the end of the process |
| `Tick` | the clock; it stops when no lease or retry time lies ahead, since all later values compare alike, so the model needs no bound on time |

`wk[w].pc = "killed"` is a worker thread that an exception ended: `run_once` is
called without a handler in `_worker_loop`, and `start_background_worker` does
nothing while the thread is registered. With `SingleWorker` a new worker starts
only after the process of a dead one is gone.

Abstractions, each with its reason:

- The check `assert_owned` and the output it protects are one step. What a stage
  writes between the two belongs to the pipeline and its revision guards.
- The COMPLETED checkpoint of `process` and that of `run_once` are one: the
  second writes what the first wrote, under the same guard.
- `claim` takes its clock value with its transaction, and the cutoff of the
  candidate list is the instant of the recovery scan: an earlier value could only
  make a job be claimed later, or its lease end earlier.
- `cancel` has no endpoint; the scheduler offers it, so a client may take it at
  any time. One cancel at a time is pending.
- A stage without handler (a PermanentJobError) is one of the errors of
  `HandlerRaises`; a job type without handler is `Unsupported`.
- Left out: an `OperationalError` of SQLite on claim or recovery, the fields that
  are only reported, the in-memory repository; `record_scan_result` is in `ProactiveScan`.

### SourceRevision

One meeting. `source` is its row (revision and text), `jobs` the processing jobs,
`extraction` its extraction row, `req[c]` the request of client `c` with what it
has read so far, `ledger` a history of the accepted writes (a history variable: no
action reads it). `IngestRead`, `ReviseRead`, `ExtractRead` are the reads,
`SaveAndEnqueue`, `SaveConflicts` and `SaveStale` the three outcomes of
the transaction of `save_and_enqueue` (above, at and below the stored revision),
`ExtractCheck` and `ExtractSave` the two checks of an extraction, the second
inside its transaction, `EnqueueAgain` the enqueue that ingest and extract do
after their write, `Restart` a stop of the server.

A text stands for title, transcript, date and participants. Two payloads built by
two requests always differ, because `ingested_at` is part of them. The refresh
suffix of a job id is abstracted to a Boolean. The backend is SQLite; a
transaction is atomic and a read sees committed rows.

### SharedStore and MeetingLog

`SourceRevision` takes a transaction for one step. `SharedStore` opens it: `stored`
is what is committed, `tx` what the one connection of the server sees while a
transaction is open, `thread[t]` a request with what it has read. `Begin`,
`WriteMeeting`, `WriteJob`, `Commit` and `CommitFails` are `transaction()` around
`save_and_enqueue`, `Read` a point read (which takes no lock and so sees `tx`),
`EnqueueAgain` the enqueue after the write, `Crash` a stop of the server.
`CheckInMemory`, `SaveInMemory` and `EnqueueInMemory` are the fallback of
`TenantRepositories.save_meeting_and_enqueue` on the repositories in memory, whose
meeting and job are stored one after the other. `MeetingLog` is the promise to
a client, a list of revisions that only grows, each with its job; both modules implement
it (`SourceRevisionLog`, `ImplementsLog` of `MCStore`).

### Migration and MigrationSteps

`db` is what is committed (tables, columns, recorded versions), `conn[p]` the
connection of a process, its snapshot and the place in the list of statements,
`born` the version the database started at, `started` the processes that are started on it
at all (one, several or none). `MigrationSteps` is `_migrate` statement by
statement; `Execute` is what SQLite does with one: a deferred BEGIN, a snapshot at
the first read, a write that fails at once when the snapshot is old or somebody else
writes, and the implicit COMMIT of `executescript` where the code calls it. `Open`,
`Fail`, `Finish`, `Crash` are the life of a process that opens the store. `ProgramOK` says how
the statements of `_migrate` are written (versions in order, each recorded last; no column made
twice; what is added without a look is followed only by its version). It has no constant, so
`MCStore` assumes it of `MigrationSteps` and TLC evaluates it once.

### Membership and Sessions

In `Membership` a request is authorised (`Begin`), does its reads (`Lookup`, `Check`)
and writes (`CreateUser`, `CreateOrganisation`, `AddMember`, `SetRole`, `Remove`,
`SetStatus`), one transaction each; `Crash` drops all requests between two of these. A refused
request changes nothing and is not a step. In `Sessions` time is relative: `failures`
and `guesses` count by age, a session has a rest of life, `Tick` ages all. `Count`, `Verify`,
`RecordFailure`, `Issue` are the steps of `authenticate`, `Disable` the two writes of
`disable_user`, `Logout` and `Enable` the other requests. A login that is past its check when a
disable ends is `late`, and so is the session it stores: nothing looks at the user again.

### RateLimiter

`Request` is the arrival of a request at a thread, `Build`, `Configure`, `Get` the lazy
construction in `_get_query_limiter`, which has no lock, `Check` the whole of
`SlidingWindowRateLimiter.check` under its lock, with pruning, the quota and the eviction at
`max_keys`; the clock is read before the lock. `admitted` and `promise` are history
variables: `admitted` holds the admissions of a key in the window as pairs of a moment and a
count, so that two of the same moment are two. `LimiterAssumption` is what `__init__` checks: a
quota, window or number of keys that is not positive is a ValueError.

### ProactiveScan

The worker is one thread that ticks and then runs a job: `Tick`, `Skip`, `Enqueue` are the scheduler
tick with its look for outstanding scans, `Claim`, `Collect`, `Compare`, `Record`, `Succeed`
the scan job, `Stop` and `Release` a crash and the recovery of its job, `Cancel` the client,
`Advance` and `Change` time and what the intelligence services would return.

### EvidenceRetrieval and Query

`EvidenceRetrieval` has the pure part: how signals of the read models become evidence
for an intent (`Retrieve`, with one operator per fetcher), the corpus, the ranking
(`Before`) and the bounded context (`Context`). A signal has the fields these operators
tell apart; a text is its
topic, and an item counts one unit, two with its source text. `Query` is one
request, step by step in the order of the service: `Resolve`, `ReadStructured`, `ReadCorpus`,
`Search`, `Current` (the revisions), `BuildContext`, `Answer`, `Close`; `Preview` is
`query_evidence_only`. Between them `Refresh` revises a meeting, `Observe` resolves a mention of its
current revision, `Withdraw` finds one ambiguous again, and `Index` is a run of the index stage with what
it has written when it ends or is stopped: the evidence found at some moment (`was`, a history variable)
for the entities that were named at another moment of the same revision, stamped with that revision and
written as late as it likes over the records of any other run. No record is deleted. Similarity is a
fixed order of the topics for each question. What the read models report is a constant, `Report`, of
all resolved mentions that are stored, those of replaced revisions too, as `correlation_service.py:117`
reads them; `Corpora` is the evidence made of that, tabulated. The id of an item is what `_make_evidence_id` hashes, and `Hash` orders the ids as their
hashes are ordered; `ConstantsOK` takes it as injective and asks no more of the data than its form.
Lists are built from sets of indices (`Each`), so that they can be reasoned about.

### MeetingPipeline, ResolutionPolicy and EntityResolution

`MeetingPipeline` keeps the rows (`entity`, `mention`, `dependency`) of one meeting and an
actor for every run of the worker and every request. `Observe`/`CreateMention`,
`ListMentions`/`Fetch`/`Update`, `ListResolved`/`ReadStatements`/`SaveDependency` are the three
passes of the stages RESOLVED and RELATIONSHIPS_PERSISTED, `LookUpEntity`/`CreateEntity`,
`LookUpMention`/`RegisterMention`/`Fetch`/`Update` the endpoints that write the same rows.
`Guarded` is the revision guard of a derived write. `Stop` ends an actor anywhere: a crash, a lost
lease, a refused write. `Decide` of `ResolutionPolicy` is the shortlist, the score in units
of 1/300 and the threshold policy; `EntityResolution` lets the registry grow one entity or
alias at a time and looks at every decision on the way.

### DependencyStatements

A text is a sequence of words. `Patterns` are those of the extractor, `Occurrences` where
they match, `StripArticle` and `StripClause` the normalisation of a participant, `Resolved`
the rules by which the service keeps a statement. The texts are all those of one or two
clauses (`Words`), so that each clause has a meaning (`Says`) to compare with.

### SemanticIndex and ConsistencyStatus

`SemanticIndex` cuts an operation of the file into the steps a crash can fall between:
`ReadFile` under the OS lock, `WriteTemporary`, `Replace`. The stage `index_semantic_evidence` reads the
revision (`Begin`), then the mentions that are current by now (`Select`), then the evidence about their
entities, item by item (`Fetch`): each is built from all resolved mentions that are stored, of whatever
revision (`Items`, a table over the sets of mentions). Then `Lookup`, `Guard` and `Embed` are
`index_evidence`, whose check of the revisions is over when the record is written, and `Finish` the end.
`Resolve` and `Reopen` are what the stage before does to mentions meanwhile, `Revise` a revision, `Remove`
the removal of evidence, `FailToRead` a read that raises OSError, `Stop` a crash. `was` is a history variable:
the revision and the mentions of every moment.

`ConsistencyStatus` has the reads of `get_consistency_status` as steps (`Ask`, `ReadExtraction`,
`ReadDerived`, `ReadSemantic`, `Answer`) among the jobs of the meeting, reduced to
what the answer depends on. A job's stages work at the revision the meeting has, whatever the job's
own: nothing compares the two. The index stage goes item by item (`Begin`, `Reuse`, `Check`, `Write`,
`Indexed`), with the check and the write in two steps; a run that loses its lease at its write (`LoseLease`)
may still do it at any time (`WriteLate`).

### The read models

`EntityTimeline` replays the observations of an entity: `Observations` sorts them as
`CorrelationService` does, `Timeline` folds `Apply` over them, `Observe` and `Revise` are what the
pipeline does to them, in any order. `EntityInsights` adds a clock and the operators
`Insights`, `Attention`, `Actions` and `Events` of the four services. An evaluation of the insights reads
the timeline twice, the second time through the memory, so that `InsightsOf` has two. `Portfolio` and
`OrganisationChange` extend it with the reads of their service as steps (`held` is the timeline of an
evaluation that is half done) and with `Write`, the pipeline between two of them: a meeting is processed,
or a mention that was RESOLVED is found ambiguous (`Withdraw`). `MaxWrites` bounds these. `Dependencies` has the records and, as reference definition, all simple
paths; `DependencyGraph` the search with its stack, edge lists read again at every node, and
`Revise`/`Resolve` meanwhile; `Impact` the direct relationships (`Ask`) and the chains
(`Propagate`), with a `Change` in between.


## 3. The runs

| Run | Instance | Question |
|---|---|---|
| `queue_concurrent` | 2 overlapping workers, 1 job, 2 stages, 2 attempts, lease 2 | Do fencing, finality, progress and the lifecycle hold in every interleaving, with crashes anywhere? |
| `queue_single` | one worker at a time, a restart, 2 jobs (one unsupported), 1 stage, 2 attempts | In the documented deployment, does the thread survive, are attempts exact, leases respected and all jobs settled? |
| `queue_late_checkpoint` | one worker | Is a write after the lease ran out refused? No. |
| `queue_lost_lease` | 2 workers | Is a worker that lost its lease told so? Not always. |
| `source_revisions` | 2 clients, 3 requests each, 2 texts, 2 tries | Are revisions gapless, with jobs, and extractions faithful, under races and restarts? |
| `source_revision_race` | 3 clients, 2 requests each, 3 tries | Is a 409 justified? |
| `source_loser_errors` | 2 clients | Does the loser of a race always retry? No. |
| `source_ingest_twice` | 2 clients | Is ingest idempotent? Not when concurrent. |
| `service` | members, logins, limiter, scans, queries | Do the promises made around the processing hold under overlap and restart? |
| `processing` | pipeline, index, status, graph search, impacts | Does the processing of a meeting keep what it owes, whatever is revised, retried or stopped, and is what is found over the dependencies complete, also when it replaces them meanwhile? |
| `intelligence` | statements, decisions, timeline, insights, portfolio, changes | Does what is computed follow the texts and the history, also when it changes between two reads? |
| `store` | migration, shared connection, memory, lockout | Is the store safe under crashes and dirty reads, and does it come up? |

The last four are collections. Their modules share no state, so `MC...` puts
instances of them side by side: `part` says which instance a behaviour is one of and
never changes, and the variables of the instance are kept in `s1`, `s2`, .... Nothing
is lost by that: a property of one instance holds of a behaviour in which the others
move too, because they do not touch its variables. Each property of such a run
is the conjunction of what the modules promise of one subject, with their type
invariants; the names below are those of the modules.

What they show:

- **Fencing** (`AttemptHasOneWorker`, `OnlyCurrentAttemptWrites`): a worker may
  run on after its lease without knowing; no attempt has two workers, and only the
  current attempt completes a job or moves its checkpoint.
- **Finality and legality** (`TerminalFinal`, `OnlyAllowedTransitions`): although
  `transition` checks an old read, the status guard of its UPDATE is enough.
- **Progress** (`CheckpointsBacked`, `SuccessIsComplete`): a success has the
  output of every stage, over any crashes and resumptions.
- **Attempts** (`TransientFailureIsExhausted`, and the `TryLimit` of the lifecycle
  that the two refinements check): with one worker `max_attempts` is exact. With several it can
  be exceeded: `recover_stale` decides on the attempts it selected, and an old
  list requeues a job that has since used its last attempt. The bound
  `MaxAttempts + |Workers| - 1` is reached. For the same reason `LiveLeaseKept`
  is a property of the single worker only: an old list may take a job from a worker
  whose new lease runs.
- **Lifecycle** (`ImplementsLifecycle`, `ImplementsFairLifecycle`): the queue
  implements `JobLifecycle`; with the fairness below no job is left alone.
- **Revisions** (`GaplessHistory`, `AnswerOwnsRevision`, `EveryRevisionHasJob`,
  `ConflictMeansBeaten`): no accepted text is overwritten unseen, an accepted
  request owns its revision for good, each revision has its job.
- **Extractions** (`ExtractionFaithful`, `NeverBackwards`,
  `RefreshFollowsExtraction`): the provider call between read and write cannot
  stamp a text with a revision it does not belong to.

- **Members** (`MembershipKept`): `LastOwnerProtected` for one request at a time,
  `RemovalSticks` when requests overlap, `MembersExist` also after a stop.
- **Logins** (`LoginsSafe`): `GuessesBounded`, though the throttle counts before it records,
  and `DisableEndsSessions`: no session there was when a disable ended is valid again. A login past its
  check does leave a session, valid when the user is enabled: `LateSessionsBounded` says one for each.
- **Limiter** (`QuotaKept`): `QuotaExact`, `KeysBounded` and `RetryAfterHonoured` with one thread;
  with two, `QuotaBounded`: the quota once for each limiter built.
- **Scans** (`ScansReportOnce`): `OneOutstanding` and `NewIsDifference` over restarts, retries,
  cut lists and signals that come and go.
- **Queries** (`AnswersGrounded`): `CitationsGrounded`, `EntityFocus`, `SemanticOfRevision`,
  `FailureKeepsStructured` and `PreviewAgrees` while a meeting is refreshed, mentions come and go and
  records are written late between the reads. `SemanticOfRevision`: what the search found was reported at a moment
  when its meeting was at the revision looked up. It may rest on a mention of a replaced revision.
- **Pipeline** (`PipelineConsistent`): whatever overlaps, rows of a past revision stay as they are
  (`PastIsFrozen`); one run after the other, over retries, `DependencyIsStated`,
  `NamesUnique`, `NeverDowngraded` and `ObservedOnce`.
- **Decisions** (`DecisionsSound`): `Recall` (the shortlist loses nobody), `SelectsClearWinner`,
  `ExactMatchWins`, and `GrowthIsLocal`: a new entity or alias attracts decisions only to
  itself.
- **Statements** (`StatementsFaithful`): `NothingFabricated` and `StatementFound` over every text of
  two clauses, with names that begin alike, aliases, passives, negations and continuations.
- **Index** (`IndexKept`): `StampIsTrue` always (a text was said at some moment while the meeting was at the
  revision of its stamp, be it by an older mention), `OthersSurvive` with concurrent writers and crashes
  inside a write, `NoFalseCheckpoint` for a run by itself.
- **Status** (`StatusIsTrue`): `CurrentIsProcessed` and `LabelHasReason`, although the answer is
  put together from five reads. CURRENT means that a job of the revision succeeded, that all it found is in the
  index, and that nothing there is older but what was under way to it when it was read.
- **Lifecycle** (`LifecycleFollowsHistory`): `ArrivalDoesNotMatter`, `ResolvedIsFinal`,
  `LaterOnlyAppends`, also when sources are revised.
- **Insights** (`InsightsFollowHistory`): `NothingMerged`, `StaleIsHigh`, `BlockedIsEscalated`: three
  tables in three services that must fit together.
- **Portfolio and changes** (`PortfolioAgrees`, `ChangesReported`): `CountsAgree`,
  `EscalationAnchored` and `WindowsAddUp` whatever is written between the reads; `SeenIsIncluded` too for
  attention above LOW, otherwise unless a mention was taken away; `RiskFollowsHistory`,
  `HistoryReported` and `IdsAreStable` undisturbed.
- **Paths and impacts** (`PathsComplete`, `ImpactsComplete`): `AllPathsOnce` and `CyclesExact` against
  the reference definition on every graph of the instance, `SteadyPathsFound` when
  records are replaced during the search; `BlockedReported`, `LevelsKept`, `ShortestChain`.
- **Migration** (`MigrationSafe`): whoever opens the store, at once or in turn, and wherever one is
  stopped: `VersionImpliesSchema`, `ReadyIsCurrent`, `TornOnlyByCrash`, `NewerIsAtomic`, and for one
  that is alone `FailsOnlyTorn`.
- **Shared connection** (`RequestsKept`, `ImplementsLog`): `AckedIsStored` over dirty reads and
  restarts, `CurrentHasJob` and `RevisionNeverFalls` also when a COMMIT fails, `AckedHasJob` in memory;
  with transactions that commit the threads implement `MeetingLog`.
- **Progress** (`StoreProgress`): both processes come up unless a stop has left a column without
  its version; in memory a saved revision gets its job; a lockout ends.

The violation runs are disagreements between the code and its own words; each is
quoted under `findings` in `PROJECT.json`:

1. *Late checkpoint.* The worker's documentation says that a stale snapshot of the
   clock can never checkpoint after the lease ended. The repository reads its clock
   before it waits for the store, so it can. The damage is bounded: the
   worker must still be the one in the row (`OnlyCurrentAttemptWrites` holds).
2. *Lost lease.* `StaleJobOwnershipError` is documented as what a worker gets after
   losing its lease. If the job has been recovered but not yet claimed again,
   `transition` fails on the table first, with its parent class, and the worker
   thread ends. This takes a second worker on the database, which the deployment
   guide advises against (`DEPLOYMENT.md:192`) and the tests exercise
   (`tests/test_stage_23_3_worker_safety.py`); with one worker `WorkersSurvive` holds.
3. *Loser of a race.* The comment in `revise_meeting` says the loser retries. If it
   was overtaken by two revisions it gets an exception that the loop does not catch.
4. *Ingest.* Documented as idempotent for identical payloads; two at once are not,
   as the comparison includes `ingested_at`.

### Where the code and its words part

While modelling the other components we met the following; each was seen as a
trace of the model. They are the reason why some properties above are claimed
for one request at a time, for undisturbed reads or for writes that succeed.

| Code | What it does | What is said |
|---|---|---|
| `auth/service.py:435` | the owners are read before the write: of two owners demoted at once both go | `auth/service.py:20` "refusing to leave an org ownerless" |
| `auth_repositories.py:559` | `add_member` sets the role of an active member without that check | `auth/service.py:10` "role changes with last-owner protection" |
| `auth/service.py:148` | two bootstraps that overlap both succeed | `auth/service.py:145` "Open only while NO users exist." |
| `auth/service.py:341` | a login stores its session after its check of the user: one that overlaps a disable is not revoked | `api/organisations.py:244` "sessions are revoked" |
| `api/query.py:238` | two first requests build two limiters | `rate_limit.py:6` "the in-memory window is exact" |
| `rate_limit.py:88` | eviction compares the last *admitted* request | `rate_limit.py:86` "evict the least-recently-seen key" |
| `resolution_policy.py:300` | 1.0 − 0.9 is below the margin 0.1 in floats | `resolution_policy.py:162` `>= ambiguity_margin: outcome = RESOLVED` |
| `resolution_service.py:98` | a decision taken earlier overwrites RESOLVED when it is written later | `resolution_service.py:34` "RESOLVED must never become AMBIGUOUS" |
| `entity_service.py:86` | look-up and insert are two steps: a name twice | `api/entities.py:844` "prevents accidental duplicates" |
| `semantic_indexing_service.py:226` | a slow run puts a record back to the older revision | `:72` "validated against the meeting's authoritative source revision at write time" |
| `meeting_pipeline_orchestrator.py:157` | evidence is built from the mentions of all revisions and stamped with the current one | `:27` "revision N state can never masquerade as revision N+1", `semantic_evidence_retrieval_service.py:249` |
| `meeting_pipeline_orchestrator.py:141` | a job's stages work at the meeting's revision, which nothing compares with the job's | `main.py:310` "no longer owns processing revision" |
| `semantic_index_repository.py:566` | a read that fails counts as an empty file, which the write persists | `:557` "observes the latest committed state" |
| `processing_consistency_service.py:213` | records of items that are gone keep the revisions mixed: never CURRENT again | `:10` the invariant "when processing is successfully complete" |
| `processing_consistency_service.py:268` | a failed refresh of a processed revision is CURRENT | `:233` "never reported current" |
| `proactive_intelligence_service.py:189` | an id that comes back is new again | `api/intelligence.py:44` "first observed by that scan" |
| `impact_analysis_service.py:324` | a transitive impact of a higher level replaces the direct one | `:321` "we'll merge signals" |
| `impact_analysis_service.py:222` | chains follow outgoing BLOCKS to entities that depend on this one | `:220` "entities that *entity_id* depends on" |
| `impact_analysis_service.py:308` | depth 1 only when the direct target is BLOCKED | `models/impact.py:91` "1 for direct explicit dependency" |
| `correlation_service.py:117` | mentions of replaced revisions still decide the state | `models/entity.py:197` "never masquerade" |
| `models/attention.py:166` | every past blocking gives ENTITY_BLOCKED | `models/attention.py:104` "currently in the BLOCKED lifecycle state" |
| `insight_service.py:413` | two observations in a meeting, whatever they change | `models/insights.py:92` "without triggering a meaningful state transition" |
| `insight_service.py:492` | stale when age > threshold | `models/attention.py:115` ">= 30 days" |
| `portfolio_intelligence_service.py:177` | an entity without a mention is left out when its impacts are all LOW | `:49` "zero observations and no intelligence signals", `:133` |
| `portfolio_intelligence_service.py:168` | insights and actions do not matter for MEDIUM | `:44` "active_insight_count > 0 AND action_count > 0" |
| `organisation_change_intelligence_service.py:199` | the key sorts in the reverse of the list's order | `:195` "mirrors the tuple key used by _sort_changes()" |
| `organisation_change_intelligence_service.py:751` | attempts to reopen in one meeting share an id | `models/organisation_change.py:163` "uniquely describing the specific change" |
| `hybrid_evidence_retrieval_service.py:197` | items are cut before the context is built: no truncation is reported | `models/natural_language.py:350` "due to count or character limit" |
| `hybrid_evidence_retrieval_service.py:301` | a semantic match may push structured evidence out | `:37` "only supplements, never overrides" |
| `evidence_retrieval_service.py:245` | the corpus keeps the priority of another intent | `models/natural_language.py:293` "for this intent" |
| `natural_language_query_service.py:244` | a preview of an unclear question is empty, its query is not | `api/query.py:362` "the exact evidence items" |
| `natural_language_query_service.py:175` | `include_source_text` is not passed on | `models/natural_language.py:376` "If False, omit source_text" |
| `natural_language_query_service.py:127` | an organisation-level question keeps its `entity_id` | `models/natural_language.py:534` "None for org-level queries" |
| `sqlite_store.py:126` | `executescript` commits columns before their version: a stop in between fails every later start | `sqlite_store.py:19`, `DEPLOYMENT.md:85` "idempotent" |
| `sqlite_store.py:302` | a deferred BEGIN that has read fails at once when another process writes | `:33` "instead of failing immediately" |
| `sqlite_source_repositories.py:136` | a read sees another thread's open transaction; if that fails, a client was told of a revision that is gone, or the numbers have a gap | `api/meetings.py:519` "Result is always N+1 then N+2" |
| `keyword_extractor.py:133` | "to ..." is cut from names as well | `:51` "never removes content words from multi-word entity names" |
| `keyword_extractor.py:350` | the lookbehind is on letters: a subject that ends in "is" has no match | `:31` "X blocked Y" |


### Bounds

- Two workers are enough for a stale worker, its successor and an old recovery
  list; with two attempts both outcomes of every attempts test occur, with two
  stages a resumption in the middle. Leases of 2 ticks let a step happen before,
  at and after the end of a lease. `JobQueue` has no bound on time; a worker id is
  used once, so the number of restarts is the number of workers. The two workers of
  `queue_concurrent` are interchangeable (symmetry).
- `queue_single` has one restart after a crash (`Mortal`), and a last worker that
  stays, which is what liveness needs: a system whose workers may all be
  shut down settles nothing. Two jobs exercise the order of candidates.
- `SourceRevision` bounds the requests per client (`MaxRequests`): three let a
  client ingest and overtake a rival twice. `MaxTries` is 3 in the code; the run with
  three clients uses 3, the other 2, which leaves the loop a retry and an end. Clients
  and texts are interchangeable (symmetry); no run with symmetry checks liveness.
  Clients may stop sending, so these runs do not check deadlock. The
  runs of `JobQueue` do. Neither do the collections: a computation that has answered
  and a bounded history that has been written in full are done.
- `MCService`: three users for one request at a time (an actor, a target, another owner), two for two;
  the limiter has one key more than it tracks, a quota and a window of two, and its clock runs
  through three windows (each a constant, also which threads and keys there are); a scan
  list is cut at 1 of 3 signals, over three buckets; two logins overlap, with a limit of two; the questions are one of each way through the
  service (clear, ambiguous, unknown, without entity, vague, cut, without texts), about two entities
  that share an alias and one meeting that is refreshed once (`QueryData`), with a mention of each revision;
  three moments (`MaxMoments`) are the start and two changes, of which a record may keep any; a provider cites
  nothing, one item twice, or one and an invention.
- `MCProcessing`: two names of which either alone stands for the other and both together do not, a
  revision that adds or turns a dependency, three mentions. The index: two ids and mentions of two revisions, where
  an id is in one hash or another, or gone, by what is resolved, and with one run those of another meeting, too. The
  status: two jobs on two revisions (`MaxJobs`, `LastRevision`), and what a run finds is one item or two
  (`Findings`), so that one goes; the proof has any number of each. The search: every graph of up to four records on four
  entities, to three hops; or of two records, with a target nobody knows and a meeting that is revised
  or resolved meanwhile, once. The entities, the ids asked about, the depths and the number of writes are
  constants (`Nodes`, `Listed`, `Origins`, `Hops`, `FewHops`, `MaxWrites`). The impacts: every graph of up
  to three records of two meetings on three entities, two of which are asked about (`Subjects`), with no or
  two shared meetings (`Counts`) and every combination of signals; and every graph of four records that make
  chains on four entities, asked about one (`Subject`), with a change between the reads.
- `MCIntelligence`: every text of two clauses; every registry of two entities with an alias over six texts;
  every history of up to three mentions in two or three meetings on the same or different days; up to two writes
  between the reads of a service, enough for one before and one after the half of an evaluation, and none where the
  histories have three meetings. A fourth
  mention takes part in no rule that three do not reach already: the rules compare neighbours or
  two meetings.
- `MCStore`: every version a database can be at, none, one or two processes, one stop, at any
  statement; the proof has any number of either. Three threads are a writer, one that reads its
  open transaction, and one that waits.

### Fairness

`FairSpec` assumes weak fairness of `Tick`, of each worker's `RunOnce` and of
`Start`: time passes, a thread is scheduled, calls of handlers and of the store
end (providers have timeouts), and a supervisor starts the process again. Nothing
is assumed of clients, crashes or shutdowns. Fairness is of the worker as a whole,
never of one of its outcomes: a handler may fail in every attempt.

`MCStore` is the other run under fairness, for each instance that of its module:
a migration that runs goes on, and a process whose migration failed is started again
(`Migration`: the supervisor of the deployment guide); a thread that serves a request
is scheduled (`SharedStore`); time passes (`Sessions`). Clients owe nothing, and a
process that was stopped need not come back.

## 4. The proofs

A theorem holds for every value of the constants: any finite sets of workers,
clients, users, processes, any limits, leases, revisions and bounds. The assumptions
are those the modules name on their constants, which TLC evaluates in the runs, and where a
property is of one party at a time (`SingleWorker`, `OneClient`, a COMMIT that
does not fail) the theorem says so, or it is of the instance in which that is so.

None of the invariants is inductive on its own, because they speak of rows while the
danger sits in what workers and requests hold. Each proof therefore states an inductive
invariant that says what these copies owe to the rows.

**The job queue** (`JobQueueProofs`): every property the passing runs of `JobQueue`
check except liveness. `IInv` (`JobQueueInvariant`) is:

- `CancelLegal`: a pending cancel was legal on the row it read; with the guard of
  the UPDATE it is legal on the row it writes.
- `Fencing`: a worker's attempt is at most the row's; if the row is running under
  its name, it is the row's. Claims number attempts upwards, hence an old attempt
  never becomes current again, and no two workers share one.
- `Progress`: a worker's last stage has its output, the stage it is about to
  checkpoint too, and one that heads for success has recorded COMPLETED.
- `Judged`: a job on a list of exhausted ones, or in the hands of a worker that
  gives up, has used its attempts; attempts never decrease.
- `Lone`: with one worker at a time, the listed jobs still run under the lease that
  was seen to expire, and the claimed one runs. `WorkersSurvive` and `LiveLeaseKept` follow.
- `InStep`: the holder of a job has done the stages the row records, no more.
- `Budget`: a job beyond its attempts is requeued only from a list selected earlier, and
  each further attempt uses one of these lists up. So `MaxAttempts + |Workers| - 1` is a
  bound, which is the limit of tries in `JobLifecycle`.

The argument first reduces every action to a few ways in which one row and one
worker may change (`RowStep`, `LocalStep`, lemma `Summary`), and then shows that
each conjunct survives each of those ways (`FencingStep`, `ProgressStep`,
`JudgedStep`, ...): the 25 actions are visited once, not once per property.
`Refinement` proves from `InStep` and `Budget` that each step is one of `JobLifecycle` or
a stutter (`ImplementsLifecycle`).

**One meeting** (`SourceRevisionProofs`): every property the passing runs of
`SourceRevision` check, and that it implements `MeetingLog`. `IInv` (`SourceRevisionInvariant`)
says: a write is at most one revision ahead of the one stored
(`WritesNext`, hence an accepted write is exactly the next), each lost try
stands for a revision accepted since the request arrived, an extraction under way holds
the text of the revision it has read (`ReadsFaithful`), and what is about to be
enqueued exists (`EnqueuesExisting`). The argument splits `IInv` into what it says of the
rows and of one request (lemma `Parts`). Rows only grow, and a request that does
not move keeps its promises while they do (`Grown`), so each action is looked at with
the one request that moves (`OneMoves`).

**The store** (`SharedStoreProofs`, `StoreProofs`): `RequestsKept`, `ImplementsLog` and
`MigrationSafe`.

- Threads: exactly the thread that has the lock is between BEGIN and COMMIT, and what is
  dirty is what it has written (`Locked`); on the database the current revision has its job
  (`Owed`). When COMMITs do not fail, nobody is more than one revision ahead of
  what the connection shows (`Near`): this is why dirty reads do no harm.
- Migration (`MigrationInv`): what a process sees (`SeenBy`: its snapshot, or the database) has
  the results of all statements before its own (`DoneTo`); a snapshot that is not written to is
  that of the database or older, one that is written to has all the database has
  (`ViewOK`); one process writes at a time (`OneWriter`); while a process is between an ALTER and
  its version, the others have not come to that ALTER (`OneInStep`); a column without
  its version has an owner who is about to record it, unless somebody was stopped (`Owned`).
  `Newer` and `AloneOK` are the cases of a database from version 5 on and of one process.
  One lemma says what a step owes (`StepKeeps`), and each kind of step pays it: a
  statement (`Works`), a COMMIT before a script (`Commits`), the end (`Finishes`), an exception or a
  stop (`Leaves`), a start (`Opens`). The program itself enters through `ProgramOK` only.

**The processing** (`SemanticIndexProofs`, `ProcessingProofs`): `IndexKept`,
`StatusIsTrue`, `PipelineConsistent`, `PathsComplete` and `ImpactsComplete`.

- Index: every record in the file, or about to be written, carries what its evidence said at some moment
  of the revision it is stamped with (`Stamped`). The evidence of a run is fetched after the revision was read, so
  it may be of a later one (`RunOK`); the guard lets an item pass only when the revision is still the same,
  and then it was said in it. Who is about to write has the lock (`Locking`); with
  reads that succeed the document in hand is the file but for one record (`Fresh`); a run by
  itself has stored what it has passed (`AInv`).
- Status: what the request has read is true or has been overtaken since (`HasRead`). A job's run is of its own
  revision or a later one, and what it has passed is in the index (`JobOK`). Records may go back, by
  writes that were checked before: what is called processed stays so but for the items of which an older
  record was under way when the index was read, because whatever is under way later was checked later, when the
  revision had come that far (`Protected`).
- Pipeline: for any runs, requests, ids of entities and of mentions. Whatever overlaps, a row that is
  written is one the guard has let through or a new one, hence of the current revision (`Typed`,
  `WritesMention`), and nothing of the past is touched. Of one actor at a time, what it has read is
  still so when it writes (`Knows`, `Unseen`); a dependency has a mention of its revision that
  says it (`Backed`), and no two entities have one name (`Distinct`). A decision is of an entity there is
  because the candidates are finite, so that there is a best score and, of those, a least id
  (`HasBest`, `HasLeast`, from the well-foundedness of the naturals).
- Search (`SearchInv`): for any entities, known or not, any depth and any number of writes. The induction is
  over the steps of the search, not over the graph. What is on the stack or recorded is a branch whose hops
  were current when they were read, hence at some time (`EntryOK`). A branch of records that stay current is
  recorded, or begins with an entry on the stack (`Covered`): when that entry is popped, either it is the branch
  and is recorded, or the next hop is among the edges read then (`GoesOn`). Of two entries with the same entities
  only the first is kept, so that types that sort first must come first: under the same condition, what begins
  with an entry of other types is recorded or *above* that entry (`Covered` for a place `k`, from the order
  of what is pushed, `VisitIs`, and of the edges, `SortedIs`). While nothing is written, a cycle that
  is noted is one of a branch, and the others are closed by branches still to come (`CyclesOK`). A revision
  takes records only and a resolution adds one that is current, because no record is ahead of its meeting;
  so what is steady stays (`SearchDisturbed`). At the end the stack is empty, and the branches are the paths of
  the reference definition (`SimplePathsAre`).
- Impacts (`ImpactInv`): for any entities, records, shared meetings, conditions of entities, depth and number of
  changes between the two reads. The direct impacts are of related entities, each with the form one has
  (`DirectTyped`); while nothing has changed, who is BLOCKED and related has one of HIGH or CRITICAL, and nobody
  else is called BLOCKED (`DirectComplete`). The result is these, and for a BLOCKED entity at the end of a chain
  the chain: it lowers no level and takes away no signal, and where there is none the direct impact is
  as it was (`Combined`). Three facts about paths carry this. There are finitely many (`PathsFinite`), and their
  order is strict and total (`SoonerOrders`), so that the first of those to an entity exists and is no longer than the others
  (`ShortestIs`); a walk that repeats an entity can be cut there, hence the shortest walk is a path
  (`ShorterWalk`), and who is within `max_depth` records is at the end of a path, of one record or
  of several (`WithinIs`). `BlockedReported` compares with walks, not with the paths the service
  searches, so that the two definitions are independent.

**Around the processing** (`MembershipProofs`, `ServiceProofs`): `MembershipKept`,
`ScansReportOnce`, `LoginsSafe`, `QuotaKept`, `AnswersGrounded`.

- Members: a request that is about to add a member has a user and an organisation that are stored, and
  one request at most has founded an organisation nobody has joined (`OneFounder`); of one request at
  a time, what it checked still holds when it writes (`StillOwned`).
- Scans (`ScansInv`): an id is reported as new by a job exactly when the previous successful one
  has not listed it, with lists cut to `MaxSignals` and `MaxNew`, over retries.
- Logins (`LoginsInv`): each guess in the window, up to any age, has a failure on record that is
  not older, or a login that is about to record it (`Paid`), and who verifies was let in when
  there was room (`Room`). Together they bound the guesses in a window by the limit plus the other
  logins that overlap. A session a completed disable has met is not live (`OldIsOver`).
  Every late session had a late login of its own, which is over (`LateOK`).
  Sums over ages are cardinalities of sets of pairs, not folds, so that they can be reasoned about.
- Limiter (`LimiterInv`): every admission in the window has a hit of its own, of its moment, in the
  deque one of the limiters has of the key (`HitsBehind`: an injection). A check may be late with its
  moment, but then what it pops left the window earlier still (`BackedPruned`); an eviction takes
  hits and admissions alike. Deques hold at most the quota (`HitsOK`) and exist only in the limiters
  built, hence `QuotaBounded`. A thread builds at most one, since who builds has found none that is
  configured (`Building`), hence `QuotaExact` for one thread. `Promised` ties the moment a denied key
  was told to the oldest hit of its full deque, which is gone at that moment.
- Queries (`QueriesInv`): for any entities, meetings, requests, reports and limits. First what the
  operators give: an item a fetcher builds for an entity is about it and says what a meeting said in
  the revision reported (`ItemsOf`, one lemma for each fetcher, `RetrieveIs`); the corpus has one item of
  an id, although ten intents retrieve it (`CorpusIs`); the ranking lists a set, each item once, because
  its order is strict and total on distinct ids (`RankedIs`, from ranks as cardinalities); the best of a
  set, ranked again, are the best of it (`BestStayBest`). Then the invariant. A record of the index
  embeds what was said of its meeting at a moment of the revision it is stamped with (`IndexOK`). A match
  reads as the record did, so it was said at that moment as well, whatever the corpus has been read from, and
  moments do not go away (`SaidOK`, `SaidStays`). What a request has read is about
  the entity meant, whatever moves on meanwhile (`RequestOK`). A request nothing has disturbed has read
  what there is now, and so has the preview that is shown (`CalmOK`, `ShownOK`): both are one function
  of the request and the state (`ItemsFor`), so that the preview agrees, and after a failed search the
  context is the best of what was read. Every step is shown to keep this, also of a request
  disturbed halfway (`DisturbedKeeps`).

A theorem that is not of a formula some run lists (`TypeCorrect`, the inductive invariants, the
theorems of `SharedStoreProofs`, `SemanticIndexProofs` and `MembershipProofs`) is either the ground
others stand on or is carried to the instances of a collection by the `Same...` lemmas.

Only model-checked:

- Liveness (`EveryJobSettles`, `ImplementsFairLifecycle`, `StoreProgress`): fairness and ENABLED are
  beyond the prover.
- `LifecycleFollowsHistory`, `InsightsFollowHistory`, `PortfolioAgrees`, `ChangesReported`: they compare what a
  fold computes over a whole history, in one step, with a reference definition. That is induction over
  data, which the prover cannot instantiate. (`PathsComplete` can be proved because the search goes step by
  step, `ImpactsComplete` because its references are sets of paths and walks.)
- `StatementsFaithful`, `DecisionsSound`: about all texts and all registries of a bounded shape, against
  tables of words and scores; the claim is about this data, and TLC looks at all of it.
- The four violation runs: a counterexample needs no proof.

## 5. Plan

1. What of the read models is about their order of reads rather than about their folds.
2. The pipeline as the handler of a `JobQueue` job, and the status over both: whether a job that
   succeeded leads to CURRENT, under which revisions.

## 6. Not modelled

- `BackgroundJobService` (no code of the application uses it) and the in-memory job
  repository; `rebuild_index` and `check_consistency` of the index, which only tests call.
- The frontend, and the calls of the providers: they are steps that fail, come late
  or answer anything. The extraction prompt and the parsing of its answer.
- The retrieval paths that run without a persisted index. Texts are topics; wording,
  formatting and orderings of lists are left out unless a property is about them.
- That evidence is of the current revision only is not claimed of any: the read models keep mentions of
  replaced revisions, and structured evidence is read over the length of the request. What the index adds was
  reported while its meeting was at the current revision.
- Password change, the event log, the views scoped to an organisation, the ids of memory facts,
  articles inside names, the repositories' other read endpoints.
- An `OperationalError` of SQLite other than those of the migration and of a COMMIT.
