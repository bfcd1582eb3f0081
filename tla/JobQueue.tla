------------------------------ MODULE JobQueue ------------------------------
(***************************************************************************)
(* The durable background-job queue: the SQLite job repository             *)
(* (app/repositories/background_job_repository.py) driven by the workers   *)
(* of app/services/background_worker_service.py, whose meeting handler     *)
(* runs the checkpointed stages of meeting_processing_service.py.          *)
(*                                                                         *)
(* What interleaves.  A statement or a transaction on the store is one     *)
(* step.  transition() is two: it reads the row and the clock, checks      *)
(* them, and only then opens the transaction with the guarded UPDATE.      *)
(* checkpoint() reads the clock before it waits for the store, so its      *)
(* UPDATE compares the lease with a clock value that may be old.           *)
(* recover_stale() works through a list it selected earlier.  Workers of   *)
(* one process, or of several processes over one database file, and a      *)
(* client that cancels, take these steps in any order.                     *)
(*                                                                         *)
(* Time is a counter.  It ticks only while some lease or retry time lies   *)
(* ahead: past every such instant all later clock values look alike.       *)
(***************************************************************************)
EXTENDS Integers, FiniteSets

CONSTANTS
    Jobs,            \* job ids, as numbers: the order of ORDER BY job_id
    Workers,         \* worker ids; a restarted worker has a fresh one
    Mortal,          \* the workers that may be shut down or crash
    Unsupported,     \* the jobs whose job_type has no handler
    SingleWorker,    \* TRUE: a worker starts only when no other is left
    MaxAttempts,     \* background_max_attempts
    LeaseSeconds,    \* background_lease_seconds
    BackoffSeconds,  \* backoff_seconds
    LastStage,       \* the number of stages that have a handler
    NoWorker         \* worker_id IS NULL

ASSUME JobsAssumption        == Jobs \subseteq Nat \ {0}
ASSUME WorkersAssumption     == IsFiniteSet(Workers) /\ NoWorker \notin Workers
ASSUME MortalAssumption      == Mortal \subseteq Workers
ASSUME UnsupportedAssumption == Unsupported \subseteq Jobs
ASSUME SingleAssumption      == SingleWorker \in BOOLEAN
ASSUME AttemptsAssumption    == MaxAttempts \in Nat \ {0}
ASSUME LeaseAssumption       == LeaseSeconds \in Nat \ {0}
ASSUME BackoffAssumption     == BackoffSeconds \in Nat
ASSUME StageAssumption       == LastStage \in Nat \ {0}

-----------------------------------------------------------------------------
(* The job row.                                                            *)

Completed == LastStage + 1          \* the rank of stage COMPLETED; 0 is none

Waiting  == {"PENDING", "RETRY_WAITING"}
Terminal == {"SUCCEEDED", "FAILED", "CANCELLED"}
Statuses == {"ABSENT", "RUNNING"} \cup Waiting \cup Terminal

\* Mutant: a running job may be cancelled.
AllowedWhileRunning(status) ==
    CASE status \in Waiting   -> {"RUNNING", "CANCELLED"}
      [] status = "RUNNING"   -> {"SUCCEEDED", "RETRY_WAITING", "FAILED", "CANCELLED"}
      [] OTHER                -> {}

\* _ALLOWED_TRANSITIONS
Allowed(status) ==
    CASE status \in Waiting   -> {"RUNNING", "CANCELLED"}
      [] status = "RUNNING"   -> {"SUCCEEDED", "RETRY_WAITING", "FAILED"}
      [] OTHER                -> {}

\* A lease or a retry time of 0 is NULL; "ABSENT" is a row not yet inserted.
Row == [status   : Statuses,
        attempts : Nat,
        stage    : 0 .. Completed,
        worker   : Workers \cup {NoWorker},
        lease    : Nat,
        retryAt  : Nat,
        error    : {"NONE", "TRANSIENT", "PERMANENT"}]

NewRow(status) ==
    [status |-> status, attempts |-> 0, stage |-> 0, worker |-> NoWorker,
     lease |-> 0, retryAt |-> 0, error |-> "NONE"]

\* Mutant: the lease is checked, its holder is not.
OwnedByAnyone(row, w, t) == row.status = "RUNNING" /\ row.lease > t

\* The ownership predicate of transition, checkpoint and assert_owned.
Owned(row, w, t) ==
    row.status = "RUNNING" /\ row.worker = w /\ row.lease > t

\* Eligible for claim at time t.
Due(row, t) == row.status \in Waiting /\ row.retryAt <= t

\* Mutant: every lease counts as expired.
ExpiredAnyLease(row, t) == row.status = "RUNNING" /\ row.lease # 0

Expired(row, t) == row.status = "RUNNING" /\ row.lease # 0 /\ row.lease <= t

-----------------------------------------------------------------------------
(* A worker: where run_once stands, and the locals of that call.           *)
(*   now              the clock value the call holds                       *)
(*   retry, exhaust   what is left of recover_stale's list, split by       *)
(*                    attempts < max_attempts as selected                  *)
(*   cand             what is left of the candidate list                   *)
(*   task, turn,      the claimed job, its attempts then, and the last      *)
(*   stage            stage done                                           *)
(*   goal             the settlement run_once is heading for               *)
(*   seen             the row transition() has read                        *)

Executing == {"stage", "written", "checkpoint", "settle", "settleWrite"}
Idling    == {"poll", "recover", "recoverWrite", "claim"}
Live      == Executing \cup Idling

Goals == {"NONE", "SUCCEED", "REJECT", "ABORT", "RETRY", "GIVEUP"}

Worker == [pc      : Live \cup {"off", "stopped", "killed"},
           now     : Nat,
           retry   : SUBSET Jobs,
           exhaust : SUBSET Jobs,
           cand    : SUBSET Jobs,
           task    : Jobs \cup {0},
           turn    : Nat,
           stage   : 0 .. Completed,
           goal    : Goals,
           seen    : Row]

Fresh(pc) ==
    [pc |-> pc, now |-> 0, retry |-> {}, exhaust |-> {}, cand |-> {},
     task |-> 0, turn |-> 0, stage |-> 0, goal |-> "NONE",
     seen |-> NewRow("ABSENT")]

VARIABLES
    clock,      \* the repository clock
    job,        \* the table background_jobs
    output,     \* the stages of a job whose durable output was written
    wk,         \* the workers
    cancelling  \* the pending cancel call: job and row read, or job 0

vars == <<clock, job, output, wk, cancelling>>

NoCancel == [job |-> 0, seen |-> NewRow("ABSENT")]

Init ==
    /\ clock = 0
    /\ job = [j \in Jobs |-> NewRow("ABSENT")]
    /\ output = [j \in Jobs |-> {}]
    /\ wk = [w \in Workers |-> Fresh("off")]
    /\ cancelling = NoCancel

First(S, j) == j \in S /\ \A k \in S : j <= k

Become(w, local) == wk' = [wk EXCEPT ![w] = local]
Return(w)        == Become(w, Fresh("poll"))      \* run_once returns
Die(w)           == Become(w, Fresh("killed"))    \* it raises: the thread ends

-----------------------------------------------------------------------------
(* Clients and time.                                                       *)

\* Mutant: the insert replaces the row that is there.
EnqueueReplaces(j) ==
    /\ job' = [job EXCEPT ![j] = NewRow("PENDING")]
    /\ UNCHANGED <<clock, output, wk, cancelling>>

\* INSERT ... ON CONFLICT(job_id) DO NOTHING.
Enqueue(j) ==
    /\ job' = [job EXCEPT ![j] =
                 IF @.status = "ABSENT" THEN NewRow("PENDING") ELSE @]
    /\ UNCHANGED <<clock, output, wk, cancelling>>

\* cancel() is transition(CANCELLED) without an owner: read and check ...
CancelRead(j) ==
    /\ cancelling = NoCancel
    /\ "CANCELLED" \in Allowed(job[j].status)
    /\ cancelling' = [job |-> j, seen |-> job[j]]
    /\ UNCHANGED <<clock, job, output, wk>>

\* Mutant: the UPDATE has no WHERE status.
CancelWriteUnguarded ==
    /\ cancelling # NoCancel
    /\ job' = [job EXCEPT ![cancelling.job].status = "CANCELLED",
                          ![cancelling.job].lease = 0]
    /\ cancelling' = NoCancel
    /\ UNCHANGED <<clock, output, wk>>

\* ... then UPDATE ... WHERE status = the status read.
CancelWrite ==
    /\ cancelling # NoCancel
    /\ LET seen == cancelling.seen IN
       job' = [job EXCEPT ![cancelling.job] =
                 IF @.status = seen.status
                 THEN [@ EXCEPT !.status = "CANCELLED", !.lease = 0,
                                !.worker = seen.worker,
                                !.retryAt = seen.retryAt,
                                !.error = seen.error]
                 ELSE @]
    /\ cancelling' = NoCancel
    /\ UNCHANGED <<clock, output, wk>>

\* The instants the queue will still compare the clock with.
Deadlines ==
    {job[j].lease : j \in {i \in Jobs : job[i].status = "RUNNING"}} \cup
    {job[j].retryAt : j \in {i \in Jobs : job[i].status = "RETRY_WAITING"}}

Tick ==
    /\ \E d \in Deadlines : d > clock
    /\ clock' = clock + 1
    /\ UNCHANGED <<job, output, wk, cancelling>>

-----------------------------------------------------------------------------
(* Worker lifecycle (main.py).                                             *)

\* start_background_worker: a new worker with a fresh id.  With SingleWorker
\* it does nothing while a worker thread is registered, even a dead one.
Start(w) ==
    /\ wk[w].pc = "off"
    /\ SingleWorker => \A v \in Workers : wk[v].pc \in {"off", "stopped"}
    /\ Become(w, Fresh("poll"))
    /\ UNCHANGED <<clock, job, output, cancelling>>

\* shutdown() sets _stopping: the next run_once returns without claiming.
Shutdown(w) ==
    /\ w \in Mortal
    /\ wk[w].pc = "poll"
    /\ Become(w, Fresh("stopped"))
    /\ UNCHANGED <<clock, job, output, cancelling>>

\* The process dies anywhere; only the database survives.
Crash(w) ==
    /\ w \in Mortal
    /\ wk[w].pc \in Live \cup {"killed"}
    /\ Become(w, Fresh("stopped"))
    /\ UNCHANGED <<clock, job, output, cancelling>>

-----------------------------------------------------------------------------
(* run_once, first part: recovery, candidates, claim.                      *)

\* recover_stale() selects the expired RUNNING rows; the cutoff of the
\* candidate list is the same instant.
RecoverScan(w) ==
    /\ wk[w].pc = "poll"
    /\ LET stale == {j \in Jobs : Expired(job[j], clock)} IN
       Become(w, [wk[w] EXCEPT
           !.pc = "recover", !.now = clock,
           !.retry = {j \in stale : job[j].attempts < MaxAttempts},
           !.exhaust = {j \in stale : job[j].attempts >= MaxAttempts}])
    /\ UNCHANGED <<clock, job, output, cancelling>>

\* transition() of the next listed job reads its row again.  The status is
\* checked, the lease is not.  InvalidJobTransition is caught nowhere.
RecoverRead(w) ==
    /\ wk[w].pc = "recover"
    /\ \E j \in Jobs :
          /\ First(wk[w].retry \cup wk[w].exhaust, j)
          /\ IF job[j].status = "RUNNING"
             THEN Become(w, [wk[w] EXCEPT !.pc = "recoverWrite", !.seen = job[j]])
             ELSE Die(w)
    /\ UNCHANGED <<clock, job, output, cancelling>>

\* The row recover_stale writes over the row it read.
Requeued(row, seen, t) ==
    [row EXCEPT !.status = "RETRY_WAITING", !.retryAt = t,
                !.worker = NoWorker, !.lease = seen.lease,
                !.error = seen.error]

LeaseExpired(row, seen) ==
    [row EXCEPT !.status = "FAILED", !.error = "TRANSIENT", !.lease = 0,
                !.retryAt = seen.retryAt, !.worker = seen.worker]

RecoverWrite(w) ==
    /\ wk[w].pc = "recoverWrite"
    /\ \E j \in Jobs :
          /\ First(wk[w].retry \cup wk[w].exhaust, j)
          /\ IF job[j].status = "RUNNING"
             THEN /\ job' = [job EXCEPT ![j] =
                        IF j \in wk[w].retry
                        THEN Requeued(@, wk[w].seen, wk[w].now)
                        ELSE LeaseExpired(@, wk[w].seen)]
                  /\ Become(w, [wk[w] EXCEPT !.pc = "recover",
                                             !.retry = @ \ {j},
                                             !.exhaust = @ \ {j},
                                             !.seen = NewRow("ABSENT")])
             ELSE /\ Die(w)
                  /\ UNCHANGED job
    /\ UNCHANGED <<clock, output, cancelling>>

\* The candidates are listed once recovery is through.
ListCandidates(w) ==
    /\ wk[w].pc = "recover"
    /\ wk[w].retry \cup wk[w].exhaust = {}
    /\ LET due == {j \in Jobs : Due(job[j], wk[w].now)} IN
       IF due = {} THEN Return(w)
       ELSE Become(w, [Fresh("claim") EXCEPT !.cand = due])
    /\ UNCHANGED <<clock, job, output, cancelling>>

\* Mutants: the attempt is not counted; the lease is not set.
ClaimedUncounted(row, w) ==
    [row EXCEPT !.status = "RUNNING", !.worker = w, !.lease = clock + LeaseSeconds]

ClaimedWithoutLease(row, w) ==
    [row EXCEPT !.status = "RUNNING", !.worker = w, !.attempts = @ + 1]

\* claim(): one transaction.
Claimed(row, w) ==
    [row EXCEPT !.status = "RUNNING", !.worker = w,
                !.lease = clock + LeaseSeconds, !.attempts = @ + 1]

Claim(w) ==
    /\ wk[w].pc = "claim"
    /\ \E j \in Jobs :
          /\ First(wk[w].cand, j)
          /\ Due(job[j], clock)
          /\ job' = [job EXCEPT ![j] = Claimed(@, w)]
          /\ Become(w, [Fresh(IF j \in Unsupported THEN "settle" ELSE "stage")
                          EXCEPT !.task = j, !.turn = job[j].attempts + 1,
                                 !.stage = job[j].stage,
                                 !.goal = IF j \in Unsupported THEN "REJECT"
                                          ELSE "NONE"])
    /\ UNCHANGED <<clock, output, cancelling>>

\* The candidate is no longer eligible: try the next one, or give up.
ClaimNothing(w) ==
    /\ wk[w].pc = "claim"
    /\ \E j \in Jobs :
          /\ First(wk[w].cand, j)
          /\ ~ Due(job[j], clock)
          /\ IF wk[w].cand = {j} THEN Return(w)
             ELSE Become(w, [wk[w] EXCEPT !.cand = @ \ {j}])
    /\ UNCHANGED <<clock, job, output, cancelling>>

-----------------------------------------------------------------------------
(* run_once, second part: the handler, stage by stage.                     *)

\* Mutant: the resume index is one too far.
NextStageSkips(w) == wk[w].stage + 2

\* The stage that follows the last one done.
NextStage(w) == wk[w].stage + 1

\* assert_owned() passes and the stage handler writes its output.
HandlerWrites(w) ==
    /\ wk[w].pc = "stage"
    /\ wk[w].stage < LastStage
    /\ Owned(job[wk[w].task], w, clock)
    /\ output' = [output EXCEPT ![wk[w].task] = @ \cup {NextStage(w)}]
    /\ Become(w, [wk[w] EXCEPT !.pc = "written"])
    /\ UNCHANGED <<clock, job, cancelling>>

\* assert_owned() raises StaleJobOwnershipError: run_once returns None.
HandlerDisowned(w) ==
    /\ wk[w].pc \in {"stage", "written"}
    /\ wk[w].stage < LastStage
    /\ ~ Owned(job[wk[w].task], w, clock)
    /\ Return(w)
    /\ UNCHANGED <<clock, job, output, cancelling>>

\* Mutant: the checkpoint does not wait for the output.
StageDoneEarly(w) ==
    /\ wk[w].pc \in {"stage", "written"}
    /\ Become(w, [wk[w] EXCEPT !.pc = "checkpoint", !.now = clock])
    /\ UNCHANGED <<clock, job, output, cancelling>>

\* The handler returns, or there is none left to run: checkpoint() reads the
\* clock.
StageDone(w) ==
    /\ \/ wk[w].pc = "written"
       \/ wk[w].pc = "stage" /\ wk[w].stage >= LastStage
    /\ Become(w, [wk[w] EXCEPT !.pc = "checkpoint", !.now = clock])
    /\ UNCHANGED <<clock, job, output, cancelling>>

\* Mutant: the attempts are compared one too early.
RetryGoalEarly(w) == IF wk[w].turn + 1 >= MaxAttempts THEN "GIVEUP" ELSE "RETRY"

\* _retry_or_fail decides on the attempts of the job as claimed.
RetryGoal(w) == IF wk[w].turn >= MaxAttempts THEN "GIVEUP" ELSE "RETRY"

Settling(w, goal) == [wk[w] EXCEPT !.pc = "settle", !.goal = goal]

\* The handler raises a PermanentJobError, or it or the store any other
\* exception.
HandlerRaises(w) ==
    /\ wk[w].pc \in {"stage", "written"}
    /\ \E goal \in {"ABORT", RetryGoal(w)} : Become(w, Settling(w, goal))
    /\ UNCHANGED <<clock, job, output, cancelling>>

\* checkpoint(): one transaction, with the clock value read before it.
Checkpoint(w) ==
    /\ wk[w].pc = "checkpoint"
    /\ LET j     == wk[w].task
           stage == IF wk[w].stage = Completed THEN Completed ELSE NextStage(w)
       IN  \/ /\ stage < job[j].stage            \* "checkpoint regression"
              /\ Become(w, Settling(w, RetryGoal(w)))
              /\ UNCHANGED job
           \/ /\ stage >= job[j].stage
              /\ ~ Owned(job[j], w, wk[w].now)   \* StaleJobOwnershipError
              /\ Return(w)
              /\ UNCHANGED job
           \/ /\ stage >= job[j].stage
              /\ Owned(job[j], w, wk[w].now)
              /\ job' = [job EXCEPT ![j].stage = stage]
              /\ Become(w, IF stage = Completed
                           THEN [Settling(w, "SUCCEED") EXCEPT !.stage = stage]
                           ELSE [wk[w] EXCEPT !.pc = "stage", !.stage = stage])
    /\ UNCHANGED <<clock, output, cancelling>>

-----------------------------------------------------------------------------
(* run_once, third part: transition() with owner_id, read then write.      *)

TargetOf(goal) ==
    CASE goal = "SUCCEED" -> "SUCCEEDED"
      [] goal = "RETRY"   -> "RETRY_WAITING"
      [] OTHER            -> "FAILED"

\* _retry_or_fail's backoff after the given attempt.
Delay(turn) == BackoffSeconds * 2 ^ (turn - 1)

\* The transition table comes first, the owner second.  InvalidJobTransition
\* inside the try block ends in _retry_or_fail; raised by _fail or
\* _retry_or_fail themselves it leaves run_once and ends the worker thread.
SettleInvalid(w) ==
    /\ wk[w].pc = "settle"
    /\ TargetOf(wk[w].goal) \notin Allowed(job[wk[w].task].status)
    /\ IF wk[w].goal \in {"SUCCEED", "REJECT"}
       THEN Become(w, Settling(w, RetryGoal(w)))
       ELSE Die(w)
    /\ UNCHANGED <<clock, job, output, cancelling>>

SettleDisowned(w) ==
    /\ wk[w].pc = "settle"
    /\ TargetOf(wk[w].goal) \in Allowed(job[wk[w].task].status)
    /\ ~ Owned(job[wk[w].task], w, clock)
    /\ Return(w)
    /\ UNCHANGED <<clock, job, output, cancelling>>

SettleRead(w) ==
    /\ wk[w].pc = "settle"
    /\ TargetOf(wk[w].goal) \in Allowed(job[wk[w].task].status)
    /\ Owned(job[wk[w].task], w, clock)
    /\ Become(w, [wk[w] EXCEPT !.pc = "settleWrite", !.now = clock,
                               !.seen = job[wk[w].task]])
    /\ UNCHANGED <<clock, job, output, cancelling>>

\* The row transition() writes over the one it read, per goal.
Settled(row, local) ==
    LET seen == local.seen IN
    CASE local.goal = "SUCCEED" ->
           [row EXCEPT !.status = "SUCCEEDED", !.error = "NONE", !.lease = 0,
                       !.retryAt = seen.retryAt, !.worker = seen.worker]
      [] local.goal = "RETRY" ->
           [row EXCEPT !.status = "RETRY_WAITING", !.error = "TRANSIENT",
                       !.lease = seen.lease, !.worker = NoWorker,
                       !.retryAt = local.now + Delay(local.turn)]
      [] OTHER ->
           [row EXCEPT !.status = "FAILED", !.lease = 0,
                       !.error = IF local.goal = "GIVEUP" THEN "TRANSIENT"
                                 ELSE "PERMANENT",
                       !.retryAt = seen.retryAt, !.worker = seen.worker]

\* UPDATE ... WHERE status = the status read AND worker_id = owner AND
\* lease_until > now.  No row updated is StaleJobOwnershipError.
SettleWrite(w) ==
    /\ wk[w].pc = "settleWrite"
    /\ job' = [job EXCEPT ![wk[w].task] =
                 IF @.status = wk[w].seen.status /\ Owned(@, w, wk[w].now)
                 THEN Settled(@, wk[w]) ELSE @]
    /\ Return(w)
    /\ UNCHANGED <<clock, output, cancelling>>

-----------------------------------------------------------------------------
Recover(w)    == RecoverScan(w) \/ RecoverRead(w) \/ RecoverWrite(w)
Acquire(w)    == ListCandidates(w) \/ Claim(w) \/ ClaimNothing(w)
RunHandler(w) == \/ HandlerWrites(w) \/ HandlerDisowned(w) \/ HandlerRaises(w)
                 \/ StageDone(w) \/ Checkpoint(w)
Settle(w)     == \/ SettleInvalid(w) \/ SettleDisowned(w)
                 \/ SettleRead(w) \/ SettleWrite(w)

RunOnce(w) == Recover(w) \/ Acquire(w) \/ RunHandler(w) \/ Settle(w)

Next ==
    \/ \E j \in Jobs : Enqueue(j) \/ CancelRead(j)
    \/ CancelWrite
    \/ Tick
    \/ \E w \in Workers : Start(w) \/ Shutdown(w) \/ Crash(w) \/ RunOnce(w)

Spec == Init /\ [][Next]_vars

\* Threads are scheduled, handlers and store calls end, a supervisor starts
\* the process again, time passes.
Fairness ==
    /\ WF_vars(Tick)
    /\ \A w \in Workers : WF_vars(RunOnce(w)) /\ WF_vars(Start(w))

FairSpec == Spec /\ Fairness

-----------------------------------------------------------------------------
(* Invariants.                                                             *)

\* Every variable holds a value of its kind.
TypeOK ==
    /\ clock \in Nat
    /\ job \in [Jobs -> Row]
    /\ output \in [Jobs -> SUBSET (1 .. LastStage)]
    /\ wk \in [Workers -> Worker]
    /\ cancelling \in [job : Jobs \cup {0}, seen : Row]

\* A checkpointed stage has its output, whoever wrote the checkpoint and
\* whichever attempt resumed behind it: checkpoint() and the resume index of
\* MeetingProcessingService.process.
CheckpointsBacked ==
    \A j \in Jobs : \A s \in 1 .. LastStage :
        s <= job[j].stage => s \in output[j]

\* A SUCCEEDED job has the output of every stage, over crashes, lost leases
\* and retries that resume in the middle.
SuccessIsComplete ==
    \A j \in Jobs : job[j].status = "SUCCEEDED" => output[j] = 1 .. LastStage

\* Two workers that run the handler of one job (the first has lost its lease
\* and does not know) do so for different attempts: claim() hands an attempt
\* to one worker.
AttemptHasOneWorker ==
    \A v, w \in Workers :
        /\ v # w
        /\ wk[v].pc \in Executing /\ wk[w].pc \in Executing
        /\ wk[v].task = wk[w].task
        => wk[v].turn # wk[w].turn

\* A job is failed for a transient error only when its attempts are used up,
\* although recover_stale and _retry_or_fail decide on attempts read earlier.
TransientFailureIsExhausted ==
    \A j \in Jobs :
        job[j].status = "FAILED" /\ job[j].error = "TRANSIENT"
        => job[j].attempts >= MaxAttempts

\* How many attempts a job can get: the configured number, and one more for
\* each other worker that may requeue it from an old recover_stale list.
AttemptLimit ==
    IF SingleWorker THEN MaxAttempts
    ELSE MaxAttempts + Cardinality(Workers) - 1

\* No exception of the repository ends the thread of a lone worker: what
\* transition() raises is caught, or its cause cannot arise.
WorkersSurvive == \A w \in Workers : wk[w].pc # "killed"

-----------------------------------------------------------------------------
(* What a step may never do.                                               *)

Step(j, from, to) == job[j].status \in from /\ job'[j].status \in to

\* The row of a finished job never changes again: no late checkpoint,
\* settlement, recovery, cancel or repeated enqueue reaches it.
TerminalFinal ==
    [][\A j \in Jobs : job[j].status \in Terminal => job'[j] = job[j]]_vars

\* Every change of status is one of _ALLOWED_TRANSITIONS, although
\* transition() checks the table against a row read before its UPDATE.
OnlyAllowedTransitions ==
    [][\A j \in Jobs :
          \/ job'[j].status = job[j].status
          \/ Step(j, {"ABSENT"}, {"PENDING"})
          \/ job'[j].status \in Allowed(job[j].status)]_vars

\* Only the worker that runs the current attempt completes the job or moves
\* its checkpoint: a worker that was superseded changes nothing.
OnlyCurrentAttemptWrites ==
    [][\A j \in Jobs :
          Step(j, {"RUNNING"}, {"SUCCEEDED"}) \/ job'[j].stage # job[j].stage
          => \E w \in Workers : /\ wk[w].pc \in {"checkpoint", "settleWrite"}
                                /\ wk[w].task = j
                                /\ wk[w].turn = job[j].attempts]_vars

\* A job whose lease runs leaves RUNNING only by the hand of the worker that
\* holds the lease: recovery takes expired leases.
LiveLeaseKept ==
    [][\A j \in Jobs :
          /\ job[j].status = "RUNNING" /\ job[j].lease > clock
          /\ job'[j].status # "RUNNING"
          => \E w \in Workers : /\ w = job[j].worker
                                /\ wk[w].pc = "settleWrite"
                                /\ wk[w].task = j]_vars

\* A worker that settles a job after losing its lease gets a
\* StaleJobOwnershipError, with which run_once returns; no exception ends it.
LostLeaseIsStale ==
    [][\A w \in Workers :
          /\ wk[w].pc = "settle"
          /\ ~ Owned(job[wk[w].task], w, clock)
          => wk'[w].pc # "killed"]_vars

\* No checkpoint and no success is recorded once the lease has run out.
ExpiredLeaseFences ==
    [][\A j \in Jobs :
          job'[j].stage # job[j].stage \/ Step(j, {"RUNNING"}, {"SUCCEEDED"})
          => job[j].lease > clock]_vars

-----------------------------------------------------------------------------
(* What must happen.                                                       *)

\* Every job enqueued reaches a terminal status.
EveryJobSettles ==
    \A j \in Jobs :
        job[j].status \in Waiting \cup {"RUNNING"} ~> job[j].status \in Terminal

=============================================================================
