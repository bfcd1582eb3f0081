-------------------------- MODULE JobQueueInvariant --------------------------
(***************************************************************************)
(* The inductive invariant of the job queue: what the rows, the outputs    *)
(* and the locals of the workers owe to each other between any two steps.  *)
(* It implies the safety properties; JobQueueProofs proves it.             *)
(***************************************************************************)
EXTENDS JobQueue

\* A worker inside the handler or the settlement has a claimed job, and that
\* job was claimed at least once.
LocalsOK ==
    \A w \in Workers :
        wk[w].pc \in Executing => wk[w].task \in Jobs /\ wk[w].turn >= 1

Typed == TypeOK /\ LocalsOK

\* The pending cancel was found legal on the row it read.
CancelLegal ==
    cancelling # NoCancel =>
        cancelling.job \in Jobs /\ cancelling.seen.status \in Waiting

\* An attempt belongs to the worker that claimed it, and the row names that
\* worker as long as the attempt is the current one.
Fencing ==
    /\ \A j \in Jobs : job[j].status = "ABSENT" =>
                          job[j].attempts = 0 /\ job[j].stage = 0
    /\ \A w \in Workers : wk[w].pc \in Executing =>
                          wk[w].turn <= job[wk[w].task].attempts
    /\ AttemptHasOneWorker
    /\ \A w \in Workers :
          /\ wk[w].pc \in Executing
          /\ job[wk[w].task].status = "RUNNING"
          /\ job[wk[w].task].worker = w
          => wk[w].turn = job[wk[w].task].attempts

\* What was checkpointed, resumed behind or is about to be checkpointed has
\* its output; a worker that settles for success has recorded COMPLETED.
Progress ==
    /\ CheckpointsBacked
    /\ \A w \in Workers : wk[w].pc \in Executing =>
          \A s \in 1 .. LastStage :
              s <= wk[w].stage => s \in output[wk[w].task]
    /\ \A w \in Workers :
          wk[w].pc \in {"written", "checkpoint"} /\ wk[w].stage < LastStage
          => NextStage(w) \in output[wk[w].task]
    /\ \A w \in Workers :
          wk[w].pc \in Executing /\ wk[w].goal = "SUCCEED"
          => job[wk[w].task].stage = Completed
    /\ \A j \in Jobs : job[j].status = "SUCCEEDED" => job[j].stage = Completed

\* Whoever gives a job up has seen its last attempt.
Judged ==
    /\ TransientFailureIsExhausted
    /\ \A w \in Workers : \A j \in wk[w].exhaust : job[j].attempts >= MaxAttempts
    /\ \A w \in Workers : wk[w].pc \in Executing /\ wk[w].goal = "GIVEUP"
                          => wk[w].turn >= MaxAttempts

\* The thread of a worker that has not begun or has ended.
Gone(w) == wk[w].pc \in {"off", "stopped"}

\* A worker that works through a list of recover_stale.
Recovering(w) == wk[w].pc \in {"recover", "recoverWrite"}

\* Nobody touches what a lone worker has listed or claimed: the listed jobs
\* still run under the lease that was seen to expire, and the claimed one runs.
Lone ==
    SingleWorker =>
        /\ WorkersSurvive
        /\ \A v, w \in Workers : v # w => Gone(v) \/ Gone(w)
        /\ \A w \in Workers : Recovering(w) =>
              /\ wk[w].now <= clock
              /\ \A j \in wk[w].retry \cup wk[w].exhaust :
                     Expired(job[j], wk[w].now)
        /\ \A w \in Workers :
              wk[w].pc \in Executing => job[wk[w].task].status = "RUNNING"

\* The holder of a job has done the stages the row records, no more.
InStep ==
    \A w \in Workers :
        /\ wk[w].pc \in {"stage", "written", "checkpoint"}
        /\ job[wk[w].task].status = "RUNNING"
        /\ job[wk[w].task].worker = w
        => wk[w].stage = job[wk[w].task].stage

\* The workers that will requeue j from a list they selected earlier.
Requeuers(j) == {w \in Workers : j \in wk[w].retry}

\* Beyond the configured attempts a job is requeued only from an old list, and
\* nobody lists it again: each further attempt uses up one such list.
Budget ==
    /\ \A w \in Workers : wk[w].retry # {} => Recovering(w)
    /\ \A w \in Workers : wk[w].pc \in Executing /\ wk[w].goal = "RETRY"
                          => wk[w].turn < MaxAttempts
    /\ \A j \in Jobs :
          LET spent == job[j].attempts + Cardinality(Requeuers(j)) IN
          job[j].attempts >= MaxAttempts =>
              /\ job[j].status = "RUNNING" => spent <= AttemptLimit
              /\ job[j].status \in Waiting => spent < AttemptLimit

\* Everything together is preserved by every step: the invariants of JobQueue
\* alone are not, they need what the workers hold.
IInv ==
    /\ Typed /\ CancelLegal /\ Fencing /\ Progress /\ Judged
    /\ Lone /\ InStep /\ Budget

=============================================================================
