-------------------------- MODULE JobQueueRefinement --------------------------
(***************************************************************************)
(* The job queue implements JobLifecycle: PENDING and RETRY_WAITING are    *)
(* one phase, an attempt is a try, the stage column is the progress.       *)
(***************************************************************************)
EXTENDS JobQueue

PhaseOf(row) ==
    CASE row.status \in Waiting   -> "WAITING"
      [] row.status = "RUNNING"   -> "ACTIVE"
      [] OTHER                    -> row.status

Lifecycle == INSTANCE JobLifecycle WITH
    TryLimit <- AttemptLimit,
    phase    <- [j \in Jobs |-> PhaseOf(job[j])],
    tries    <- [j \in Jobs |-> job[j].attempts],
    reached  <- [j \in Jobs |-> job[j].stage],
    produced <- output

\* Every behaviour of the queue, with any number of workers and old reads, is
\* one of the lifecycle: the writes of recover_stale, transition, checkpoint
\* and claim each amount to one of its steps.
ImplementsLifecycle == Lifecycle!Spec

\* With the workers' fairness no job is left alone for good.
ImplementsFairLifecycle == Lifecycle!FairSpec

=============================================================================
