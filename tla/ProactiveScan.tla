--------------------------- MODULE ProactiveScan ---------------------------
(***************************************************************************)
(* The recurring intelligence scan of one organisation: the scheduler tick *)
(* of a worker (app/main.py), the scan jobs, one for each time bucket, and *)
(* the scan that reports which signals are new                             *)
(* (app/services/proactive_intelligence_service.py).                       *)
(*                                                                         *)
(* The worker is one thread: it ticks, then runs a job.  It may stop       *)
(* between any two steps, and its jobs are then recovered, as JobQueue     *)
(* shows.  Signals come and go with the sources.                           *)
(***************************************************************************)
EXTENDS Naturals, Sequences, SequencesExt, FiniteSets, FiniteSetsExt

CONSTANTS
    Workers,     \* worker processes
    Signals,     \* ids, naturals: lists of them are sorted
    MaxBucket,   \* bound on time
    MaxAttempts, \* of a job
    MaxSignals,  \* MAX_SIGNAL_IDS
    MaxNew       \* MAX_NEW_SIGNAL_IDS

VARIABLES
    bucket,   \* the time bucket it is
    signals,  \* what the intelligence services would return
    job,      \* the job of each bucket
    scans,    \* the jobs that succeeded, in the order of completed_at
    worker    \* where each worker is, and its locals

vars == <<bucket, signals, job, scans, worker>>

Outstanding == {"PENDING", "RUNNING", "RETRY_WAITING"}
Idle    == [pc |-> "tick"]
NoJob   == [status |-> "NONE", owner |-> {}, attempts |-> 0, ids |-> {}, new |-> {}]

Init ==
    /\ bucket = 1
    /\ signals \in SUBSET Signals
    /\ job = [b \in 1 .. MaxBucket |-> NoJob]
    /\ scans = <<>>
    /\ worker = [w \in Workers |-> Idle]

At(w, pc)    == worker[w].pc = pc
Become(w, l) == worker' = [worker EXCEPT ![w] = l]

\* The first n of a sorted list.
FirstOf(set, n) == {s \in set : Cardinality({t \in set : t < s}) < n}

-----------------------------------------------------------------------------
(* The scheduler.                                                          *)

\* Mutant: a job that waits for its retry is not outstanding.
DueUnlessRunning == \A b \in DOMAIN job : job[b].status \notin {"PENDING", "RUNNING"}

\* plan_proactive_scans: no job of the organisation is outstanding.
Due == \A b \in DOMAIN job : job[b].status \notin Outstanding

\* The tick looks whether a scan is due, in the bucket it is then; the interval
\* may not be over, or be forgotten by a restart.
Tick(w) ==
    /\ At(w, "tick")
    /\ Become(w, IF Due THEN [pc |-> "enqueue", bucket |-> bucket] ELSE [pc |-> "claim"])
    /\ UNCHANGED <<bucket, signals, job, scans>>

Skip(w) ==
    /\ At(w, "tick")
    /\ Become(w, [pc |-> "claim"])
    /\ UNCHANGED <<bucket, signals, job, scans>>

\* ON CONFLICT DO NOTHING.
Enqueue(w) ==
    LET b == worker[w].bucket IN
    /\ At(w, "enqueue")
    /\ job' = IF job[b].status # "NONE" THEN job
              ELSE [job EXCEPT ![b].status = "PENDING"]
    /\ Become(w, [pc |-> "claim"])
    /\ UNCHANGED <<bucket, signals, scans>>

-----------------------------------------------------------------------------
(* run_once with a scan.                                                   *)

Claim(w) ==
    /\ At(w, "claim")
    /\ \/ \E b \in DOMAIN job :
             /\ job[b].status \in {"PENDING", "RETRY_WAITING"}
             /\ job' = [job EXCEPT ![b].status = "RUNNING", ![b].owner = {w},
                                   ![b].attempts = @ + 1]
             /\ Become(w, [pc |-> "collect", bucket |-> b])
       \/ Become(w, Idle) /\ UNCHANGED job
    /\ UNCHANGED <<bucket, signals, scans>>

\* _signal_set_from_services, cut.
Collect(w) ==
    /\ At(w, "collect")
    /\ Become(w, [pc |-> "compare", bucket |-> worker[w].bucket,
                  ids |-> FirstOf(signals, MaxSignals)])
    /\ UNCHANGED <<bucket, signals, job, scans>>

\* _previous_success: what it saw, if there was one.
Previous(b) == IF scans = <<>> THEN {} ELSE {job[Last(scans)].ids}

\* The first scan is the baseline.
Compare(w) ==
    LET b == worker[w].bucket   previous == Previous(worker[w].bucket) IN
    /\ At(w, "compare")
    /\ Become(w, [pc |-> "record", bucket |-> b, ids |-> worker[w].ids,
                  new |-> IF previous = {} THEN {}
                          ELSE FirstOf(worker[w].ids \ UNION previous, MaxNew)])
    /\ UNCHANGED <<bucket, signals, job, scans>>

Owned(w, b) == job[b].status = "RUNNING" /\ job[b].owner = {w}

\* record_scan_result; who does not own the job any more is refused.
Record(w) ==
    LET b == worker[w].bucket IN
    /\ At(w, "record") /\ Owned(w, b)
    /\ job' = [job EXCEPT ![b].ids = worker[w].ids, ![b].new = worker[w].new]
    /\ Become(w, [pc |-> "succeed", bucket |-> b])
    /\ UNCHANGED <<bucket, signals, scans>>

Succeed(w) ==
    LET b == worker[w].bucket IN
    /\ At(w, "succeed") /\ Owned(w, b)
    /\ job' = [job EXCEPT ![b].status = "SUCCEEDED"]
    /\ scans' = Append(scans, b)
    /\ Become(w, Idle)
    /\ UNCHANGED <<bucket, signals>>

\* An error or a stop of the worker, or a write that is refused.
Stop(w) ==
    /\ ~ At(w, "tick")
    /\ Become(w, Idle)
    /\ UNCHANGED <<bucket, signals, job, scans>>

\* The lease of a job is over, or its attempt is known to have failed.
Release(b) ==
    /\ job[b].status = "RUNNING"
    /\ job' = [job EXCEPT ![b].status = IF job[b].attempts < MaxAttempts
                                        THEN "RETRY_WAITING" ELSE "FAILED"]
    /\ UNCHANGED <<bucket, signals, scans, worker>>

-----------------------------------------------------------------------------
Cancel(b) ==
    /\ job[b].status \in {"PENDING", "RETRY_WAITING"}
    /\ job' = [job EXCEPT ![b].status = "CANCELLED"]
    /\ UNCHANGED <<bucket, signals, scans, worker>>

Advance ==
    /\ bucket < MaxBucket
    /\ bucket' = bucket + 1
    /\ UNCHANGED <<signals, job, scans, worker>>

Change ==
    /\ \E s \in Signals : signals' = IF s \in signals THEN signals \ {s} ELSE signals \cup {s}
    /\ UNCHANGED <<bucket, job, scans, worker>>

Next ==
    \/ \E w \in Workers :
          \/ Tick(w) \/ Skip(w) \/ Enqueue(w) \/ Claim(w) \/ Collect(w)
          \/ Compare(w) \/ Record(w) \/ Succeed(w) \/ Stop(w)
    \/ \E b \in DOMAIN job : Release(b) \/ Cancel(b)
    \/ Advance \/ Change

Spec == Init /\ [][Next]_vars

-----------------------------------------------------------------------------
\* The lists cut to n.
Lists(n) == {FirstOf(set, n) : set \in SUBSET Signals}

\* A job has what its status says: attempts since it was claimed, a result when
\* it has succeeded, whose lists are cut.
TypeOK ==
    /\ signals \subseteq Signals
    /\ \A b \in DOMAIN job :
          /\ job[b].attempts \in 0 .. MaxAttempts
          /\ job[b].ids \in Lists(MaxSignals) /\ job[b].new \in Lists(MaxNew)
          /\ job[b].new \subseteq job[b].ids
          /\ job[b].status = "NONE" => job[b] = NoJob
          /\ job[b].status = "SUCCEEDED" <=> b \in Range(scans)

\* "duplicate prevention is durable": whatever the restarts, one scan of the
\* organisation is outstanding at most, and it is the latest one.
OneOutstanding ==
    \A b, c \in DOMAIN job :
        job[b].status \in Outstanding /\ b < c => job[c].status = "NONE"

\* "Only signal IDs absent from the previous successful scan are new", and all
\* of these up to the limit; the first scan reports none.  Retries of a scan,
\* stops between its steps and signals that come meanwhile do not change that.
NewIsDifference ==
    \A i \in DOMAIN scans :
        job[scans[i]].new = IF i = 1 THEN {}
                            ELSE FirstOf(job[scans[i]].ids \ job[scans[i - 1]].ids, MaxNew)

=============================================================================
