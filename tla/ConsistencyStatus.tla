------------------------- MODULE ConsistencyStatus -------------------------
(***************************************************************************)
(* What get_consistency_status of                                          *)
(* app/services/processing_consistency_service.py answers about a meeting  *)
(* while it is revised and its jobs run.  The request reads the meeting,   *)
(* the extraction, the jobs, the semantic index and the jobs again, one    *)
(* after the other.  The jobs are those of JobQueue, reduced to what the   *)
(* answer depends on, and their stages those of SemanticIndex and          *)
(* MeetingPipeline.  A job's revision is not compared by its stages: they  *)
(* work at the revision the meeting has.  A record is checked first and    *)
(* written later, also by a run that has lost its lease meanwhile.         *)
(***************************************************************************)
EXTENDS Naturals, Sequences, FiniteSetsExt

CONSTANTS
    MaxRev,    \* bound on revisions
    MaxJobs,   \* bound on jobs: one for each revision, and refreshes
    MaxLate,   \* bound on the writes of runs without a lease that are under way at once
    Evidence,  \* evidence ids
    Found      \* the sets of evidence that a run may find

VARIABLES
    rev,         \* source_revision of the meeting
    extraction,  \* source_revision of the extraction, 0 for none
    job,         \* the jobs in the order they were enqueued
    semantic,    \* source_revision of the records of the meeting
    late,        \* records that runs without a lease may still write
    request      \* what a request has read, and its answer

vars == <<rev, extraction, job, semantic, late, request>>

Open == {"PENDING", "RUNNING", "RETRY_WAITING"}
Idle == [pc |-> "idle"]

\* A run of the index stage: the revision it has read, what it has found, has yet to
\* look at, and has checked and is about to write.
NotBegun == [rev |-> 0, found |-> {}, todo |-> {}, writing |-> {}]
NewJob(r) == [rev |-> r, status |-> "PENDING", stage |-> "NONE", run |-> NotBegun]

Init ==
    /\ rev = 1
    /\ extraction = 0
    /\ job = <<NewJob(1)>>
    /\ semantic = [e \in Evidence |-> 0]
    /\ late = {}
    /\ request = Idle

-----------------------------------------------------------------------------
(* The meeting and its jobs.                                               *)

\* A job of a revision; a refresh has an identity of its own.
Enqueue(r) == job' = Append(job, NewJob(r))

Revise ==
    /\ rev < MaxRev /\ Len(job) < MaxJobs
    /\ rev' = rev + 1
    /\ Enqueue(rev + 1)
    /\ UNCHANGED <<extraction, semantic, late, request>>

\* extract_meeting stores the extraction ...
ExtractNow ==
    /\ extraction' = rev
    /\ UNCHANGED <<rev, job, semantic, late, request>>

\* ... and then enqueues a refresh of that revision.
Refresh ==
    /\ extraction > 0 /\ Len(job) < MaxJobs
    /\ Enqueue(extraction)
    /\ UNCHANGED <<rev, extraction, semantic, late, request>>

Set(i, status) == job' = [job EXCEPT ![i].status = status]
Go(i, run)     == job' = [job EXCEPT ![i].run = run]

Claim(i) ==
    /\ job[i].status \in {"PENDING", "RETRY_WAITING"}
    /\ Set(i, "RUNNING")
    /\ UNCHANGED <<rev, extraction, semantic, late, request>>

Running(i, stage) == job[i].status = "RUNNING" /\ job[i].stage = stage

\* The stages: what the save of the extraction compares is the revision its text
\* was of, not the job's.
Extract(i) ==
    /\ Running(i, "NONE")
    /\ extraction' = rev
    /\ job' = [job EXCEPT ![i].stage = "EXTRACTED"]
    /\ UNCHANGED <<rev, semantic, late, request>>

\* index_semantic_evidence reads the revision of the meeting and finds evidence ...
Begin(i) ==
    /\ Running(i, "EXTRACTED") /\ job[i].run = NotBegun
    /\ \E found \in Found :
          Go(i, [rev |-> rev, found |-> found, todo |-> found, writing |-> {}])
    /\ UNCHANGED <<rev, extraction, semantic, late, request>>

Indexing(i) == Running(i, "EXTRACTED") /\ job[i].run.rev > 0 /\ job[i].run.writing = {}

\* ... looks at one item, whose record may be there already ...
Reuse(i) ==
    /\ Indexing(i)
    /\ \E e \in job[i].run.todo :
          /\ job[i].run.rev = rev /\ semantic[e] = rev
          /\ Go(i, [job[i].run EXCEPT !.todo = @ \ {e}])
    /\ UNCHANGED <<rev, extraction, semantic, late, request>>

\* ... or is to be written: the revisions and the lease are checked ...
Check(i) ==
    /\ Indexing(i)
    /\ \E e \in job[i].run.todo :
          /\ job[i].run.rev = rev /\ semantic[e] <= rev
          /\ Go(i, [job[i].run EXCEPT !.todo = @ \ {e}, !.writing = {e}])
    /\ UNCHANGED <<rev, extraction, semantic, late, request>>

\* ... and after the call of the embedding provider it is, unchecked.
Write(i) ==
    /\ Running(i, "EXTRACTED") /\ job[i].run.writing # {}
    /\ semantic' = [e \in Evidence |-> IF e \in job[i].run.writing THEN job[i].run.rev ELSE semantic[e]]
    /\ Go(i, [job[i].run EXCEPT !.writing = {}])
    /\ UNCHANGED <<rev, extraction, late, request>>

Indexed(i) ==
    /\ Indexing(i) /\ job[i].run.todo = {}
    /\ job' = [job EXCEPT ![i].stage = "INDEXED"]
    /\ UNCHANGED <<rev, extraction, semantic, late, request>>

Succeed(i) ==
    /\ Running(i, "INDEXED")
    /\ Set(i, "SUCCEEDED")
    /\ UNCHANGED <<rev, extraction, semantic, late, request>>

\* The record a run is about to write.
Writing(i) == {[item |-> e, rev |-> job[i].run.rev] : e \in job[i].run.writing}

\* An error, or an attempt too many; the next attempt finds the evidence anew.
Stopped(i, status) ==
    LET run == IF job[i].stage = "INDEXED" THEN job[i].run ELSE NotBegun
    IN  job' = [job EXCEPT ![i] = [job[i] EXCEPT !.status = status, !.run = run]]

Fail(i) ==
    /\ job[i].status = "RUNNING"
    /\ \E s \in {"FAILED", "RETRY_WAITING"} : Stopped(i, s)
    /\ UNCHANGED <<rev, extraction, semantic, late, request>>

\* The lease expires and the job is recovered, while the run is still at its write.
LoseLease(i) ==
    /\ job[i].status = "RUNNING" /\ Writing(i) # {}
    /\ late' = late \cup Writing(i) /\ Cardinality(late') <= MaxLate
    /\ \E s \in {"FAILED", "RETRY_WAITING"} : Stopped(i, s)
    /\ UNCHANGED <<rev, extraction, semantic, request>>

\* Such a write; more than one run may be at the same.
WriteLate ==
    /\ \E w \in late :
          /\ semantic' = [semantic EXCEPT ![w.item] = w.rev]
          /\ late' \in {late, late \ {w}}
    /\ UNCHANGED <<rev, extraction, job, request>>

-----------------------------------------------------------------------------
(* The request.                                                            *)

Ask ==
    /\ request.pc = "idle"
    /\ request' = [pc |-> "extraction", source |-> rev]
    /\ UNCHANGED <<rev, extraction, job, semantic, late>>

ReadExtraction ==
    /\ request.pc = "extraction"
    /\ request' = [pc |-> "derived", source |-> request.source, extraction |-> extraction]
    /\ UNCHANGED <<rev, extraction, job, semantic, late>>

SucceededRevisions == {job[i].rev : i \in {k \in DOMAIN job : job[k].status = "SUCCEEDED"}}

\* The highest revision that has succeeded.
ReadDerived ==
    /\ request.pc = "derived"
    /\ request' = [pc |-> "semantic", source |-> request.source,
                   extraction |-> request.extraction,
                   derived |-> Max({0} \cup SucceededRevisions)]
    /\ UNCHANGED <<rev, extraction, job, semantic, late>>

\* The revision all records agree on.
SemanticRevision ==
    LET stamps == {semantic[e] : e \in Evidence} \ {0} IN
    IF \A r, s \in stamps : r = s THEN Max({0} \cup stamps) ELSE 0

\* The items of which a record of a revision before r is under way.
UnderWay(r) ==
    {w.item : w \in {v \in late \cup UNION {Writing(i) : i \in DOMAIN job} : v.rev < r}}

\* Mutant: the jobs are not asked.
ReadSemanticOnly ==
    /\ request.pc = "semantic"
    /\ request' = [pc |-> "label", source |-> request.source, derived |-> request.derived,
                   underway |-> UnderWay(request.source),
                   current |-> request.extraction = request.source
                               /\ SemanticRevision = request.source]
    /\ UNCHANGED <<rev, extraction, job, semantic, late>>

\* Current is what has all three revisions equal. (What is under way is noted for the
\* property.)
ReadSemantic ==
    /\ request.pc = "semantic"
    /\ request' = [pc |-> "label", source |-> request.source, derived |-> request.derived,
                   underway |-> UnderWay(request.source),
                   current |-> /\ request.extraction = request.source
                               /\ request.derived = request.source
                               /\ SemanticRevision = request.source]
    /\ UNCHANGED <<rev, extraction, job, semantic, late>>

\* The label, with a second look at the jobs.
Label(source, derived, current) ==
    LET now(statuses) == \E i \in DOMAIN job :
                            job[i].rev = source /\ job[i].status \in statuses
        newer == \E i \in DOMAIN job : job[i].rev > source
    IN  IF current THEN "CURRENT"
        ELSE IF now({"FAILED"}) THEN "FAILED"
        ELSE IF derived > 0 /\ derived < source THEN "STALE"
        ELSE IF now(Open) \/ newer THEN "PENDING"
        ELSE "INCOMPLETE"

Answer ==
    /\ request.pc = "label"
    /\ request' = [pc |-> "answered", source |-> request.source,
                   underway |-> request.underway,
                   status |-> Label(request.source, request.derived, request.current)]
    /\ UNCHANGED <<rev, extraction, job, semantic, late>>

Done ==
    /\ request.pc = "answered"
    /\ request' = Idle
    /\ UNCHANGED <<rev, extraction, job, semantic, late>>

Next ==
    \/ Revise \/ ExtractNow \/ Refresh
    \/ \E i \in DOMAIN job :
          \/ Claim(i) \/ Extract(i) \/ Begin(i) \/ Reuse(i) \/ Check(i) \/ Write(i)
          \/ Indexed(i) \/ Succeed(i) \/ Fail(i) \/ LoseLease(i)
    \/ WriteLate
    \/ Ask \/ ReadExtraction \/ ReadDerived \/ ReadSemantic \/ Answer \/ Done

Spec == Init /\ [][Next]_vars

-----------------------------------------------------------------------------
TypeOK ==
    /\ rev \in 1 .. MaxRev
    /\ extraction \in 0 .. rev
    /\ \A e \in Evidence : semantic[e] \in 0 .. rev
    /\ \A i \in DOMAIN job : job[i].rev \in 1 .. rev
    /\ \A w \in late : w.item \in Evidence /\ w.rev \in 1 .. rev

Answered(status) == request.pc = "answered" /\ request.status = status
HasJob(r, statuses) == \E i \in DOMAIN job : job[i].rev = r /\ job[i].status \in statuses

\* "A failed revision never silently becomes current": though the answer is put
\* together from reads at different times, and stages do not compare the revision of
\* their job, CURRENT means that a job of the revision it names has succeeded, whose
\* index stage worked at that revision or a later one; that all the evidence it
\* found is in the index; and that nothing there is of an older revision, but what a
\* run had checked before and was about to write when the index was read.
CurrentIsProcessed ==
    Answered("CURRENT") =>
        /\ extraction >= request.source
        /\ \E i \in DOMAIN job :
              /\ job[i].rev = request.source /\ job[i].status = "SUCCEEDED"
              /\ job[i].run.rev >= request.source
              /\ \A e \in job[i].run.found : semantic[e] > 0
        /\ \A e \in Evidence \ request.underway : semantic[e] = 0 \/ semantic[e] >= request.source

\* FAILED and STALE have a reason that lasts: a failed job of the revision the
\* answer names, and a job of an older one that succeeded.
LabelHasReason ==
    /\ Answered("FAILED") => HasJob(request.source, {"FAILED"})
    /\ Answered("STALE") => \E r \in 1 .. request.source - 1 : HasJob(r, {"SUCCEEDED"})

=============================================================================
