-------------------------- MODULE ProcessingProofs --------------------------
(***************************************************************************)
(* Five properties of the run on the processing of a meeting: the index    *)
(* keeps its promises, for any runs and removals, from the theorems of     *)
(* SemanticIndexProofs; the status is true, for any number of revisions    *)
(* and jobs and any evidence; the pipeline is consistent, for any runs,    *)
(* requests, entities and mentions; and over the dependencies the search   *)
(* and the impacts are complete, for any entities, depth and number of     *)
(* writes or changes meanwhile.                                            *)
(***************************************************************************)
EXTENDS MCProcessing, SequenceTheorems, FiniteSetTheorems, WellFoundedInduction, TLAPS

-----------------------------------------------------------------------------
(* The status.  Its variables are s1, the revision, s2, that of the        *)
(* extraction, s3, the jobs, s4, the records, s5, the request, and s6, the *)
(* writes of runs without a lease.                                         *)

Statuses == {"PENDING", "RUNNING", "RETRY_WAITING", "SUCCEEDED", "FAILED"}
IndexRun == [rev : Nat, found : SUBSET Evidence, todo : SUBSET Evidence, writing : SUBSET Evidence]
Job == [rev : Nat, status : Statuses, stage : {"NONE", "EXTRACTED", "INDEXED"}, run : IndexRun]

\* Job i of j has succeeded, or failed, with revision r.
Ended(j, r, status) == \E i \in DOMAIN j : j[i].rev = r /\ j[i].status = status

\* Job x, n being the revision and f the records: its stages work at its own revision
\* or a later one, what its run has passed is in the index, and it is past the index
\* stage only when that is all it found.
JobOK(x, n, f) ==
    /\ x.rev \in 1 .. n
    /\ x.run.rev \in 0 .. n
    /\ x.run.rev = 0 => x.run.found = {}
    /\ x.run.rev > 0 => x.run.rev >= x.rev
    /\ x.run.todo \subseteq x.run.found /\ x.run.writing \subseteq x.run.found
    /\ \A e \in x.run.found \ (x.run.todo \cup x.run.writing) : f[e] > 0
    /\ x.stage = "INDEXED" => x.run.rev > 0 /\ x.run.todo = {} /\ x.run.writing = {}
    /\ x.status = "SUCCEEDED" => x.stage = "INDEXED"

\* What is stored is of revisions there were.
Stored ==
    /\ s1 \in 1 .. LastRevision
    /\ s2 \in 0 .. s1
    /\ s3 \in Seq(Job) /\ \A i \in DOMAIN s3 : JobOK(s3[i], s1, s4)
    /\ s4 \in [Evidence -> Nat] /\ \A e \in Evidence : s4[e] \in 0 .. s1
    /\ \A w \in s6 : w.item \in Evidence /\ w.rev \in 1 .. s1

\* Of jobs j and late writes l: a write of evidence e with revision q is under way.
Flies(j, l, e, q) ==
    \/ \E w \in l : w.item = e /\ w.rev = q
    \/ \E i \in DOMAIN j : e \in j[i].run.writing /\ j[i].run.rev = q

\* The revisions that have succeeded have a highest one; there are as many as
\* jobs that ended, which is as good as an induction over them.
HasMax(S) == \E m \in S : \A r \in S : m >= r
Highest == HasMax({0} \cup Status!SucceededRevisions)

\* Nothing of a revision before r is in the index, or under way to it, but of items u.
Protected(r, u) ==
    \A e \in Evidence \ u :
        /\ s4[e] = 0 \/ s4[e] >= r
        /\ \A q \in 1 .. s1 : Flies(s3, s6, e, q) => q >= r

\* Revision r has been processed, and nothing of an older one is left but of items u.
Processed(r, u) ==
    /\ Ended(s3, r, "SUCCEEDED")
    /\ s2 >= r
    /\ Protected(r, u)

\* What the request has read is true, or was: it can only have been overtaken.
HasRead ==
    /\ s5.pc # "idle" => s5.source \in 1 .. s1
    /\ s5.pc \in {"derived", "semantic"} => s5.extraction \in 0 .. s2
    /\ s5.pc \in {"semantic", "label"} =>
          s5.derived = 0 \/ (s5.derived \in 1 .. s1 /\ Ended(s3, s5.derived, "SUCCEEDED"))
    /\ s5.pc = "label" /\ s5.current = TRUE => Processed(s5.source, s5.underway)
    /\ s5.pc = "answered" =>
          /\ s5.status = "CURRENT" => Processed(s5.source, s5.underway)
          /\ s5.status = "FAILED" => Ended(s3, s5.source, "FAILED")
          /\ s5.status = "STALE" => \E r \in 1 .. s5.source - 1 : Ended(s3, r, "SUCCEEDED")

StatusInv == Stored /\ Highest /\ HasRead

\* One job of a list is replaced by another of its revision, unless it ended.
LEMMA JobChanges ==
  ASSUME NEW j \in Seq(Job), NEW k, NEW i \in DOMAIN j, NEW x \in Job, k = [j EXCEPT ![i] = x],
         x.rev = j[i].rev, j[i].status \notin {"SUCCEEDED", "FAILED"}
  PROVE  /\ k \in Seq(Job) /\ DOMAIN k = DOMAIN j
         /\ k[i] = x /\ \A h \in DOMAIN j : h # i => k[h] = j[h]
         /\ \A h \in DOMAIN j : k[h].rev = j[h].rev
         /\ \A r, st : st \in {"SUCCEEDED", "FAILED"} /\ Ended(j, r, st) => Ended(k, r, st)
<1>1. i \in 1 .. Len(j) /\ DOMAIN j = 1 .. Len(j)
  BY LenProperties
<1>2. k \in Seq(Job) /\ Len(k) = Len(j) /\ \A h \in 1 .. Len(j) : k[h] = IF h = i THEN x ELSE j[h]
  BY <1>1, ExceptSeq
<1>3. DOMAIN k = DOMAIN j
  BY <1>1, <1>2, LenProperties
<1> QED
  BY <1>1, <1>2, <1>3 DEF Ended

\* A job is enqueued behind the others.
LEMMA JobEnqueued ==
  ASSUME NEW j \in Seq(Job), NEW k, NEW x \in Job, k = Append(j, x)
  PROVE  /\ k \in Seq(Job) /\ DOMAIN k = DOMAIN j \cup {Len(j) + 1}
         /\ k[Len(j) + 1] = x /\ \A h \in DOMAIN j : k[h] = j[h]
         /\ \A r, st : Ended(j, r, st) => Ended(k, r, st)
<1>1. /\ k \in Seq(Job) /\ Len(k) = Len(j) + 1 /\ k[Len(j) + 1] = x
      /\ \A h \in 1 .. Len(j) : k[h] = j[h]
  BY AppendProperties
<1>2. DOMAIN j = 1 .. Len(j) /\ DOMAIN k = 1 .. Len(k) /\ Len(j) \in Nat
  BY <1>1, LenProperties
<1>3. DOMAIN k = DOMAIN j \cup {Len(j) + 1}
  BY <1>1, <1>2
<1> QED
  BY <1>1, <1>2, <1>3 DEF Ended

\* A set of numbers with a maximum keeps having one when it gets one more.
LEMMA MaxGrows ==
  ASSUME NEW S \in SUBSET Nat, HasMax(S), NEW r \in Nat
  PROVE  HasMax(S \cup {r})
<1>1. PICK m \in S : \A q \in S : m >= q
  BY DEF HasMax
<1>2. CASE m >= r
  BY <1>1, <1>2 DEF HasMax
<1>3. CASE ~ (m >= r)
  BY <1>1, <1>3 DEF HasMax
<1> QED
  BY <1>2, <1>3

\* What Max returns, of a set that has one.
LEMMA MaxIs ==
  ASSUME NEW S \in SUBSET Nat, HasMax(S)
  PROVE  Status!Max(S) \in S /\ \A r \in S : Status!Max(S) >= r
BY DEF HasMax, Status!Max

\* A new job, and what its run is.
LEMMA NewJobOK ==
  /\ Status!NotBegun \in IndexRun
  /\ \A f : \A n \in Nat : \A r \in 1 .. n :
        Status!NewJob(r) \in Job /\ JobOK(Status!NewJob(r), n, f)
<1>1. Status!NotBegun \in IndexRun
  BY DEF Status!NotBegun, IndexRun
<1>2. ASSUME NEW f, NEW n \in Nat, NEW r \in 1 .. n
      PROVE  Status!NewJob(r) \in Job /\ JobOK(Status!NewJob(r), n, f)
  <2>1. Status!NewJob(r) = [rev |-> r, status |-> "PENDING", stage |-> "NONE", run |-> Status!NotBegun]
    BY DEF Status!NewJob
  <2>2. Status!NewJob(r) \in Job
    BY <1>1, <2>1 DEF Job, Statuses
  <2>3. JobOK(Status!NewJob(r), n, f)
    BY <2>1 DEF JobOK, Status!NotBegun
  <2> QED
    BY <2>2, <2>3
<1> QED
  BY <1>1, <1>2

\* Jobs stay right when records come to be.
LEMMA JobStays ==
  ASSUME NEW x \in Job, NEW n \in Nat, NEW m \in Nat, n <= m, NEW f, NEW g, JobOK(x, n, f),
         \A e \in Evidence : f[e] > 0 => g[e] > 0
  PROVE  JobOK(x, m, g)
<1>1. x.run.found \subseteq Evidence /\ x.rev \in Nat /\ x.run.rev \in Nat
  BY DEF Job, IndexRun
<1> QED
  BY <1>1 DEF JobOK

\* First state.
LEMMA StatusInit == Status!Init => StatusInv
<1> SUFFICES ASSUME Status!Init PROVE StatusInv
  OBVIOUS
<1>1. Status!NewJob(1) \in Job
  BY NewJobOK
<1>2. s3 \in Seq(Job) /\ DOMAIN s3 = {1} /\ s3[1] = Status!NewJob(1)
  <2> HIDE DEF Job
  <2> QED
    BY <1>1 DEF Status!Init
<1>5. s3[1].status = "PENDING"
  BY <1>2 DEF Status!NewJob
<1>6. s1 = 1 /\ s2 = 0 /\ s4 = [e \in Evidence |-> 0] /\ s6 = {} /\ s5 = Status!Idle
  BY DEF Status!Init
<1>7. JobOK(s3[1], 1, s4)
  BY <1>2, <1>6, NewJobOK
<1>8. Stored
  BY <1>2, <1>6, <1>7, StatusAssumption DEF Stored
<1>3. Status!SucceededRevisions = {}
  BY <1>2, <1>5 DEF Status!SucceededRevisions
<1>4. Highest
  BY <1>3 DEF Highest, HasMax
<1> QED
  BY <1>4, <1>6, <1>8 DEF Status!Idle, StatusInv, HasRead

\* What a step on the meeting or its jobs does to what the request relies on. What is
\* written was under way, and what comes to be under way is of the latest revision.
StoreMoves ==
    /\ s5' = s5 /\ s1 <= s1' /\ s2 <= s2'
    /\ \A e \in Evidence : s4'[e] = s4[e] \/ (s4'[e] \in 1 .. s1 /\ Flies(s3, s6, e, s4'[e]))
    /\ \A e \in Evidence, q \in 1 .. s1' : Flies(s3', s6', e, q) => Flies(s3, s6, e, q) \/ q = s1
    /\ \A r, st : st \in {"SUCCEEDED", "FAILED"} /\ Ended(s3, r, st) => Ended(s3', r, st)
    /\ \/ Status!SucceededRevisions' = Status!SucceededRevisions
       \/ \E r \in 1 .. s1' : Status!SucceededRevisions' = Status!SucceededRevisions \cup {r}

\* A job is enqueued; what else is stored may grow with the revision.
LEMMA Enqueues ==
  ASSUME Stored, NEW r \in 1 .. s1', Status!Enqueue(r), s5' = s5, s6' = s6,
         s1 <= s1', s1' \in 1 .. LastRevision, s2' = s2, s4' = s4
  PROVE  Stored' /\ StoreMoves
<1> DEFINE x == Status!NewJob(r)
<1>1. s3 \in Seq(Job) /\ s3' = Append(s3, x) /\ s1 \in Nat /\ s1' \in Nat
  BY DEF Stored, Status!Enqueue
<1>5. x \in Job /\ JobOK(x, s1', s4) /\ x.status = "PENDING" /\ x.run.writing = {}
  BY <1>1, NewJobOK DEF Status!NewJob, Status!NotBegun
<1> HIDE DEF x
<1>2. /\ s3' \in Seq(Job) /\ DOMAIN s3' = DOMAIN s3 \cup {Len(s3) + 1}
      /\ s3'[Len(s3) + 1] = x /\ \A h \in DOMAIN s3 : s3'[h] = s3[h]
      /\ \A q, st : Ended(s3, q, st) => Ended(s3', q, st)
  BY <1>1, <1>5, JobEnqueued
<1>6. \A h \in DOMAIN s3' : JobOK(s3'[h], s1', s4')
  <2>1. \A h \in DOMAIN s3 : s3[h] \in Job /\ JobOK(s3[h], s1, s4)
    BY <1>1, LenProperties, ElementOfSeq DEF Stored
  <2>2. \A h \in DOMAIN s3 : JobOK(s3[h], s1', s4)
    BY <1>1, <2>1, JobStays
  <2> QED
    BY <1>2, <1>5, <2>2
<1>3. Stored'
  BY <1>1, <1>2, <1>6 DEF Stored
<1>4. Status!SucceededRevisions' = Status!SucceededRevisions
  BY <1>2, <1>5 DEF Status!SucceededRevisions
<1>7. \A e \in Evidence, q \in 1 .. s1' : Flies(s3', s6', e, q) => Flies(s3, s6, e, q)
  BY <1>2, <1>5 DEF Flies
<1> QED
  BY <1>1, <1>2, <1>3, <1>4, <1>7 DEF StoreMoves, Stored

\* A job that has not ended becomes x; so may what its stage stores: the record that
\* its run was about to write. It may leave that to be written late.
LEMMA JobMoves ==
  ASSUME Stored, NEW i \in DOMAIN s3, NEW x \in Job, s3' = [s3 EXCEPT ![i] = x],
         x.rev = s3[i].rev, s3[i].status \notin {"SUCCEEDED", "FAILED"},
         s5' = s5, s1' = s1, s2' \in {s2, s1}, s4' \in [Evidence -> Nat],
         \A e \in Evidence : s4'[e] = s4[e] \/ (e \in s3[i].run.writing /\ s4'[e] = s3[i].run.rev),
         \A w \in s6' : w \in s6 \/ (w.item \in s3[i].run.writing /\ w.rev = s3[i].run.rev),
         x.run.writing # {} => x.run.rev = s1 \/ x.run = s3[i].run,
         JobOK(x, s1, s4')
  PROVE  Stored' /\ StoreMoves
<1>1. s3 \in Seq(Job) /\ s1 \in Nat /\ s2 <= s2' /\ x.rev \in 1 .. s1 /\ s1 \in 1 .. LastRevision
  BY DEF Stored, JobOK
<1>2. /\ s3' \in Seq(Job) /\ DOMAIN s3' = DOMAIN s3
      /\ s3'[i] = x /\ \A h \in DOMAIN s3 : h # i => s3'[h] = s3[h]
      /\ \A h \in DOMAIN s3 : s3'[h].rev = s3[h].rev
      /\ \A r, st : st \in {"SUCCEEDED", "FAILED"} /\ Ended(s3, r, st) => Ended(s3', r, st)
  BY <1>1, JobChanges
<1>6. \A e \in s3[i].run.writing : e \in Evidence /\ s3[i].run.rev \in 1 .. s1
  <2>1. s3[i] \in Job /\ JobOK(s3[i], s1, s4)
    BY <1>1, LenProperties, ElementOfSeq DEF Stored
  <2> QED
    BY <1>1, <2>1 DEF JobOK, Job, IndexRun
<1>7. \A e \in Evidence : /\ s4[e] \in 0 .. s1 /\ s4'[e] \in 0 .. s1
                          /\ s4[e] > 0 => s4'[e] > 0
  BY <1>1, <1>6 DEF Stored
<1>8. \A h \in DOMAIN s3' : JobOK(s3'[h], s1', s4')
  <2>1. \A h \in DOMAIN s3 : s3[h] \in Job /\ JobOK(s3[h], s1, s4)
    BY <1>1, LenProperties, ElementOfSeq DEF Stored
  <2>2. \A h \in DOMAIN s3 : JobOK(s3[h], s1, s4')
    BY <1>1, <1>7, <2>1, JobStays
  <2> QED
    BY <1>2, <2>2
<1>9. \A w \in s6' : w.item \in Evidence /\ w.rev \in 1 .. s1
  BY <1>6 DEF Stored
<1>3. Stored'
  BY <1>1, <1>2, <1>7, <1>8, <1>9 DEF Stored
<1>10. \A e \in Evidence : s4'[e] = s4[e] \/ (s4'[e] \in 1 .. s1 /\ Flies(s3, s6, e, s4'[e]))
  BY <1>6 DEF Flies
<1>11. \A e \in Evidence, q \in 1 .. s1' : Flies(s3', s6', e, q) => Flies(s3, s6, e, q) \/ q = s1
  <2> SUFFICES ASSUME NEW e \in Evidence, NEW q \in 1 .. s1', Flies(s3', s6', e, q), q # s1
               PROVE  Flies(s3, s6, e, q)
    OBVIOUS
  <2>1. CASE \E w \in s6' : w.item = e /\ w.rev = q
    BY <2>1 DEF Flies
  <2>2. CASE \E h \in DOMAIN s3' : e \in s3'[h].run.writing /\ s3'[h].run.rev = q
    <3>1. PICK h \in DOMAIN s3' : e \in s3'[h].run.writing /\ s3'[h].run.rev = q
      BY <2>2
    <3>2. CASE h = i
      BY <1>2, <3>1, <3>2 DEF Flies
    <3>3. CASE h # i
      BY <1>2, <3>1, <3>3 DEF Flies
    <3> QED
      BY <3>2, <3>3
  <2> QED
    BY <2>1, <2>2 DEF Flies
<1> SUFFICES \/ Status!SucceededRevisions' = Status!SucceededRevisions
             \/ \E r \in 1 .. s1' : Status!SucceededRevisions' = Status!SucceededRevisions \cup {r}
  <2>1. \A r, st : st \in {"SUCCEEDED", "FAILED"} /\ Ended(s3, r, st) => Ended(s3', r, st)
    BY <1>2
  <2>2. s1 <= s1' /\ s5' = s5 /\ s2 <= s2'
    BY <1>1
  <2> QED
    BY <1>3, <1>10, <1>11, <2>1, <2>2 DEF StoreMoves
<1>4. CASE x.status = "SUCCEEDED"
  <2>1. Status!SucceededRevisions' = Status!SucceededRevisions \cup {x.rev}
    BY <1>2, <1>4 DEF Status!SucceededRevisions
  <2> QED
    BY <1>1, <2>1
<1>5. CASE x.status # "SUCCEEDED"
  <2>1. Status!SucceededRevisions' = Status!SucceededRevisions
    BY <1>2, <1>5 DEF Status!SucceededRevisions
  <2> QED
    BY <2>1
<1> QED
  BY <1>4, <1>5

\* Job i is running, and what is known of it.
LEMMA RunningJob ==
  ASSUME Stored, NEW i \in DOMAIN s3
  PROVE  /\ s3[i] \in Job /\ JobOK(s3[i], s1, s4) /\ s3[i].run \in IndexRun
         /\ s1 \in 1 .. LastRevision /\ s1 \in Nat /\ s4 \in [Evidence -> Nat]
<1>1. s3[i] \in Job /\ JobOK(s3[i], s1, s4)
  BY LenProperties, ElementOfSeq DEF Stored
<1> QED
  BY <1>1, StatusAssumption DEF Stored, Job

\* A job gets a status, and the run it has, or a new one.
LEMMA StatusMoves ==
  ASSUME Stored, NEW i \in DOMAIN s3, NEW st \in Statuses, NEW run,
         run = s3[i].run \/ run = Status!NotBegun,
         NEW x \in Job, s3' = [s3 EXCEPT ![i] = x],
         x.rev = s3[i].rev, x.stage = s3[i].stage, x.status = st, x.run = run,
         s3[i].status \notin {"SUCCEEDED", "FAILED"},
         st = "SUCCEEDED" => s3[i].stage = "INDEXED",
         s3[i].stage = "INDEXED" => run = s3[i].run,
         s5' = s5, s1' = s1, s2' = s2, s4' = s4,
         \A w \in s6' : w \in s6 \/ (w.item \in s3[i].run.writing /\ w.rev = s3[i].run.rev)
  PROVE  Stored' /\ StoreMoves
<1> DEFINE j == s3[i]
<1>1. j \in Job /\ JobOK(j, s1, s4) /\ j.run \in IndexRun /\ s1 \in Nat /\ s4 \in [Evidence -> Nat]
  BY RunningJob
<1>3. x \in Job /\ x.rev = j.rev /\ x.stage = j.stage /\ x.status = st /\ x.run = run
  OBVIOUS
<1>4. run = j.run \/ run = Status!NotBegun
  BY DEF j
<1>5. JobOK(x, s1, s4)
  <2>1. j.stage = "INDEXED" => run = j.run
    BY DEF j
  <2>2. st = "SUCCEEDED" => j.stage = "INDEXED"
    BY DEF j
  <2>3. CASE run = j.run
    BY <1>1, <1>3, <2>2, <2>3 DEF JobOK
  <2>4. CASE run = Status!NotBegun /\ j.stage # "INDEXED"
    BY <1>1, <1>3, <2>2, <2>4 DEF JobOK, Status!NotBegun
  <2> QED
    BY <1>4, <2>1, <2>3, <2>4
<1>6. s3' = [s3 EXCEPT ![i] = x] /\ x.rev = s3[i].rev /\ (x.run.writing # {} => x.run = s3[i].run)
  BY <1>3, <1>4 DEF j, Status!NotBegun
<1> QED
  BY <1>1, <1>3, <1>5, <1>6, JobMoves

\* A running job gets a run of the index stage; so may the record that it was about to
\* write.
LEMMA RunMoves ==
  ASSUME Stored, NEW i \in DOMAIN s3, Status!Running(i, "EXTRACTED"), NEW run \in IndexRun, Status!Go(i, run),
         s5' = s5, s1' = s1, s2' = s2, s6' = s6, s4' \in [Evidence -> Nat],
         \A e \in Evidence : s4'[e] = s4[e] \/ (e \in s3[i].run.writing /\ s4'[e] = s3[i].run.rev),
         run.writing # {} => run.rev = s1,
         run.rev \in 1 .. s1, run.rev >= s3[i].rev,
         run.todo \subseteq run.found, run.writing \subseteq run.found,
         \A e \in run.found \ (run.todo \cup run.writing) : s4'[e] > 0
  PROVE  Stored' /\ StoreMoves
<1> DEFINE j == s3[i]
           x == [j EXCEPT !.run = run]
<1>1. j \in Job /\ JobOK(j, s1, s4) /\ s1 \in Nat /\ j.status = "RUNNING" /\ j.stage = "EXTRACTED"
  BY RunningJob DEF Status!Running
<1>2. s3' = [s3 EXCEPT ![i] = x]
  BY DEF Status!Go
<1> HIDE DEF j
<1>3. x \in Job /\ x.rev = j.rev /\ x.stage = j.stage /\ x.status = j.status /\ x.run = run
  BY <1>1 DEF Job
<1> HIDE DEF x
<1>4. JobOK(x, s1, s4')
  BY <1>1, <1>3 DEF JobOK, j
<1>5. x.rev = s3[i].rev /\ s3[i].status = "RUNNING" /\ (x.run.writing # {} => x.run.rev = s1)
  BY <1>1, <1>3 DEF j
<1> QED
  BY <1>1, <1>2, <1>3, <1>4, <1>5, JobMoves

JobStep(i) ==
    \/ Status!Claim(i) \/ Status!Extract(i) \/ Status!Begin(i) \/ Status!Reuse(i)
    \/ Status!Check(i) \/ Status!Write(i) \/ Status!Indexed(i) \/ Status!Succeed(i)
    \/ Status!Fail(i) \/ Status!LoseLease(i)

\* The steps of a job.
LEMMA JobSteps ==
  ASSUME Stored, NEW i \in DOMAIN s3, JobStep(i)
  PROVE  Stored' /\ StoreMoves
<1> DEFINE j == s3[i]
           k == j.run
<1>1. /\ j \in Job /\ JobOK(j, s1, s4) /\ k \in IndexRun
      /\ s1 \in 1 .. LastRevision /\ s1 \in Nat /\ s4 \in [Evidence -> Nat]
  BY RunningJob
<1>2. /\ k.rev \in Nat /\ k.found \subseteq Evidence /\ k.todo \subseteq k.found
      /\ k.writing \subseteq k.found
      /\ \A e \in k.found \ (k.todo \cup k.writing) : s4[e] > 0
      /\ j.rev \in 1 .. s1 /\ k.rev \in 0 .. s1 /\ (k.rev = 0 => k.found = {})
      /\ k.rev > 0 => k.rev >= j.rev
  BY <1>1 DEF JobOK, IndexRun
\* The status is set, and the run stays, or is forgotten.
<1>4. ASSUME NEW st \in Statuses, Status!Set(i, st), j.status \notin {"SUCCEEDED", "FAILED"},
             st = "SUCCEEDED" => j.stage = "INDEXED",
             s5' = s5, s1' = s1, s2' = s2, s4' = s4, s6' = s6
      PROVE  Stored' /\ StoreMoves
  <2> DEFINE x == [j EXCEPT !.status = st]
  <2>1. s3' = [s3 EXCEPT ![i] = x]
    BY <1>4 DEF Status!Set
  <2>2. x \in Job /\ x.rev = j.rev /\ x.stage = j.stage /\ x.status = st /\ x.run = k
    <3> HIDE DEF j
    <3> QED
      BY <1>1 DEF Job
  <2> HIDE DEF x
  <2> QED
    BY <1>4, <2>1, <2>2, StatusMoves
<1>5. ASSUME NEW st \in {"FAILED", "RETRY_WAITING"}, Status!Stopped(i, st), j.status = "RUNNING",
             s5' = s5, s1' = s1, s2' = s2, s4' = s4,
             \A w \in s6' : w \in s6 \/ (w.item \in k.writing /\ w.rev = k.rev)
      PROVE  Stored' /\ StoreMoves
  <2> DEFINE run == IF j.stage = "INDEXED" THEN k ELSE Status!NotBegun
             x == [j EXCEPT !.status = st, !.run = run]
  <2>1. s3' = [s3 EXCEPT ![i] = x]
    BY <1>5 DEF Status!Stopped
  <2>2. (run = k \/ run = Status!NotBegun) /\ (j.stage = "INDEXED" => run = k)
    OBVIOUS
  <2> HIDE DEF run
  <2>3. x \in Job /\ x.rev = j.rev /\ x.stage = j.stage /\ x.status = st /\ x.run = run
    <3>1. run \in IndexRun
      BY <1>1, <2>2, NewJobOK
    <3> HIDE DEF j
    <3> QED
      BY <1>1, <3>1 DEF Job, Statuses
  <2> HIDE DEF x
  <2> QED
    BY <1>5, <2>1, <2>2, <2>3, StatusMoves DEF Statuses
\* The stage is set.
<1>6. \A g \in {"EXTRACTED", "INDEXED"} :
         LET x == [j EXCEPT !.stage = g] IN
         x \in Job /\ x.rev = j.rev /\ x.stage = g /\ x.status = j.status /\ x.run = k
  <2> HIDE DEF j
  <2> QED
    BY <1>1 DEF Job
<1>7. CASE Status!Claim(i)
  BY <1>4, <1>7 DEF Status!Claim, Statuses
<1>8. CASE Status!Extract(i)
  <2> DEFINE x == [j EXCEPT !.stage = "EXTRACTED"]
  <2>1. s3' = [s3 EXCEPT ![i] = x] /\ j.stage = "NONE" /\ j.status = "RUNNING"
        /\ s2' = s1 /\ s1' = s1 /\ s4' = s4 /\ s5' = s5 /\ s6' = s6
    BY <1>8 DEF Status!Extract, Status!Running
  <2>2. x \in Job /\ x.rev = j.rev /\ x.stage = "EXTRACTED" /\ x.status = j.status /\ x.run = k
    BY <1>6
  <2> HIDE DEF x
  <2>3. JobOK(x, s1, s4)
    BY <1>1, <2>1, <2>2 DEF JobOK
  <2> QED
    BY <1>1, <2>1, <2>2, <2>3, JobMoves
<1>9. CASE Status!Begin(i)
  <2>1. PICK found \in Findings :
           Status!Go(i, [rev |-> s1, found |-> found, todo |-> found, writing |-> {}])
    BY <1>9 DEF Status!Begin
  <2> DEFINE run == [rev |-> s1, found |-> found, todo |-> found, writing |-> {}]
  <2>2. run \in IndexRun /\ run.rev = s1 /\ run.found = found /\ run.todo = found /\ run.writing = {}
    BY <1>1, StatusAssumption DEF IndexRun
  <2>3. /\ Status!Running(i, "EXTRACTED") /\ Status!Go(i, run)
        /\ s1' = s1 /\ s2' = s2 /\ s4' = s4 /\ s5' = s5 /\ s6' = s6
    BY <1>9, <2>1 DEF Status!Begin
  <2> HIDE DEF run
  <2> QED
    BY <1>1, <1>2, <2>2, <2>3, RunMoves
<1>10. CASE Status!Reuse(i)
  <2>1. PICK e \in k.todo : s4[e] = s1 /\ Status!Go(i, [k EXCEPT !.todo = @ \ {e}])
    BY <1>10 DEF Status!Reuse
  <2> DEFINE run == [k EXCEPT !.todo = @ \ {e}]
  <2>2. /\ Status!Running(i, "EXTRACTED") /\ k.writing = {} /\ k.rev > 0
        /\ s1' = s1 /\ s2' = s2 /\ s4' = s4 /\ s5' = s5 /\ s6' = s6
    BY <1>10 DEF Status!Reuse, Status!Indexing
  <2> HIDE DEF k
  <2>3. run \in IndexRun /\ run.rev = k.rev /\ run.found = k.found /\ run.todo = k.todo \ {e}
        /\ run.writing = k.writing
    BY <1>1 DEF IndexRun
  <2>4. Status!Go(i, run)
    BY <2>1
  <2> HIDE DEF run
  <2> QED
    BY <1>1, <1>2, <2>1, <2>2, <2>3, <2>4, RunMoves
<1>11. CASE Status!Check(i)
  <2>1. PICK e \in k.todo :
           /\ k.rev = s1 /\ s4[e] <= s1
           /\ Status!Go(i, [k EXCEPT !.todo = @ \ {e}, !.writing = {e}])
    BY <1>11, Zenon DEF Status!Check
  <2> DEFINE run == [k EXCEPT !.todo = @ \ {e}, !.writing = {e}]
  <2>2. /\ Status!Running(i, "EXTRACTED") /\ k.writing = {} /\ k.rev > 0
        /\ s1' = s1 /\ s2' = s2 /\ s4' = s4 /\ s5' = s5 /\ s6' = s6
    BY <1>11 DEF Status!Check, Status!Indexing
  <2> HIDE DEF k
  <2>3. run \in IndexRun /\ run.rev = k.rev /\ run.found = k.found /\ run.todo = k.todo \ {e}
        /\ run.writing = {e}
    BY <1>1, <1>2, <2>1 DEF IndexRun
  <2>4. Status!Go(i, run)
    BY <2>1
  <2> HIDE DEF run
  <2> QED
    BY <1>1, <1>2, <2>1, <2>2, <2>3, <2>4, RunMoves
<1>12. CASE Status!Write(i)
  <2> DEFINE run == [k EXCEPT !.writing = {}]
  <2>1. /\ Status!Running(i, "EXTRACTED") /\ k.writing # {} /\ Status!Go(i, run)
        /\ s4' = [e \in Evidence |-> IF e \in k.writing THEN k.rev ELSE s4[e]]
        /\ s1' = s1 /\ s2' = s2 /\ s5' = s5 /\ s6' = s6
    BY <1>12 DEF Status!Write
  <2>2. run \in IndexRun /\ run.rev = k.rev /\ run.found = k.found /\ run.todo = k.todo
        /\ run.writing = {}
    <3> HIDE DEF k
    <3> QED
      BY <1>1 DEF IndexRun
  <2> HIDE DEF run
  <2>3. k.rev > 0
    BY <1>2, <2>1
  <2>4. s4' \in [Evidence -> Nat]
    BY <1>1, <1>2, <2>1
  <2>5. \A e \in Evidence : s4'[e] = s4[e] \/ (e \in k.writing /\ s4'[e] = k.rev)
    BY <2>1
  <2>6. \A e \in k.found \ k.todo : s4'[e] > 0
    BY <1>2, <2>1, <2>3
  <2> QED
    BY <1>1, <1>2, <2>1, <2>2, <2>3, <2>4, <2>5, <2>6, RunMoves
<1>13. CASE Status!Indexed(i)
  <2> DEFINE x == [j EXCEPT !.stage = "INDEXED"]
  <2>1. /\ s3' = [s3 EXCEPT ![i] = x] /\ j.status = "RUNNING"
        /\ k.rev > 0 /\ k.todo = {} /\ k.writing = {}
        /\ s2' = s2 /\ s1' = s1 /\ s4' = s4 /\ s5' = s5 /\ s6' = s6
    BY <1>13 DEF Status!Indexed, Status!Indexing, Status!Running
  <2>2. x \in Job /\ x.rev = j.rev /\ x.stage = "INDEXED" /\ x.status = j.status /\ x.run = k
    BY <1>6
  <2> HIDE DEF x
  <2>3. JobOK(x, s1, s4)
    BY <1>1, <2>1, <2>2 DEF JobOK
  <2> QED
    BY <1>1, <2>1, <2>2, <2>3, JobMoves
<1>14. CASE Status!Succeed(i)
  BY <1>4, <1>14 DEF Status!Succeed, Status!Running, Statuses
<1>15. CASE Status!Fail(i)
  BY <1>5, <1>15 DEF Status!Fail
<1>16. CASE Status!LoseLease(i)
  <2>1. \A w \in s6' : w \in s6 \/ (w.item \in k.writing /\ w.rev = k.rev)
    BY <1>16 DEF Status!LoseLease, Status!Writing
  <2> QED
    BY <1>5, <1>16, <2>1 DEF Status!LoseLease
<1> QED
  BY <1>7, <1>8, <1>9, <1>10, <1>11, <1>12, <1>13, <1>14, <1>15, <1>16 DEF JobStep

\* The steps on the meeting and its jobs.
LEMMA StoreSteps ==
  ASSUME Stored,
         \/ Status!Revise \/ Status!ExtractNow \/ Status!Refresh \/ Status!WriteLate
         \/ \E i \in DOMAIN s3 : JobStep(i)
  PROVE  Stored' /\ StoreMoves
<1>1. CASE Status!Revise
  <2>1. s1 + 1 \in 1 .. LastRevision /\ s1' = s1 + 1 /\ s1 <= s1 + 1
    BY <1>1, StatusAssumption DEF Stored, Status!Revise
  <2> QED
    BY <1>1, <2>1, Enqueues DEF Status!Revise
<1>2. CASE Status!ExtractNow
  BY <1>2 DEF Status!ExtractNow, Stored, StoreMoves, Status!SucceededRevisions
<1>3. CASE Status!Refresh
  BY <1>3, Enqueues DEF Status!Refresh, Stored
<1>4. CASE Status!WriteLate
  <2>1. PICK w \in s6 : s4' = [s4 EXCEPT ![w.item] = w.rev] /\ s6' \subseteq s6
    BY <1>4 DEF Status!WriteLate
  <2>2. s1' = s1 /\ s2' = s2 /\ s3' = s3 /\ s5' = s5 /\ s1 \in Nat
    BY <1>4 DEF Status!WriteLate, Stored
  <2>3. w.item \in Evidence /\ w.rev \in 1 .. s1 /\ s4 \in [Evidence -> Nat]
    BY DEF Stored
  <2>4. s4' \in [Evidence -> Nat] /\ \A e \in Evidence : s4'[e] = IF e = w.item THEN w.rev ELSE s4[e]
    BY <2>1, <2>2, <2>3
  <2>5. \A h \in DOMAIN s3 : s3[h] \in Job /\ JobOK(s3[h], s1, s4)
    BY LenProperties, ElementOfSeq DEF Stored
  <2>6. \A h \in DOMAIN s3 : JobOK(s3[h], s1, s4')
    <3>1. \A e \in Evidence : s4[e] > 0 => s4'[e] > 0
      BY <2>3, <2>4
    <3> QED
      BY <2>2, <2>5, <3>1, JobStays
  <2>7. \A e \in Evidence : s4'[e] \in 0 .. s1
    BY <2>2, <2>3, <2>4 DEF Stored
  <2>8. Stored'
    BY <2>1, <2>2, <2>4, <2>6, <2>7 DEF Stored
  <2>9. \A e \in Evidence : s4'[e] = s4[e] \/ (s4'[e] \in 1 .. s1 /\ Flies(s3, s6, e, s4'[e]))
    BY <2>3, <2>4 DEF Flies
  <2>10. \A e \in Evidence, q \in 1 .. s1' : Flies(s3', s6', e, q) => Flies(s3, s6, e, q)
    BY <2>1, <2>2 DEF Flies
  <2>11. /\ Status!SucceededRevisions' = Status!SucceededRevisions
         /\ \A r, st : Ended(s3, r, st) => Ended(s3', r, st)
         /\ s2 \in Nat
    BY <2>2 DEF Status!SucceededRevisions, Stored
  <2> QED
    BY <2>2, <2>8, <2>9, <2>10, <2>11 DEF StoreMoves
<1> QED
  BY <1>1, <1>2, <1>3, <1>4, JobSteps

\* Such a step leaves what the request relies on.
LEMMA StoreKeeps ==
  ASSUME StatusInv, Stored', StoreMoves
  PROVE  StatusInv'
<1>1. s1 \in Nat /\ s2 \in Nat /\ s1' \in Nat /\ s2' \in Nat /\ s1 <= s1' /\ s2 <= s2' /\ s5' = s5
  BY DEF StatusInv, Stored, StoreMoves
<1>2. Highest'
  <2>1. {0} \cup Status!SucceededRevisions \in SUBSET Nat
    BY <1>1 DEF StatusInv, Stored, JobOK, Status!SucceededRevisions
  <2>2. CASE Status!SucceededRevisions' = Status!SucceededRevisions
    BY <2>2 DEF StatusInv, Highest
  <2>3. ASSUME NEW r \in 1 .. s1', Status!SucceededRevisions' = Status!SucceededRevisions \cup {r}
        PROVE  Highest'
    <3>1. HasMax(({0} \cup Status!SucceededRevisions) \cup {r})
      BY <1>1, <2>1, MaxGrows DEF StatusInv, Highest
    <3>2. ({0} \cup Status!SucceededRevisions) \cup {r} = {0} \cup Status!SucceededRevisions'
      BY <2>3
    <3> QED
      BY <3>1, <3>2 DEF Highest
  <2> QED
    BY <2>2, <2>3 DEF StoreMoves
<1>3. \A r, st : st \in {"SUCCEEDED", "FAILED"} /\ Ended(s3, r, st) => Ended(s3', r, st)
  BY DEF StoreMoves
<1>4. ASSUME NEW r \in 1 .. s1, NEW CONSTANT u, Processed(r, u) PROVE Processed(r, u)'
  <2>1. ASSUME NEW e \in Evidence \ u PROVE s4'[e] = 0 \/ s4'[e] >= r
    BY <1>1, <1>4, <2>1 DEF StoreMoves, Processed, Protected, StatusInv, Stored
  <2>2. ASSUME NEW e \in Evidence \ u, NEW q \in 1 .. s1', Flies(s3', s6', e, q) PROVE q >= r
    <3>1. Flies(s3, s6, e, q) \/ q = s1
      BY <2>2 DEF StoreMoves
    <3>2. CASE Flies(s3, s6, e, q) /\ q \in 1 .. s1
      BY <1>4, <2>2, <3>2 DEF Processed, Protected
    <3>3. CASE q >= s1
      BY <1>1, <3>3
    <3> QED
      BY <1>1, <3>1, <3>2, <3>3
  <2> QED
    BY <1>1, <1>3, <1>4, <2>1, <2>2 DEF Processed, Protected
<1>5. CASE s5.pc = "idle"
  BY <1>1, <1>2, <1>5 DEF StatusInv, HasRead
<1>6. CASE s5.pc # "idle"
  <2>1. s5.source \in 1 .. s1 /\ s5.source \in 1 .. s1' /\ HasRead
    BY <1>1, <1>6 DEF StatusInv, HasRead
  <2>2. s5.pc \in {"derived", "semantic"} => s5.extraction \in 0 .. s2'
    BY <1>1, <2>1 DEF HasRead
  <2>3. s5.pc \in {"semantic", "label"} =>
          s5.derived = 0 \/ (s5.derived \in 1 .. s1' /\ Ended(s3', s5.derived, "SUCCEEDED"))
    BY <1>1, <1>3, <2>1 DEF HasRead
  <2>4. s5.pc = "label" /\ s5.current = TRUE => Processed(s5.source, s5.underway)'
    BY <1>1, <1>4, <2>1 DEF HasRead
  <2>5. s5.pc = "answered" =>
          /\ s5.status = "CURRENT" => Processed(s5.source, s5.underway)'
          /\ s5.status = "FAILED" => Ended(s3', s5.source, "FAILED")
          /\ s5.status = "STALE" => \E r \in 1 .. s5.source - 1 : Ended(s3', r, "SUCCEEDED")
    BY <1>1, <1>3, <1>4, <2>1 DEF HasRead
  <2>6. HasRead'
    BY <1>1, <2>1, <2>2, <2>3, <2>4, <2>5 DEF HasRead
  <2> QED
    BY <1>2, <2>6 DEF StatusInv
<1> QED
  BY <1>5, <1>6

\* The steps of the request; they store nothing.
LEMMA RequestSteps ==
  ASSUME StatusInv,
         \/ Status!Ask \/ Status!ReadExtraction \/ Status!ReadDerived \/ Status!ReadSemantic
         \/ Status!Answer \/ Status!Done
  PROVE  StatusInv'
<1>1. s1' = s1 /\ s2' = s2 /\ s3' = s3 /\ s4' = s4 /\ s6' = s6
  BY DEF Status!Ask, Status!ReadExtraction, Status!ReadDerived, Status!ReadSemantic,
         Status!Answer, Status!Done
<1>2. Stored' /\ Highest' /\ (\A r, u : Processed(r, u) => Processed(r, u)')
  BY <1>1 DEF StatusInv, Stored, Highest, Processed, Protected, Status!SucceededRevisions
<1>3. s1 \in Nat /\ s2 \in Nat /\ HasRead
  BY DEF StatusInv, Stored
<1>4. SUFFICES HasRead'
  BY <1>2 DEF StatusInv
<1>5. CASE Status!Ask
  BY <1>1, <1>5 DEF Status!Ask, HasRead, StatusInv, Stored
<1>6. CASE Status!ReadExtraction
  BY <1>1, <1>3, <1>6 DEF Status!ReadExtraction, HasRead, StatusInv, Stored
<1>7. CASE Status!ReadDerived
  <2> DEFINE S == {0} \cup Status!SucceededRevisions
             m == Status!Max(S)
  <2>1. S \in SUBSET Nat /\ \A r \in Status!SucceededRevisions : r \in 1 .. s1 /\ Ended(s3, r, "SUCCEEDED")
    BY <1>3 DEF StatusInv, Stored, JobOK, Status!SucceededRevisions, Ended
  <2>2. HasMax(S)
    BY DEF StatusInv, Highest
  <2>3. m \in S
    <3> HIDE DEF S
    <3> QED
      BY <2>1, <2>2, MaxIs
  <2>4. m = 0 \/ (m \in 1 .. s1 /\ Ended(s3, m, "SUCCEEDED"))
    <3> HIDE DEF m
    <3> QED
      BY <2>1, <2>3
  <2>5. s5' = [pc |-> "semantic", source |-> s5.source, extraction |-> s5.extraction, derived |-> m]
    BY <1>7 DEF Status!ReadDerived
  <2> HIDE DEF m
  <2> QED
    BY <1>1, <1>3, <1>7, <2>4, <2>5 DEF Status!ReadDerived, HasRead
<1>8. CASE Status!ReadSemantic
  <2> DEFINE stamps == {s4[e] : e \in Evidence} \ {0}
             current == /\ s5.extraction = s5.source
                        /\ s5.derived = s5.source
                        /\ Status!SemanticRevision = s5.source
             under == Status!UnderWay(s5.source)
  <2>1. s5' = [pc |-> "label", source |-> s5.source, derived |-> s5.derived,
               underway |-> under, current |-> current]
    BY <1>8 DEF Status!ReadSemantic
  <2>2. /\ s5.source \in 1 .. s1 /\ s5.extraction \in 0 .. s2
        /\ s5.derived = 0 \/ (s5.derived \in 1 .. s1 /\ Ended(s3, s5.derived, "SUCCEEDED"))
    BY <1>3, <1>8 DEF HasRead, Status!ReadSemantic
  <2>3. ASSUME current PROVE Processed(s5.source, under)
    <3>1. Status!SemanticRevision = s5.source /\ s5.source # 0
      BY <1>3, <2>2, <2>3
    <3>2. \A r, q \in stamps : r = q
      BY <3>1 DEF Status!SemanticRevision
    <3>3. Status!Max({0} \cup stamps) = s5.source
      BY <3>1, <3>2 DEF Status!SemanticRevision
    <3>4. {0} \cup stamps \in SUBSET Nat
      BY DEF StatusInv, Stored
    <3>5. HasMax({0} \cup stamps)
      <4>1. CASE stamps = {}
        BY <4>1 DEF HasMax
      <4>2. ASSUME NEW r \in stamps PROVE HasMax({0} \cup stamps)
        BY <3>2, <3>4, <4>2 DEF HasMax
      <4> QED
        BY <4>1, <4>2
    <3>6. \A r \in {0} \cup stamps : s5.source >= r /\ s5.source \in {0} \cup stamps
      <4> HIDE DEF stamps
      <4> QED
        BY <3>3, <3>4, <3>5, MaxIs
    <3>7. \A r \in stamps : r = s5.source
      BY <3>1, <3>2, <3>6
    <3>8. \A e \in Evidence : s4[e] = 0 \/ s4[e] >= s5.source
      BY <2>2, <3>7
    <3>9. Ended(s3, s5.source, "SUCCEEDED") /\ s2 >= s5.source
      BY <1>3, <2>2, <2>3, <3>1
    <3>10. ASSUME NEW e \in Evidence \ under, NEW q \in 1 .. s1, Flies(s3, s6, e, q)
           PROVE  q >= s5.source
      <4> SUFFICES ASSUME q < s5.source PROVE FALSE
        BY <1>3, <2>2
      <4> DEFINE w == [item |-> e, rev |-> q]
                 flying == s6 \cup UNION {Status!Writing(i) : i \in DOMAIN s3}
      <4>1. CASE \E v \in s6 : v.item = e /\ v.rev = q
        BY <4>1, <3>10 DEF Status!UnderWay
      <4>2. CASE \E i \in DOMAIN s3 : e \in s3[i].run.writing /\ s3[i].run.rev = q
        <5>1. \E i \in DOMAIN s3 : w \in Status!Writing(i)
          BY <4>2 DEF Status!Writing
        <5>2. w \in flying /\ w.rev < s5.source /\ w.item = e
          BY <5>1
        <5>3. e \in under
          <6> HIDE DEF w
          <6> QED
            BY <5>2 DEF Status!UnderWay
        <5> QED
          BY <5>3
      <4> QED
        BY <3>10, <4>1, <4>2 DEF Flies
    <3> QED
      BY <3>8, <3>9, <3>10 DEF Processed, Protected
  <2> HIDE DEF current, under
  <2>4. /\ s5'.pc = "label" /\ s5'.source = s5.source /\ s5'.derived = s5.derived
        /\ s5'.underway = under /\ s5'.current = current
    BY <2>1
  <2>5. s5'.current = TRUE => Processed(s5.source, s5.underway)'
    BY <2>3, <2>4, <1>1 DEF Processed, Protected
  <2> QED
    BY <1>1, <2>2, <2>4, <2>5 DEF HasRead
<1>9. CASE Status!Answer
  <2> DEFINE status == Status!Label(s5.source, s5.derived, s5.current)
  <2>1. s5.pc = "label" /\ s5' = [pc |-> "answered", source |-> s5.source,
                                 underway |-> s5.underway, status |-> status]
    BY <1>9 DEF Status!Answer
  <2>2. /\ status = "CURRENT" => s5.current
        /\ status = "FAILED" => Ended(s3, s5.source, "FAILED")
        /\ status = "STALE" => s5.derived > 0 /\ s5.derived < s5.source
    BY DEF Status!Label, Ended
  <2> HIDE DEF status
  <2>3. /\ s5'.pc = "answered" /\ s5'.source = s5.source /\ s5'.underway = s5.underway
        /\ s5'.status = status
    BY <2>1
  <2> QED
    BY <1>1, <1>2, <1>3, <2>1, <2>2, <2>3 DEF HasRead
<1>10. CASE Status!Done
  BY <1>10 DEF Status!Done, Status!Idle, HasRead
<1> QED
  BY <1>5, <1>6, <1>7, <1>8, <1>9, <1>10

\* What the invariant says of the answer.
LEMMA StatusClaim ==
  StatusInv => Status!TypeOK /\ Status!CurrentIsProcessed /\ Status!LabelHasReason
<1> SUFFICES ASSUME StatusInv
             PROVE  Status!TypeOK /\ Status!CurrentIsProcessed /\ Status!LabelHasReason
  OBVIOUS
<1>1. Status!TypeOK
  BY DEF StatusInv, Stored, JobOK, Status!TypeOK
<1>2. \A r, st : Ended(s3, r, st) => Status!HasJob(r, {st})
  BY DEF Ended, Status!HasJob
<1>3. Status!CurrentIsProcessed
  <2> SUFFICES ASSUME Status!Answered("CURRENT")
               PROVE  /\ s2 >= s5.source
                      /\ \E i \in DOMAIN s3 :
                            /\ s3[i].rev = s5.source /\ s3[i].status = "SUCCEEDED"
                            /\ s3[i].run.rev >= s5.source
                            /\ \A e \in s3[i].run.found : s4[e] > 0
                      /\ \A e \in Evidence \ s5.underway : s4[e] = 0 \/ s4[e] >= s5.source
    BY DEF Status!CurrentIsProcessed
  <2>1. Processed(s5.source, s5.underway)
    BY DEF Status!Answered, StatusInv, HasRead
  <2>2. PICK i \in DOMAIN s3 : s3[i].rev = s5.source /\ s3[i].status = "SUCCEEDED"
    BY <2>1 DEF Processed, Ended
  <2>3. JobOK(s3[i], s1, s4)
    BY DEF StatusInv, Stored
  <2>4. s3[i].run.rev >= s5.source /\ \A e \in s3[i].run.found : s4[e] > 0
    BY <2>2, <2>3 DEF JobOK
  <2> QED
    BY <2>1, <2>2, <2>4 DEF Processed, Protected
<1>4. Status!LabelHasReason
  BY <1>2 DEF Status!LabelHasReason, Status!Answered, StatusInv, HasRead
<1> QED
  BY <1>1, <1>3, <1>4

\* Every step of the status keeps its invariant.
LEMMA StatusStep == StatusInv /\ Status!Next => StatusInv'
<1> SUFFICES ASSUME StatusInv, Status!Next PROVE StatusInv'
  OBVIOUS
<1>1. CASE \/ Status!Revise \/ Status!ExtractNow \/ Status!Refresh \/ Status!WriteLate
           \/ \E i \in DOMAIN s3 : JobStep(i)
  <2>1. Stored
    BY DEF StatusInv
  <2>2. Stored' /\ StoreMoves
    BY <1>1, <2>1, StoreSteps
  <2> QED
    BY <2>2, StoreKeeps
<1>2. CASE \/ Status!Ask \/ Status!ReadExtraction \/ Status!ReadDerived \/ Status!ReadSemantic
           \/ Status!Answer \/ Status!Done
  BY <1>2, RequestSteps
<1> QED
  BY <1>1, <1>2 DEF Status!Next, JobStep

-----------------------------------------------------------------------------
(* The index: its three instances, with the proofs of SemanticIndexProofs. *)

WritersP == INSTANCE SemanticIndexProofs WITH
    Cleaners <- {}, Evidence <- {1, 2}, MaxRev <- 2, Mentions <- {1, 2}, Of <- Revisions,
    Scope <- Asked, Items <- Hashes, ReadMayFail <- FALSE, MaxFailures <- 0,
    rev <- s1, file <- s2, lock <- s3, failures <- s4, actor <- s5, stored <- s6, was <- s7
UnreadableP == INSTANCE SemanticIndexProofs WITH
    Indexers <- {Indexer}, Evidence <- {1, 2}, MaxRev <- 2, Mentions <- {1, 2}, Of <- Revisions,
    Scope <- Asked, Items <- Hashes, ReadMayFail <- TRUE, MaxFailures <- 1,
    rev <- s1, file <- s2, lock <- s3, failures <- s4, actor <- s5, stored <- s6, was <- s7
AloneP == INSTANCE SemanticIndexProofs WITH
    Indexers <- {Indexer}, Cleaners <- {}, Evidence <- {1, 2}, MaxRev <- 2, Mentions <- {1, 2, 3},
    Of <- Revisions, Scope <- Asked, Items <- Hashes, ReadMayFail <- FALSE, MaxFailures <- 0,
    rev <- s1, file <- s2, lock <- s3, failures <- s4, actor <- s5, stored <- s6, was <- s7

\* The evidence of the run is as SemanticIndexProofs assumes it, whatever is stored.
LEMMA ItemsOK == WritersP!ContentOK /\ UnreadableP!ContentOK /\ AloneP!ContentOK
<1>1. ASSUME NEW s \in SUBSET (1 .. 3)
      PROVE  Asked[s] \subseteq {1, 2} /\ Hashes[s] \in [{1, 2} -> Nat]
  <2>1. Asked[s] = IF s = {} THEN {2} ELSE {1, 2}
    BY DEF Asked
  <2> DEFINE g == IF 2 \in s THEN 2 ELSE IF 1 \in s THEN 1 ELSE 0
             h == IF 1 \notin s THEN 0 ELSE IF 3 \in s THEN 2 ELSE 1
  <2>2. Hashes[s] = <<g, h>> /\ g \in Nat /\ h \in Nat
    BY DEF Hashes
  <2> HIDE DEF g, h
  <2>3. <<g, h>> \in [{1, 2} -> Nat]
    BY <2>2
  <2> QED
    BY <2>1, <2>2, <2>3
<1>2. {1, 2} \in SUBSET (1 .. 3) /\ {1, 2, 3} \in SUBSET (1 .. 3)
  OBVIOUS
<1>3. \A s \in SUBSET {1, 2, 3} : Asked[s] \subseteq {1, 2} /\ Hashes[s] \in [{1, 2} -> Nat]
  BY <1>1, <1>2
<1>4. \A s \in SUBSET {1, 2} : Asked[s] \subseteq {1, 2} /\ Hashes[s] \in [{1, 2} -> Nat]
  BY <1>3
<1> QED
  BY <1>3, <1>4 DEF WritersP!ContentOK, UnreadableP!ContentOK, AloneP!ContentOK

\* The steps and the first states of Writers.
LEMMA SameWriters ==
  (Writers!Init => WritersP!Init) /\ (Writers!Next => WritersP!Next)
  BY DEF Writers!Next, WritersP!Next, Writers!Begin, WritersP!Begin,
         Writers!Select, WritersP!Select, Writers!Fetch, WritersP!Fetch,
         Writers!Lookup, WritersP!Lookup, Writers!Guard, WritersP!Guard,
         Writers!Embed, WritersP!Embed, Writers!Finish, WritersP!Finish,
         Writers!Remove, WritersP!Remove, Writers!ReadFile, WritersP!ReadFile,
         Writers!FailToRead, WritersP!FailToRead, Writers!WriteTemporary,
         WritersP!WriteTemporary, Writers!Replace, WritersP!Replace,
         Writers!Stop, WritersP!Stop, Writers!Revise, WritersP!Revise,
         Writers!Resolve, WritersP!Resolve, Writers!Reopen, WritersP!Reopen,
         Writers!Note, WritersP!Note, Writers!At, WritersP!At, Writers!Become,
         WritersP!Become, Writers!Accepted, WritersP!Accepted, Writers!Incoming,
         WritersP!Incoming, Writers!Loaded, WritersP!Loaded, Writers!Actors,
         WritersP!Actors, Writers!Absent, WritersP!Absent, Writers!Idle,
         WritersP!Idle, Writers!Broken, WritersP!Broken, Writers!meeting,
         WritersP!meeting, Writers!vars, WritersP!vars, Writers!Init,
         WritersP!Init

\* The steps and the first states of Unreadable.
LEMMA SameUnreadable ==
  (Unreadable!Init => UnreadableP!Init) /\ (Unreadable!Next => UnreadableP!Next)
  BY DEF Unreadable!Next, UnreadableP!Next, Unreadable!Begin, UnreadableP!Begin,
         Unreadable!Select, UnreadableP!Select, Unreadable!Fetch,
         UnreadableP!Fetch, Unreadable!Lookup, UnreadableP!Lookup,
         Unreadable!Guard, UnreadableP!Guard, Unreadable!Embed,
         UnreadableP!Embed, Unreadable!Finish, UnreadableP!Finish,
         Unreadable!Remove, UnreadableP!Remove, Unreadable!ReadFile,
         UnreadableP!ReadFile, Unreadable!FailToRead, UnreadableP!FailToRead,
         Unreadable!WriteTemporary, UnreadableP!WriteTemporary,
         Unreadable!Replace, UnreadableP!Replace, Unreadable!Stop,
         UnreadableP!Stop, Unreadable!Revise, UnreadableP!Revise,
         Unreadable!Resolve, UnreadableP!Resolve, Unreadable!Reopen,
         UnreadableP!Reopen, Unreadable!Note, UnreadableP!Note, Unreadable!At,
         UnreadableP!At, Unreadable!Become, UnreadableP!Become,
         Unreadable!Accepted, UnreadableP!Accepted, Unreadable!Incoming,
         UnreadableP!Incoming, Unreadable!Loaded, UnreadableP!Loaded,
         Unreadable!Actors, UnreadableP!Actors, Unreadable!Absent,
         UnreadableP!Absent, Unreadable!Idle, UnreadableP!Idle,
         Unreadable!Broken, UnreadableP!Broken, Unreadable!meeting,
         UnreadableP!meeting, Unreadable!vars, UnreadableP!vars, Unreadable!Init,
         UnreadableP!Init

\* The steps and the first states of Alone.
LEMMA SameAlone ==
  (Alone!Init => AloneP!Init) /\ (Alone!Next => AloneP!Next)
  BY DEF Alone!Next, AloneP!Next, Alone!Begin, AloneP!Begin, Alone!Select,
         AloneP!Select, Alone!Fetch, AloneP!Fetch, Alone!Lookup, AloneP!Lookup,
         Alone!Guard, AloneP!Guard, Alone!Embed, AloneP!Embed, Alone!Finish,
         AloneP!Finish, Alone!Remove, AloneP!Remove, Alone!ReadFile,
         AloneP!ReadFile, Alone!FailToRead, AloneP!FailToRead,
         Alone!WriteTemporary, AloneP!WriteTemporary, Alone!Replace,
         AloneP!Replace, Alone!Stop, AloneP!Stop, Alone!Revise, AloneP!Revise,
         Alone!Resolve, AloneP!Resolve, Alone!Reopen, AloneP!Reopen, Alone!Note,
         AloneP!Note, Alone!At, AloneP!At, Alone!Become, AloneP!Become,
         Alone!Accepted, AloneP!Accepted, Alone!Incoming, AloneP!Incoming,
         Alone!Loaded, AloneP!Loaded, Alone!Actors, AloneP!Actors, Alone!Absent,
         AloneP!Absent, Alone!Idle, AloneP!Idle, Alone!Broken, AloneP!Broken,
         Alone!meeting, AloneP!meeting, Alone!vars, AloneP!vars, Alone!Init,
         AloneP!Init

-----------------------------------------------------------------------------
\* The invariants of the parts these properties are about.
PartsInv ==
    /\ part = "status"     => StatusInv
    /\ part = "writers"    => WritersP!IInv /\ WritersP!Fresh
    /\ part = "unreadable" => UnreadableP!IInv /\ UnreadableP!Fresh
    /\ part = "alone"      => AloneP!IInv /\ AloneP!Fresh /\ AloneP!AInv

\* Each part starts in its invariant.
LEMMA PartsInit == Init => PartsInv
<1> SUFFICES ASSUME Init PROVE PartsInv
  OBVIOUS
<1>1. /\ part = "status" => Status!Init
      /\ part = "writers" => WritersP!Init
      /\ part = "unreadable" => UnreadableP!Init
      /\ part = "alone" => AloneP!Init
  BY SameWriters, SameUnreadable, SameAlone DEF Init
<1> QED
  BY <1>1, ItemsOK, StatusInit, WritersP!InitHolds, UnreadableP!InitHolds, AloneP!InitHolds
     DEF PartsInv

\* Every step keeps them; as long as reads succeed it leaves the records of others
\* alone.
LEMMA PartsStep ==
  ASSUME PartsInv, [Next]_vars
  PROVE  /\ PartsInv'
         /\ part = "writers" => Writers!OthersSurvive
         /\ part = "unreadable" => Unreadable!OthersSurvive
<1>1. part' = part
  BY DEF Next, vars, Rest6, Rest7, Rest8
<1>2. CASE part = "status"
  <2>1. Status!Next \/ UNCHANGED <<s1, s2, s3, s4, s5, s6>>
    BY <1>2 DEF Next, vars
  <2>2. CASE Status!Next
    BY <1>1, <1>2, <2>2, StatusStep DEF PartsInv
  <2>3. CASE UNCHANGED <<s1, s2, s3, s4, s5, s6>>
    <3>1. StatusInv
      BY <1>2 DEF PartsInv
    <3>2. StatusInv'
      BY <2>3, <3>1
         DEF StatusInv, Stored, JobOK, Highest, HasRead, Processed, Protected, Flies, Ended,
             Status!SucceededRevisions
    <3> QED
      BY <1>1, <1>2, <3>2 DEF PartsInv
  <2> QED
    BY <1>2, <2>1, <2>2, <2>3
<1>3. CASE part = "writers"
  <2>1. WritersP!IInv /\ WritersP!Fresh /\ [WritersP!Next]_(WritersP!vars) /\ WritersP!ContentOK
    BY <1>3, SameWriters, ItemsOK DEF PartsInv, Next, vars, WritersP!vars
  <2>2. WritersP!IInv'
    BY <2>1, WritersP!StepHolds
  <2>3. WritersP!Fresh' /\ WritersP!OthersSurvive
    BY <2>1, WritersP!FreshHolds
  <2>4. Writers!OthersSurvive
    BY <2>3 DEF Writers!OthersSurvive, WritersP!OthersSurvive, Writers!At, WritersP!At,
                Writers!Actors, WritersP!Actors
  <2> QED
    BY <1>1, <1>3, <2>2, <2>3, <2>4 DEF PartsInv
<1>4. CASE part = "unreadable"
  <2>1. /\ UnreadableP!IInv /\ UnreadableP!Fresh /\ [UnreadableP!Next]_(UnreadableP!vars)
        /\ UnreadableP!ContentOK
    BY <1>4, SameUnreadable, ItemsOK DEF PartsInv, Next, vars, UnreadableP!vars
  <2>2. UnreadableP!IInv'
    BY <2>1, UnreadableP!StepHolds
  <2>3. UnreadableP!Fresh' /\ UnreadableP!OthersSurvive
    BY <2>1, UnreadableP!FreshHolds
  <2>4. Unreadable!OthersSurvive
    BY <2>3 DEF Unreadable!OthersSurvive, UnreadableP!OthersSurvive, Unreadable!At,
                UnreadableP!At, Unreadable!Actors, UnreadableP!Actors
  <2> QED
    BY <1>1, <1>4, <2>2, <2>3, <2>4 DEF PartsInv
<1>5. CASE part = "alone"
  <2>1. /\ AloneP!IInv /\ AloneP!Fresh /\ AloneP!AInv /\ [AloneP!Next]_(AloneP!vars)
        /\ AloneP!ContentOK
    BY <1>5, SameAlone, ItemsOK DEF PartsInv, Next, vars, AloneP!vars
  <2>2. AloneP!ReadsHold /\ AloneP!OneRun
    BY DEF AloneP!ReadsHold, AloneP!OneRun
  <2>3. AloneP!IInv' /\ AloneP!Fresh' /\ AloneP!AInv'
    BY <2>1, <2>2, AloneP!StepHolds, AloneP!FreshHolds, AloneP!AloneHolds
  <2> QED
    BY <1>1, <1>5, <2>3 DEF PartsInv
<1> QED
  BY <1>1, <1>2, <1>3, <1>4, <1>5 DEF PartsInv

\* What the invariants say of the states.
LEMMA PartsClaim ==
  PartsInv => /\ StatusIsTrue
              /\ part = "writers"    => Writers!TypeOK /\ Writers!StampIsTrue
              /\ part = "unreadable" => Unreadable!TypeOK /\ Unreadable!StampIsTrue
              /\ part = "alone"      => Alone!TypeOK /\ Alone!NoFalseCheckpoint
<1> SUFFICES ASSUME PartsInv
             PROVE  /\ StatusIsTrue
                    /\ part = "writers"    => Writers!TypeOK /\ Writers!StampIsTrue
                    /\ part = "unreadable" => Unreadable!TypeOK /\ Unreadable!StampIsTrue
                    /\ part = "alone"      => Alone!TypeOK /\ Alone!NoFalseCheckpoint
  OBVIOUS
<1>1. StatusIsTrue
  BY StatusClaim DEF PartsInv, StatusIsTrue
<1>2. part = "writers" => WritersP!TypeOK /\ WritersP!StampIsTrue
  BY ItemsOK, WritersP!TypesHold DEF PartsInv
<1>3. part = "unreadable" => UnreadableP!TypeOK /\ UnreadableP!StampIsTrue
  BY ItemsOK, UnreadableP!TypesHold DEF PartsInv
<1>4. part = "alone" => AloneP!TypeOK /\ AloneP!NoFalseCheckpoint
  BY ItemsOK, AloneP!TypesHold, AloneP!AloneFollows DEF PartsInv
<1>5. (WritersP!TypeOK => Writers!TypeOK) /\ (WritersP!StampIsTrue => Writers!StampIsTrue)
  BY DEF Writers!TypeOK, WritersP!TypeOK, Writers!StampIsTrue, WritersP!StampIsTrue,
         Writers!Types, WritersP!Types, Writers!Actors, WritersP!Actors,
         Writers!Said, WritersP!Said
<1>6. /\ UnreadableP!TypeOK => Unreadable!TypeOK
      /\ UnreadableP!StampIsTrue => Unreadable!StampIsTrue
  BY DEF Unreadable!TypeOK, UnreadableP!TypeOK, Unreadable!StampIsTrue, UnreadableP!StampIsTrue,
         Unreadable!Types, UnreadableP!Types, Unreadable!Actors, UnreadableP!Actors,
         Unreadable!Said, UnreadableP!Said
<1>7. (AloneP!TypeOK => Alone!TypeOK) /\ (AloneP!NoFalseCheckpoint => Alone!NoFalseCheckpoint)
  BY DEF Alone!TypeOK, AloneP!TypeOK, Alone!NoFalseCheckpoint, AloneP!NoFalseCheckpoint,
         Alone!Types, AloneP!Types, Alone!Actors, AloneP!Actors, Alone!At, AloneP!At
<1> QED
  BY <1>1, <1>2, <1>3, <1>4, <1>5, <1>6, <1>7

\* The invariants of these parts hold in every reachable state.
THEOREM PartsInvariant == Spec => []PartsInv
<1>1. PartsInv /\ [Next]_vars => PartsInv'
  BY PartsStep
<1> QED
  BY <1>1, PartsInit, PTL DEF Spec

\* CURRENT is said only of a revision that a job of it has processed, at that revision
\* or a later one, with nothing older in the index but what was under way; FAILED and
\* STALE have a reason that lasts; for any number of revisions, jobs and refreshes.
THEOREM StatusTrue == Spec => []StatusIsTrue
BY PartsInvariant, PartsClaim, PTL

\* The index, for any runs and removals: a record carries what its evidence said at
\* some moment while the meeting was at the revision of the stamp, also after reads
\* that failed; before one fails a write is of one record; and with one run at a time
\* what it has passed is in the file.
THEOREM Index == Spec => IndexKept
<1>1. PartsInv /\ [Next]_vars => [/\ part = "writers" => Writers!OthersSurvive
                                  /\ part = "unreadable" => Unreadable!OthersSurvive]_vars
  BY PartsStep
<1> QED
  BY <1>1, PartsClaim, PartsInvariant, PTL DEF Spec, IndexKept

-----------------------------------------------------------------------------
(* The largest and the smallest of numbers.                                *)

\* Numbers and the order below them.
Below == {p \in Nat \X Nat : p[1] < p[2]}
\* The order is well-founded ...
LEMMA Founded == IsWellFoundedOn(Below, Nat)
<1>1. IsWellFoundedOn(OpToRel(<, Nat), Nat)
  BY NatLessThanWellFounded, Zenon
<1>2. OpToRel(<, Nat) = Below
  BY Zenon DEF OpToRel, Below
<1> QED
  BY <1>1, <1>2
\* ... so that a set of numbers has a least one.
LEMMA HasLeast ==
  ASSUME NEW S \in SUBSET Nat, S # {}
  PROVE  \E m \in S : \A n \in S : m <= n
<1>1. PICK m \in S : \A n \in S : <<n, m>> \notin Below
  BY Founded, WFMin
<1> SUFFICES ASSUME NEW n \in S, ~ (m <= n) PROVE FALSE
  BY <1>1
<1>2. n \in Nat /\ m \in Nat /\ n < m
  OBVIOUS
<1>3. <<n, m>> \in Nat \X Nat /\ <<n, m>>[1] < <<n, m>>[2]
  BY <1>2
<1>4. <<n, m>> \in Below
  BY <1>3 DEF Below
<1> QED
  BY <1>1, <1>4

\* A finite set of numbers has a maximum: of those without, one has the fewest elements.
LEMMA FiniteHasMax ==
  ASSUME NEW S \in SUBSET Nat, IsFiniteSet(S), S # {}
  PROVE  HasMax(S)
<1> DEFINE Bad(T) == T \in SUBSET Nat /\ IsFiniteSet(T) /\ T # {} /\ ~ HasMax(T)
           sizes  == {n \in Nat : \E T \in SUBSET Nat : Bad(T) /\ Cardinality(T) = n}
<1>1. SUFFICES ASSUME Bad(S) PROVE FALSE
  OBVIOUS
<1>2. sizes # {} /\ sizes \in SUBSET Nat
  BY <1>1, FS_CardinalityType
<1>3. PICK n \in sizes : \A k \in sizes : n <= k
  BY <1>2, HasLeast
<1>4. PICK T \in SUBSET Nat : Bad(T) /\ Cardinality(T) = n
  BY <1>3
<1>5. PICK x \in T : TRUE
  BY <1>4
<1> DEFINE U == T \ {x}
<1>6. U \in SUBSET Nat /\ IsFiniteSet(U) /\ Cardinality(U) = n - 1 /\ n \in Nat
  BY <1>3, <1>4, <1>5, FS_RemoveElement
<1>7. T = U \cup {x}
  BY <1>5
<1>8. CASE U = {}
  <2>1. T = {x} /\ x \in Nat
    BY <1>5, <1>7, <1>8
  <2> QED
    BY <1>4, <2>1 DEF HasMax
<1>9. CASE U # {}
  <2>1. HasMax(U)
    <3>1. ASSUME ~ HasMax(U) PROVE FALSE
      <4>1. n - 1 \in Nat
        BY <1>6, FS_CardinalityType
      <4>2. n - 1 \in sizes
        BY <1>6, <1>9, <3>1, <4>1
      <4> QED
        BY <1>3, <1>6, <4>2
    <3> QED
      BY <3>1
  <2> HIDE DEF U
  <2> QED
    BY <1>4, <1>5, <1>6, <1>7, <2>1, MaxGrows
<1> QED
  BY <1>8, <1>9

\* Of the elements of a finite set one has the highest score.
LEMMA HasBest ==
  ASSUME NEW S, IsFiniteSet(S), S # {}, NEW f \in [S -> Nat]
  PROVE  \E x \in S : \A y \in S : f[y] <= f[x]
<1> DEFINE T == {f[x] : x \in S}
<1>1. f \in Surjection(S, T)
  BY DEF Surjection
<1>2. IsFiniteSet(T) /\ T \in SUBSET Nat /\ T # {}
  BY <1>1, FS_Surjection
<1>3. HasMax(T)
  <2> HIDE DEF T
  <2> QED
    BY <1>2, FiniteHasMax
<1>4. PICK m \in T : \A r \in T : m >= r
  BY <1>3 DEF HasMax
<1>5. PICK x \in S : f[x] = m
  BY <1>4
<1>6. \A y \in S : f[y] \in T /\ f[y] \in Nat
  OBVIOUS
<1> QED
  BY <1>2, <1>4, <1>5, <1>6

-----------------------------------------------------------------------------
(* The pipeline: its variables are s1, the revision, s2, the entities, s3, *)
(* the mentions, s4, the dependencies, and s5, the actors.  The runs, W,   *)
(* the requests, R, what is said, S, and what depends, L, are any.         *)

\* The texts of mentions and the names of entities.
Texts == {Apollo, ApolloTeam}
NoText == <<>>

\* A text is not the absence of one, and has tokens of a finite set.
LEMMA TextsAre ==
  /\ NoText \notin Texts
  /\ \A t \in Texts \cup {NoText} : \A i \in DOMAIN t : t[i] \in 1 .. 4
<1>1. /\ Apollo \in Seq(1 .. 4) /\ ApolloTeam \in Seq(1 .. 4) /\ NoText \in Seq(1 .. 4)
      /\ Len(Apollo) = 3 /\ Len(ApolloTeam) = 4 /\ Len(NoText) = 0
  BY DEF Apollo, ApolloTeam, NoText
<1>2. NoText \notin Texts
  <2>1. Len(NoText) # Len(Apollo) /\ Len(NoText) # Len(ApolloTeam)
    BY <1>1
  <2>2. NoText # Apollo /\ NoText # ApolloTeam
    BY <2>1, Zenon
  <2> QED
    BY <2>2, Zenon DEF Texts
<1>3. \A t \in Seq(1 .. 4) : \A i \in DOMAIN t : t[i] \in 1 .. 4
  BY ElementOfSeq, LenProperties
<1> QED
  BY <1>1, <1>2, <1>3 DEF Texts

\* The entity of a name.
LEMMA Found ==
  ASSUME NEW W, NEW R, NEW S, NEW L, NEW n
  PROVE  LET f == Pipeline(W, R, S, L)!Find(n) IN
         \/ f = 0 /\ \A e \in EntityIds : s2[e] # n
         \/ f \in EntityIds /\ f # 0 /\ s2[f] = n
<1> DEFINE same == {e \in EntityIds : s2[e] = n}
<1>1. EntityIds \subseteq Nat \ {0}
  BY PipelineAssumption
<1>2. CASE same = {}
  BY <1>2 DEF Pipeline!Find, Pipeline!None
<1>3. CASE same # {}
  <2>1. \E m \in same : \A k \in same : m <= k
    BY <1>1, <1>3, HasLeast
  <2>2. Pipeline(W, R, S, L)!Min(same) \in same
    BY <2>1 DEF Pipeline!Min
  <2>3. Pipeline(W, R, S, L)!Find(n) = Pipeline(W, R, S, L)!Min(same)
    BY <1>3 DEF Pipeline!Find
  <2> QED
    BY <1>1, <2>2, <2>3
<1> QED
  BY <1>2, <1>3

\* What the policy decides: an entity, if it resolves.
LEMMA Decision ==
  ASSUME NEW W, NEW R, NEW S, NEW L, s2 \in [EntityIds -> Texts \cup {NoText}],
         NEW text \in Texts \cup {NoText}
  PROVE  LET d == Pipeline(W, R, S, L)!Decide(text, Pipeline(W, R, S, L)!Registry) IN
         /\ d.outcome \in {"UNRESOLVED", "AMBIGUOUS", "RESOLVED"}
         /\ d.outcome = "RESOLVED" => d.entity.id \in EntityIds
<1> DEFINE registry == Pipeline(W, R, S, L)!Registry
           short    == Pipeline(W, R, S, L)!Candidates(text, registry)
           score(e) == Pipeline(W, R, S, L)!Score(text, e)
           best     == CHOOSE e \in short : \A o \in short : score(o) <= score(e)
           d        == Pipeline(W, R, S, L)!Decide(text, registry)
<1>1. \A e \in registry : /\ e.id \in EntityIds /\ e.name \in Texts /\ e.aliases = {}
                          /\ e = [id |-> e.id, name |-> s2[e.id], aliases |-> {}]
  BY DEF Pipeline!Registry, NoText
<1>2. short \subseteq registry
  BY DEF Pipeline!Candidates
<1>3. IsFiniteSet(short)
  <2> DEFINE f == [e \in registry |-> e.id]
  <2>1. f \in Injection(registry, EntityIds)
    <3> HIDE DEF registry
    <3> QED
      BY <1>1, Zenon DEF Injection, IsInjective
  <2>2. IsFiniteSet(registry)
    BY <2>1, PipelineAssumption, FS_Injection
  <2> QED
    BY <1>2, <2>2, FS_Subset
<1>4. ASSUME NEW e \in short PROVE score(e) \in Nat
  <2> DEFINE tokens(t) == Pipeline(W, R, S, L)!Tokens(t)
             common    == Cardinality(tokens(text) \cap tokens(e.name))
             r         == Pipeline(W, R, S, L)!RepresentationScore(text, e.name)
  <2>1. e.name \in Texts /\ e.aliases = {}
    BY <1>1, <1>2
  <2>2. \A t \in Texts \cup {NoText} : tokens(t) \subseteq 1 .. 4
    BY TextsAre DEF Pipeline!Tokens
  <2>3. ASSUME NEW T, T \subseteq 1 .. 4 PROVE IsFiniteSet(T) /\ Cardinality(T) \in Nat
    <3>1. IsFiniteSet(1 .. 4)
      <4>1. 1 \in Int /\ 4 \in Int
        OBVIOUS
      <4> QED
        BY <4>1, FS_Interval, Zenon
    <3>2. IsFiniteSet(T)
      BY <2>3, <3>1, FS_Subset
    <3> QED
      BY <3>2, FS_CardinalityType
  <2>4. /\ common \in Nat
        /\ Cardinality(tokens(text)) \in Nat /\ Cardinality(tokens(e.name)) \in Nat
        /\ tokens(text) # {} => Cardinality(tokens(text)) # 0
        /\ tokens(e.name) # {} => Cardinality(tokens(e.name)) # 0
    <3> HIDE DEF tokens
    <3> QED
      BY <2>1, <2>2, <2>3, FS_EmptySet
  <2>5. r \in Nat
    <3>1. r = IF text = e.name THEN 300
              ELSE IF tokens(text) = {} \/ tokens(e.name) = {} THEN 0
              ELSE (180 * common) \div Cardinality(tokens(text))
                   + (120 * common) \div Cardinality(tokens(e.name))
      <4>1. \A T : Pipeline(W, R, S, L)!Cardinality(T) = Cardinality(T)
        BY DEF Pipeline!Cardinality, Cardinality
      <4> QED
        BY <4>1 DEF Pipeline!RepresentationScore, Pipeline!One
    <3>2. \A a, b \in Nat : b # 0 => (180 * a) \div b \in Nat /\ (120 * a) \div b \in Nat
      OBVIOUS
    <3> HIDE DEF r, common, tokens
    <3> QED
      BY <2>4, <3>1, <3>2
  <2>6. score(e) = Pipeline(W, R, S, L)!Max({r})
    BY <2>1 DEF Pipeline!Score, Pipeline!Representations
  <2>7. Pipeline(W, R, S, L)!Max({r}) = r
    <3> HIDE DEF r
    <3> QED
      BY <2>5 DEF Pipeline!Max
  <2> QED
    BY <2>5, <2>6, <2>7
<1>5. CASE short = {}
  <2>1. d = [outcome |-> "UNRESOLVED"]
    BY <1>5 DEF Pipeline!Decide, Pipeline!Unresolved
  <2> QED
    BY <2>1
<1>6. CASE short # {}
  <2> DEFINE f == [e \in short |-> score(e)]
  <2>1. \E e \in short : \A o \in short : f[o] <= f[e]
    <3>1. f \in [short -> Nat]
      BY <1>4
    <3> HIDE DEF f
    <3> QED
      BY <1>3, <1>6, <3>1, HasBest
  <2>2. \E e \in short : \A o \in short : score(o) <= score(e)
    <3> HIDE DEF short, score
    <3> QED
      BY <2>1
  <2>3. best \in short
    <3> HIDE DEF short, score
    <3> QED
      BY <2>2
  <2>4. \/ d = [outcome |-> "UNRESOLVED"] \/ d = [outcome |-> "AMBIGUOUS"]
        \/ d = [outcome |-> "RESOLVED", entity |-> best]
    BY DEF Pipeline!Decide, Pipeline!Unresolved, Pipeline!Ambiguous, Pipeline!Resolved
  <2>5. best.id \in EntityIds
    BY <1>1, <1>2, <2>3
  <2>6. /\ d.outcome \in {"UNRESOLVED", "AMBIGUOUS", "RESOLVED"}
        /\ d.outcome = "RESOLVED" => d.entity.id \in EntityIds
    <3> HIDE DEF best, d
    <3> QED
      BY <2>4, <2>5
  <2> QED
    BY <2>6
<1> QED
  BY <1>5, <1>6


\* What an actor may be at, with its locals.
Idling      == {[pc |-> "idle"]}
Observing   == [pc : {"observe"}, rev : 1 .. 2, todo : SUBSET Texts]
Resolving   == [pc : {"resolve"}, todo : SUBSET MentionIds]
Relating    == [pc : {"relate"}, next : Idling, todo : SUBSET MentionIds]
Saving      == [pc : {"save"}, mention : MentionIds, next : Relating, source : EntityIds,
                todo : SUBSET EntityIds]
Afterwards  == Idling \cup Observing \cup Resolving
Scoring     == [pc : {"score"}, mention : MentionIds, next : Afterwards]
Updating    == {l \in [pc : {"update"}, mention : MentionIds, next : Afterwards,
                       status : {"AMBIGUOUS", "RESOLVED"}, entity : EntityIds \cup {0}] :
                l.status = "RESOLVED" <=> l.entity # 0}
Inserting   == [pc : {"insert"}, name : Texts]
Registering == [pc : {"register"}, text : Texts, entity : EntityIds \cup {0}]
Locals      == Afterwards \cup Relating \cup Saving \cup Scoring \cup Updating
                 \cup Inserting \cup Registering

Row == {m \in [rev : 0 .. 2, text : Texts \cup {NoText},
               status : {"UNRESOLVED", "AMBIGUOUS", "RESOLVED"}, entity : EntityIds \cup {0}] :
        m.status = "RESOLVED" <=> m.entity # 0}

\* The rows and the actors, A, have their types; no row is of a revision to come.
Typed(A) ==
    /\ s1 \in 1 .. 2
    /\ s2 \in [EntityIds -> Texts \cup {NoText}]
    /\ s3 \in [MentionIds -> Row] /\ \A m \in MentionIds : s3[m].rev <= s1
    /\ s4 \in [EntityIds \X EntityIds -> [rev : 0 .. 2, mention : MentionIds \cup {0}]]
    /\ \A p \in EntityIds \X EntityIds : s4[p].rev <= s1
    /\ s5 \in [A -> Locals]

\* What the transcripts and the statements are made of.
Content(S, L) == \A r \in 1 .. 2 : S[r] \subseteq Texts /\ L[r] \subseteq Texts \X Texts

\* The kind of local that goes with a place.
LEMMA Kinds ==
  ASSUME NEW l \in Locals
  PROVE  /\ l.pc = "idle" => l \in Idling
         /\ l.pc = "observe" => l \in Observing
         /\ l.pc = "resolve" => l \in Resolving
         /\ l.pc = "relate" => l \in Relating
         /\ l.pc = "save" => l \in Saving
         /\ l.pc = "score" => l \in Scoring
         /\ l.pc = "update" => l \in Updating
         /\ l.pc = "insert" => l \in Inserting
         /\ l.pc = "register" => l \in Registering
BY DEF Locals, Afterwards, Idling, Observing, Resolving, Relating, Saving, Scoring,
       Updating, Inserting, Registering

\* An actor moves and no row is written.
LEMMA ActorMoves ==
  ASSUME NEW A, Typed(A), NEW a \in A, NEW l \in Locals,
         s5' = [s5 EXCEPT ![a] = l], UNCHANGED <<s1, s2, s3, s4>>
  PROVE  Typed(A)'
BY DEF Typed

\* An actor moves and writes a mention: a new one or one of this revision.
LEMMA MentionWritten ==
  ASSUME NEW A, Typed(A), NEW a \in A, NEW l \in Locals, NEW m \in MentionIds, NEW x \in Row,
         s5' = [s5 EXCEPT ![a] = l], s3' = [s3 EXCEPT ![m] = x], UNCHANGED <<s1, s2, s4>>,
         x.rev = s1
  PROVE  Typed(A)'
<1>1. s3' \in [MentionIds -> Row] /\ \A n \in MentionIds : s3'[n] = IF n = m THEN x ELSE s3[n]
  BY DEF Typed
<1>2. s5' \in [A -> Locals]
  BY DEF Typed
<1>3. \A n \in MentionIds : s3'[n].rev <= s1'
  BY <1>1 DEF Typed
<1> QED
  BY <1>1, <1>2, <1>3 DEF Typed

\* No row is written.
LEMMA NothingTouched ==
  ASSUME NEW W, NEW R, NEW S, NEW L, Typed(W \cup R), UNCHANGED <<s3, s4>>
  PROVE  Pipeline(W, R, S, L)!PastIsFrozen
<1>1. \A m \in MentionIds : s3[m].rev \in Nat
  BY DEF Typed, Row
<1>2. DOMAIN s4 = EntityIds \X EntityIds /\ \A p \in DOMAIN s4 : s4[p].rev \in Nat
  BY DEF Typed
<1>3. \A p \in DOMAIN s4 : s4'[p].rev >= s4[p].rev
  BY <1>2
<1>4. \A m \in MentionIds : s3'[m] = s3[m] /\ (~ (s3[m].rev > 0) => s3[m].rev = 0)
  BY <1>1
<1> QED
  BY <1>3, <1>4 DEF Pipeline!PastIsFrozen, Pipeline!Stored

\* The steps that only read: the actor goes on with what is of its type.
Reads(W, R, S, L, a) ==
    \/ a \in W /\ \/ Pipeline(W, R, S, L)!Observe(a) \/ Pipeline(W, R, S, L)!ListMentions(a)
                  \/ Pipeline(W, R, S, L)!ListResolved(a)
    \/ a \in R /\ (Pipeline(W, R, S, L)!LookUpEntity(a) \/ Pipeline(W, R, S, L)!LookUpMention(a))
    \/ \/ Pipeline(W, R, S, L)!Fetch(a) \/ Pipeline(W, R, S, L)!Scored(a)
       \/ Pipeline(W, R, S, L)!Stop(a) \/ Pipeline(W, R, S, L)!Finish(a)
       \/ Pipeline(W, R, S, L)!ReadStatements(a)

\* They move the actor only.
LEMMA ReadsMove ==
  ASSUME NEW W, NEW R, NEW S, NEW L, Content(S, L), Typed(W \cup R),
         NEW a \in W \cup R, Reads(W, R, S, L, a)
  PROVE  \E l \in Locals : s5' = [s5 EXCEPT ![a] = l] /\ UNCHANGED <<s1, s2, s3, s4>>
<1>1. /\ s1 \in 1 .. 2 /\ s5[a] \in Locals /\ s2 \in [EntityIds -> Texts \cup {NoText}]
      /\ \A m \in MentionIds : s3[m] \in Row
  BY DEF Typed
<1>2. [pc |-> "idle"] \in Idling /\ Idling \subseteq Locals /\ Idling \subseteq Afterwards
      /\ Afterwards \subseteq Locals
  BY DEF Idling, Locals, Afterwards
<1>3. CASE a \in W /\ Pipeline(W, R, S, L)!Observe(a)
  <2> DEFINE l == [pc |-> "observe", rev |-> s1,
                   todo |-> Pipeline(W, R, S, L)!Proposals
                              \ {s3[m].text : m \in Pipeline(W, R, S, L)!Current}]
  <2>1. Pipeline(W, R, S, L)!Proposals \subseteq Texts
    BY <1>1 DEF Content, Pipeline!Proposals
  <2>2. l \in Observing
    BY <1>1, <2>1 DEF Observing
  <2>3. s5' = [s5 EXCEPT ![a] = l] /\ UNCHANGED <<s1, s2, s3, s4>>
    BY <1>3 DEF Pipeline!Observe, Pipeline!Become
  <2> QED
    BY <2>2, <2>3 DEF Locals, Afterwards
<1>4. CASE a \in W /\ Pipeline(W, R, S, L)!ListMentions(a)
  <2>1. [pc |-> "resolve", todo |-> Pipeline(W, R, S, L)!Current] \in Resolving
    BY DEF Resolving, Pipeline!Current
  <2> QED
    BY <1>4, <2>1 DEF Locals, Afterwards, Pipeline!ListMentions, Pipeline!Become
<1>5. CASE a \in W /\ Pipeline(W, R, S, L)!ListResolved(a)
  <2>1. [pc |-> "relate", next |-> [pc |-> "idle"],
         todo |-> {m \in Pipeline(W, R, S, L)!Current : s3[m].entity # 0}] \in Relating
    BY <1>2 DEF Relating, Pipeline!Current
  <2> QED
    BY <1>5, <2>1 DEF Locals, Pipeline!ListResolved, Pipeline!Become, Pipeline!None, Pipeline!Idle
<1>6. CASE a \in R /\ Pipeline(W, R, S, L)!LookUpEntity(a)
  <2>1. Pipeline(W, R, S, L)!Names \subseteq Texts
    BY DEF Content, Pipeline!Names
  <2>2. PICK n \in Texts : s5' = [s5 EXCEPT ![a] = [pc |-> "insert", name |-> n]]
    BY <1>6, <2>1 DEF Pipeline!LookUpEntity, Pipeline!Become
  <2>3. [pc |-> "insert", name |-> n] \in Inserting
    BY DEF Inserting
  <2> QED
    BY <1>6, <2>2, <2>3 DEF Locals, Pipeline!LookUpEntity
<1>7. CASE a \in R /\ Pipeline(W, R, S, L)!LookUpMention(a)
  <2>1. S[1] \subseteq Texts
    BY DEF Content
  <2>2. PICK t \in Texts :
          s5' = [s5 EXCEPT ![a] = [pc |-> "register", text |-> t,
                                   entity |-> Pipeline(W, R, S, L)!Find(t)]]
    BY <1>7, <2>1 DEF Pipeline!LookUpMention, Pipeline!Become
  <2>3. Pipeline(W, R, S, L)!Find(t) \in EntityIds \cup {0}
    BY Found
  <2>4. [pc |-> "register", text |-> t, entity |-> Pipeline(W, R, S, L)!Find(t)] \in Registering
    BY <2>3 DEF Registering
  <2> QED
    BY <1>7, <2>2, <2>4 DEF Locals, Pipeline!LookUpMention
<1>8. CASE Pipeline(W, R, S, L)!Fetch(a)
  <2>1. CASE s5[a].pc = "resolve"
    <3>1. s5[a] \in Resolving
      BY <1>1, <2>1, Kinds
    <3>2. PICK m \in s5[a].todo :
            LET next == [s5[a] EXCEPT !.todo = @ \ {m}] IN
            s5' = [s5 EXCEPT ![a] = IF s3[m].status = "RESOLVED" THEN next
                                    ELSE [pc |-> "score", mention |-> m, next |-> next]]
      BY <1>8, <2>1 DEF Pipeline!Fetch, Pipeline!At, Pipeline!Become
    <3> DEFINE next == [s5[a] EXCEPT !.todo = @ \ {m}]
    <3>3. next \in Resolving
      BY <3>1 DEF Resolving
    <3>4. [pc |-> "score", mention |-> m, next |-> next] \in Scoring
      BY <3>1, <3>3 DEF Scoring, Afterwards, Resolving
    <3> QED
      BY <1>8, <3>2, <3>3, <3>4 DEF Locals, Afterwards, Pipeline!Fetch
  <2>2. CASE s5[a].pc # "resolve"
    <3>1. PICK m \in MentionIds :
            s5' = [s5 EXCEPT ![a] = [pc |-> "score", mention |-> m, next |-> [pc |-> "idle"]]]
      BY <1>8, <2>2 DEF Pipeline!Fetch, Pipeline!At, Pipeline!Become, Pipeline!Idle
    <3>2. [pc |-> "score", mention |-> m, next |-> [pc |-> "idle"]] \in Scoring
      BY <1>2 DEF Scoring
    <3> QED
      BY <1>8, <3>1, <3>2 DEF Locals, Pipeline!Fetch
  <2> QED
    BY <2>1, <2>2
<1>9. CASE Pipeline(W, R, S, L)!Scored(a)
  <2> DEFINE m == s5[a].mention
             d == Pipeline(W, R, S, L)!Decide(s3[m].text, Pipeline(W, R, S, L)!Registry)
             decided == [pc |-> "update", mention |-> m, next |-> s5[a].next,
                         status |-> d.outcome,
                         entity |-> IF d.outcome = "RESOLVED" THEN d.entity.id ELSE 0]
  <2>1. s5[a] \in Scoring
    BY <1>1, <1>9, Kinds DEF Pipeline!Scored, Pipeline!At
  <2>2. m \in MentionIds /\ s5[a].next \in Afterwards
    BY <2>1 DEF Scoring
  <2>3. /\ d.outcome \in {"UNRESOLVED", "AMBIGUOUS", "RESOLVED"}
        /\ d.outcome = "RESOLVED" => d.entity.id \in EntityIds
    <3>1. s3[m].text \in Texts \cup {NoText}
      BY <1>1, <2>2 DEF Row
    <3> QED
      BY <1>1, <3>1, Decision
  <2>4. d.outcome # "UNRESOLVED" => decided \in Updating
    <3> HIDE DEF m, d
    <3> QED
      BY <2>2, <2>3, PipelineAssumption DEF Updating
  <2>5. \/ s5' = [s5 EXCEPT ![a] = s5[a].next]
        \/ d.outcome # "UNRESOLVED" /\ s5' = [s5 EXCEPT ![a] = decided]
    BY <1>9 DEF Pipeline!Scored, Pipeline!Become, Pipeline!None
  <2>6. UNCHANGED <<s1, s2, s3, s4>>
    BY <1>9 DEF Pipeline!Scored
  <2>7. decided \in Updating => decided \in Locals
    BY DEF Locals
  <2> HIDE DEF decided, d, m
  <2> QED
    BY <1>2, <2>2, <2>4, <2>5, <2>6, <2>7
<1>10. CASE Pipeline(W, R, S, L)!Stop(a)
  BY <1>2, <1>10 DEF Pipeline!Stop, Pipeline!Become, Pipeline!Idle
<1>11. CASE Pipeline(W, R, S, L)!ReadStatements(a)
  <2>1. s5[a] \in Relating
    BY <1>1, <1>11, Kinds DEF Pipeline!ReadStatements, Pipeline!At
  <2>2. PICK m \in s5[a].todo :
          LET next == [s5[a] EXCEPT !.todo = @ \ {m}] IN
          s5' = [s5 EXCEPT ![a] =
                   IF s3[m].entity = 0 \/ Pipeline(W, R, S, L)!Stated(m) = {} THEN next
                   ELSE [pc |-> "save", mention |-> m, next |-> next,
                         source |-> s3[m].entity, todo |-> Pipeline(W, R, S, L)!Stated(m)]]
    BY <1>11 DEF Pipeline!ReadStatements, Pipeline!Become, Pipeline!None
  <2> DEFINE next == [s5[a] EXCEPT !.todo = @ \ {m}]
             save == [pc |-> "save", mention |-> m, next |-> next,
                      source |-> s3[m].entity, todo |-> Pipeline(W, R, S, L)!Stated(m)]
  <2>3. next \in Relating /\ m \in MentionIds
    BY <2>1 DEF Relating
  <2>4. s3[m].entity # 0 => save \in Saving
    <3>1. s3[m].entity \in EntityIds \cup {0}
      BY <1>1, <2>3 DEF Row
    <3>2. Pipeline(W, R, S, L)!Stated(m) \subseteq EntityIds
      BY DEF Pipeline!Stated
    <3> HIDE DEF next
    <3> QED
      BY <2>3, <3>1, <3>2 DEF Saving
  <2>5. s5' = [s5 EXCEPT ![a] = next] \/ (s3[m].entity # 0 /\ s5' = [s5 EXCEPT ![a] = save])
    BY <2>2
  <2>6. UNCHANGED <<s1, s2, s3, s4>>
    BY <1>11 DEF Pipeline!ReadStatements
  <2>7. Relating \subseteq Locals /\ Saving \subseteq Locals
    BY DEF Locals
  <2> HIDE DEF next, save
  <2> QED
    BY <2>3, <2>4, <2>5, <2>6, <2>7
<1>12. CASE Pipeline(W, R, S, L)!Finish(a)
  <2>1. s5[a] \in Relating
    BY <1>1, <1>12, Kinds DEF Pipeline!Finish, Pipeline!At
  <2>2. s5[a].next \in Locals
    BY <1>2, <2>1 DEF Relating
  <2> QED
    BY <1>12, <2>2 DEF Pipeline!Finish, Pipeline!Become
<1> QED
  BY <1>3, <1>4, <1>5, <1>6, <1>7, <1>8, <1>9, <1>10, <1>11, <1>12 DEF Reads


\* A mention is written that is new, or of this revision, and nothing older.
LEMMA WriteIsFresh ==
  ASSUME NEW W, NEW R, NEW S, NEW L, Typed(W \cup R), NEW m \in MentionIds, NEW x \in Row,
         s3' = [s3 EXCEPT ![m] = x], s4' = s4, x.rev = s1, s3[m].rev \in {0, s1}
  PROVE  Pipeline(W, R, S, L)!PastIsFrozen
<1>1. /\ \A n \in MentionIds : s3'[n] = IF n = m THEN x ELSE s3[n]
      /\ \A n \in MentionIds : s3[n].rev \in Nat
      /\ s1 \in Nat
  BY DEF Typed, Row
<1>2. DOMAIN s4 = EntityIds \X EntityIds /\ \A p \in DOMAIN s4 : s4[p].rev \in Nat
  BY DEF Typed
<1>3. \A p \in DOMAIN s4 : s4'[p].rev >= s4[p].rev
  BY <1>2
<1>4. \A n \in MentionIds : s3[n].rev > 0 /\ s3[n].rev < s1 => s3'[n] = s3[n]
  BY <1>1
<1>5. \A n \in MentionIds : ~ (s3[n].rev > 0) => s3'[n].rev \in {0, s1}
  BY <1>1
<1> QED
  BY <1>3, <1>4, <1>5 DEF Pipeline!PastIsFrozen, Pipeline!Stored

\* The steps that write a mention: of this revision, where there was none or one of
\* this revision.
WritesMention(W, R, S, L, a) ==
    \/ a \in W /\ Pipeline(W, R, S, L)!CreateMention(a)
    \/ a \in R /\ Pipeline(W, R, S, L)!RegisterMention(a)
    \/ Pipeline(W, R, S, L)!Update(a)

\* A mention of this revision is written where there was none or one of it.
Written(a) ==
    \E l \in Locals, m \in MentionIds, x \in Row :
        /\ s5' = [s5 EXCEPT ![a] = l] /\ s3' = [s3 EXCEPT ![m] = x]
        /\ UNCHANGED <<s1, s2, s4>>
        /\ x.rev = s1 /\ s3[m].rev \in {0, s1}

\* They do what Written says.
LEMMA MentionSteps ==
  ASSUME NEW W, NEW R, NEW S, NEW L, Content(S, L), Typed(W \cup R),
         NEW a \in W \cup R, WritesMention(W, R, S, L, a)
  PROVE  Written(a)
<1>1. /\ s1 \in 1 .. 2 /\ s5[a] \in Locals
      /\ \A m \in MentionIds : s3[m] \in Row /\ s3[m].rev \in Nat
  BY DEF Typed, Row
<1>2. [pc |-> "idle"] \in Idling /\ Idling \subseteq Locals
  BY DEF Idling, Locals, Afterwards
<1>3. CASE a \in W /\ Pipeline(W, R, S, L)!CreateMention(a)
  <2>1. s5[a] \in Observing
    BY <1>1, <1>3, Kinds DEF Pipeline!CreateMention, Pipeline!At
  <2>2. PICK t \in s5[a].todo, m \in MentionIds :
          /\ ~ (s3[m].rev > 0) /\ s5[a].rev = s1
          /\ s3' = [s3 EXCEPT ![m] =
               [Pipeline(W, R, S, L)!Empty EXCEPT !.rev = s5[a].rev, !.text = t]]
          /\ s5' = [s5 EXCEPT ![a] = [pc |-> "score", mention |-> m,
                                      next |-> [s5[a] EXCEPT !.todo = @ \ {t}]]]
    BY <1>3 DEF Pipeline!CreateMention, Pipeline!Stored, Pipeline!Guarded, Pipeline!Become
  <2> DEFINE next == [s5[a] EXCEPT !.todo = @ \ {t}]
             l == [pc |-> "score", mention |-> m, next |-> next]
  <2>0. PICK e \in Row : e = Pipeline(W, R, S, L)!Empty
    <3>1. Pipeline(W, R, S, L)!Empty \in Row
      BY DEF Row, NoText, Pipeline!Empty, Pipeline!None
    <3> QED
      BY <3>1
  <2>x. PICK x : x = [e EXCEPT !.rev = s1, !.text = t]
    OBVIOUS
  <2>3. next \in Observing /\ t \in Texts
    BY <2>1 DEF Observing
  <2>4. l \in Locals
    <3> HIDE DEF next
    <3> QED
      BY <2>3 DEF Locals, Scoring, Afterwards
  <2>5. x \in Row /\ x.rev = s1
    <3>1. x.rev = s1 /\ x.status = e.status /\ x.entity = e.entity
      BY <2>x DEF Row
    <3>2. s1 \in 0 .. 2
      BY <1>1
    <3>3. x \in [rev : 0 .. 2, text : Texts \cup {NoText},
                 status : {"UNRESOLVED", "AMBIGUOUS", "RESOLVED"}, entity : EntityIds \cup {0}]
      BY <2>3, <2>x, <3>2 DEF Row
    <3> QED
      BY <3>1, <3>3 DEF Row
  <2>6. s3' = [s3 EXCEPT ![m] = x]
    BY <2>0, <2>x, <2>2
  <2>7. UNCHANGED <<s1, s2, s4>>
    BY <1>3 DEF Pipeline!CreateMention
  <2>8. s3[m].rev = 0 
    BY <1>1, <2>2
  <2>9. s5' = [s5 EXCEPT ![a] = l]
    BY <2>2
  <2> HIDE DEF l
  <2> QED
    BY <2>4, <2>5, <2>6, <2>7, <2>8, <2>9 DEF Written
<1>4. CASE a \in R /\ Pipeline(W, R, S, L)!RegisterMention(a)
  <2>1. s5[a] \in Registering
    BY <1>1, <1>4, Kinds DEF Pipeline!RegisterMention, Pipeline!At
  <2> DEFINE x == [rev |-> 1, text |-> s5[a].text, entity |-> s5[a].entity,
                   status |-> IF s5[a].entity = 0 THEN "UNRESOLVED" ELSE "RESOLVED"]
             relate(m) == [pc |-> "relate", next |-> [pc |-> "idle"], todo |-> {m}]
  <2>2. PICK m \in MentionIds :
          /\ ~ (s3[m].rev > 0) /\ s3' = [s3 EXCEPT ![m] = x]
          /\ s5' = [s5 EXCEPT ![a] = IF s5[a].entity = 0 THEN [pc |-> "idle"] ELSE relate(m)]
    BY <1>4 DEF Pipeline!RegisterMention, Pipeline!Stored, Pipeline!Become, Pipeline!None, Pipeline!Idle
  <2>3. x \in Row
    BY <2>1, <1>1 DEF Row, Registering
  <2>4. relate(m) \in Locals
    BY <1>2 DEF Locals, Relating
  <2>5. UNCHANGED <<s1, s2, s4>> /\ s1 = 1 /\ x.rev = 1
    BY <1>4 DEF Pipeline!RegisterMention, Pipeline!Guarded
  <2>6. s3[m].rev = 0
    BY <1>1, <2>2
  <2> DEFINE l == IF s5[a].entity = 0 THEN [pc |-> "idle"] ELSE relate(m)
  <2>7. l \in Locals /\ s5' = [s5 EXCEPT ![a] = l]
    BY <1>2, <2>2, <2>4
  <2> HIDE DEF x, l
  <2> QED
    BY <2>2, <2>3, <2>5, <2>6, <2>7 DEF Written
<1>5. CASE Pipeline(W, R, S, L)!Update(a)
  <2>1. s5[a] \in Updating
    BY <1>1, <1>5, Kinds DEF Pipeline!Update, Pipeline!At
  <2> DEFINE m == s5[a].mention
             x == [s3[m] EXCEPT !.status = s5[a].status, !.entity = s5[a].entity]
  <2>2. m \in MentionIds /\ s5[a].next \in Afterwards
    BY <2>1 DEF Updating
  <2>3. s3' = [s3 EXCEPT ![m] = x]
    BY <1>5 DEF Pipeline!Update
  <2>4. x \in Row /\ x.rev = s3[m].rev /\ x.text = s3[m].text
    BY <1>1, <2>1, <2>2 DEF Row, Updating
  <2>5. s3[m].rev = s1 /\ UNCHANGED <<s1, s2, s4>> /\ s5' = [s5 EXCEPT ![a] = s5[a].next]
    BY <1>5 DEF Pipeline!Update, Pipeline!Guarded, Pipeline!Become
  <2>6. s5[a].next \in Locals
    BY <2>2 DEF Locals
  <2> HIDE DEF m, x
  <2> QED
    BY <2>2, <2>3, <2>4, <2>5, <2>6 DEF Written
<1> QED
  BY <1>3, <1>4, <1>5 DEF WritesMention


\* An entity is created.
LEMMA EntityStep ==
  ASSUME NEW W, NEW R, NEW S, NEW L, Typed(W \cup R), NEW a \in R,
         Pipeline(W, R, S, L)!CreateEntity(a)
  PROVE  \E e \in EntityIds, n \in Texts :
            /\ s2[e] = NoText /\ s2' = [s2 EXCEPT ![e] = n] /\ n = s5[a].name
            /\ s5' = [s5 EXCEPT ![a] = [pc |-> "idle"]]
            /\ UNCHANGED <<s1, s3, s4>> /\ Typed(W \cup R)'
<1>1. s5[a] \in Inserting
  BY Kinds DEF Typed, Pipeline!CreateEntity, Pipeline!At
<1>2. PICK n \in Texts : n = s5[a].name
  BY <1>1 DEF Inserting
<1>3. PICK e \in EntityIds : s2[e] = NoText /\ s2' = [s2 EXCEPT ![e] = s5[a].name]
  BY DEF Pipeline!CreateEntity, NoText
<1>4. s2' = [s2 EXCEPT ![e] = n]
  BY <1>2, <1>3
<1>5. s5' = [s5 EXCEPT ![a] = [pc |-> "idle"]] /\ UNCHANGED <<s1, s3, s4>>
  BY DEF Pipeline!CreateEntity, Pipeline!Become, Pipeline!Idle
<1>6. [pc |-> "idle"] \in Locals
  BY DEF Locals, Afterwards, Idling
<1>7. Typed(W \cup R)'
  <2>1. s2' \in [EntityIds -> Texts \cup {NoText}]
    BY <1>4 DEF Typed
  <2>2. s5' \in [W \cup R -> Locals]
    BY <1>5, <1>6 DEF Typed
  <2> QED
    BY <1>5, <2>1, <2>2 DEF Typed
<1> QED
  BY <1>2, <1>3, <1>4, <1>5, <1>7

\* A dependency is saved: its row gets this revision.
LEMMA DependencyStep ==
  ASSUME NEW W, NEW R, NEW S, NEW L, Typed(W \cup R), NEW a \in W \cup R,
         Pipeline(W, R, S, L)!SaveDependency(a)
  PROVE  \E p \in EntityIds \X EntityIds, t \in s5[a].todo, l \in Locals :
            LET m == s5[a].mention IN
            /\ s5[a] \in Saving /\ p = <<s5[a].source, t>> /\ s3[m].rev = s1
            /\ s4' = [s4 EXCEPT ![p] = [rev |-> s1, mention |-> m]]
            /\ s5' = [s5 EXCEPT ![a] = l]
            /\ \/ l = s5[a].next
               \/ l = [s5[a] EXCEPT !.todo = @ \ {t}]
            /\ UNCHANGED <<s1, s2, s3>> /\ Typed(W \cup R)'
            /\ \A q \in EntityIds \X EntityIds : s4'[q].rev >= s4[q].rev
<1>1. s5[a] \in Saving
  BY Kinds DEF Typed, Pipeline!SaveDependency, Pipeline!At
<1> DEFINE m == s5[a].mention
<1>2. PICK t \in s5[a].todo :
        /\ s3[m].rev = s1
        /\ s4' = [s4 EXCEPT ![<<s5[a].source, t>>] = [rev |-> s3[m].rev, mention |-> m]]
        /\ s5' = [s5 EXCEPT ![a] = IF s5[a].todo = {t} THEN s5[a].next
                                   ELSE [s5[a] EXCEPT !.todo = @ \ {t}]]
  BY DEF Pipeline!SaveDependency, Pipeline!Guarded, Pipeline!Become
<1>3. UNCHANGED <<s1, s2, s3>>
  BY DEF Pipeline!SaveDependency
<1>4. m \in MentionIds /\ s5[a].source \in EntityIds /\ t \in EntityIds /\ s5[a].next \in Relating
  BY <1>1 DEF Saving
<1>5. PICK p \in EntityIds \X EntityIds : p = <<s5[a].source, t>>
  BY <1>4
<1>6. PICK x : x = [rev |-> s1, mention |-> m]
  OBVIOUS
<1>7. s4' = [s4 EXCEPT ![p] = x]
  BY <1>2, <1>5, <1>6
<1>8. [s5[a] EXCEPT !.todo = @ \ {t}] \in Saving
  BY <1>1 DEF Saving
<1>9. PICK l : /\ l = IF s5[a].todo = {t} THEN s5[a].next ELSE [s5[a] EXCEPT !.todo = @ \ {t}]
               /\ s5' = [s5 EXCEPT ![a] = l]
  BY <1>2
<1>10. l \in Locals
  <2>1. Relating \subseteq Locals /\ Saving \subseteq Locals
    BY DEF Locals
  <2> QED
    BY <1>4, <1>8, <1>9, <2>1
<1>11. /\ Typed(W \cup R)'
       /\ \A q \in EntityIds \X EntityIds : s4'[q].rev >= s4[q].rev
  <2>1. s1 \in 1 .. 2
    BY DEF Typed
  <2>2. x \in [rev : 0 .. 2, mention : MentionIds \cup {0}] /\ x.rev = s1
    BY <1>4, <1>6, <2>1
  <2>3. /\ s4' \in [EntityIds \X EntityIds -> [rev : 0 .. 2, mention : MentionIds \cup {0}]]
        /\ \A q \in EntityIds \X EntityIds : s4'[q] = IF q = p THEN x ELSE s4[q]
    BY <1>7, <2>2 DEF Typed
  <2>4. \A q \in EntityIds \X EntityIds : s4[q].rev \in Nat /\ s4[q].rev <= s1
    BY DEF Typed
  <2>5. \A q \in EntityIds \X EntityIds : s4'[q].rev >= s4[q].rev /\ s4'[q].rev <= s1
    BY <2>1, <2>2, <2>3, <2>4
  <2>6. s5' \in [W \cup R -> Locals]
    BY <1>9, <1>10 DEF Typed
  <2> QED
    BY <1>3, <2>3, <2>5, <2>6 DEF Typed
<1> QED
  BY <1>1, <1>2, <1>3, <1>5, <1>6, <1>7, <1>9, <1>10, <1>11

\* The meeting is revised.
LEMMA ReviseStep ==
  ASSUME NEW W, NEW R, NEW S, NEW L, Typed(W \cup R), Pipeline(W, R, S, L)!Revise
  PROVE  s1' = s1 + 1 /\ UNCHANGED <<s2, s3, s4, s5>> /\ Typed(W \cup R)'
<1>1. s1' = s1 + 1 /\ s1 < 2 /\ UNCHANGED <<s2, s3, s4, s5>>
  BY DEF Pipeline!Revise
<1>2. /\ \A m \in MentionIds : s3[m].rev \in Nat /\ s3[m].rev <= s1
      /\ \A p \in EntityIds \X EntityIds : s4[p].rev \in Nat /\ s4[p].rev <= s1
      /\ s1 \in 1 .. 2
  BY DEF Typed, Row
<1>3. /\ s1' \in 1 .. 2
      /\ \A m \in MentionIds : s3'[m].rev <= s1'
      /\ \A p \in EntityIds \X EntityIds : s4'[p].rev <= s1'
  BY <1>1, <1>2
<1> QED
  BY <1>1, <1>3 DEF Typed

\* All steps.
LEMMA PipelineSteps ==
  ASSUME NEW W, NEW R, NEW S, NEW L, Pipeline(W, R, S, L)!Next
  PROVE  \/ \E a \in W \cup R : \/ Reads(W, R, S, L, a) \/ WritesMention(W, R, S, L, a)
                                \/ a \in R /\ Pipeline(W, R, S, L)!CreateEntity(a)
                                \/ Pipeline(W, R, S, L)!SaveDependency(a)
         \/ Pipeline(W, R, S, L)!Revise
BY DEF Pipeline!Next, Pipeline!Decided, Pipeline!Related, Pipeline!Actors, Reads, WritesMention

\* The types stay, and what is of the past is not written.
LEMMA TypedStep ==
  ASSUME NEW W, NEW R, NEW S, NEW L, Content(S, L), Typed(W \cup R), Pipeline(W, R, S, L)!Next
  PROVE  Typed(W \cup R)' /\ Pipeline(W, R, S, L)!PastIsFrozen
<1>1. ASSUME NEW a \in W \cup R, Reads(W, R, S, L, a)
      PROVE  Typed(W \cup R)' /\ Pipeline(W, R, S, L)!PastIsFrozen
  <2>1. PICK l \in Locals : s5' = [s5 EXCEPT ![a] = l] /\ UNCHANGED <<s1, s2, s3, s4>>
    BY <1>1, ReadsMove
  <2> QED
    BY <2>1, ActorMoves, NothingTouched
<1>2. ASSUME NEW a \in W \cup R, WritesMention(W, R, S, L, a)
      PROVE  Typed(W \cup R)' /\ Pipeline(W, R, S, L)!PastIsFrozen
  <2>1. PICK l \in Locals, m \in MentionIds, x \in Row :
          /\ s5' = [s5 EXCEPT ![a] = l] /\ s3' = [s3 EXCEPT ![m] = x]
          /\ UNCHANGED <<s1, s2, s4>>
          /\ x.rev = s1 /\ s3[m].rev \in {0, s1}
    <3>1. Written(a)
      BY <1>2, MentionSteps
    <3> QED
      BY <3>1 DEF Written
  <2> QED
    BY <2>1, MentionWritten, WriteIsFresh
<1>3. ASSUME NEW a \in R, Pipeline(W, R, S, L)!CreateEntity(a)
      PROVE  Typed(W \cup R)' /\ Pipeline(W, R, S, L)!PastIsFrozen
  <2>1. UNCHANGED <<s3, s4>> /\ Typed(W \cup R)'
    BY <1>3, EntityStep
  <2> QED
    BY <2>1, NothingTouched
<1>4. ASSUME NEW a \in W \cup R, Pipeline(W, R, S, L)!SaveDependency(a)
      PROVE  Typed(W \cup R)' /\ Pipeline(W, R, S, L)!PastIsFrozen
  <2>1. /\ UNCHANGED <<s1, s3>> /\ Typed(W \cup R)'
        /\ \A q \in EntityIds \X EntityIds : s4'[q].rev >= s4[q].rev
    BY <1>4, DependencyStep
  <2>2. DOMAIN s4 = EntityIds \X EntityIds /\ \A m \in MentionIds : s3[m].rev \in Nat
    BY DEF Typed, Row
  <2>3. \A m \in MentionIds : s3'[m] = s3[m] /\ (~ (s3[m].rev > 0) => s3[m].rev = 0)
    BY <2>1, <2>2
  <2> QED
    BY <2>1, <2>2, <2>3 DEF Pipeline!PastIsFrozen, Pipeline!Stored
<1>5. CASE Pipeline(W, R, S, L)!Revise
  BY <1>5, ReviseStep, NothingTouched
<1> QED
  BY <1>1, <1>2, <1>3, <1>4, <1>5, PipelineSteps

\* First state.
LEMMA TypedInit ==
  ASSUME NEW W, NEW R, NEW S, NEW L, Pipeline(W, R, S, L)!Init
  PROVE  Typed(W \cup R)
<1>1. [pc |-> "idle"] \in Locals
  BY DEF Locals, Afterwards, Idling
<1>2. Pipeline(W, R, S, L)!Empty \in Row /\ Pipeline(W, R, S, L)!Empty.rev = 0
  BY DEF Row, NoText, Pipeline!Empty, Pipeline!None
<1>3. /\ s1 = 1 /\ s2 = [e \in EntityIds |-> NoText]
      /\ s3 = [m \in MentionIds |-> Pipeline(W, R, S, L)!Empty]
      /\ s4 = [p \in EntityIds \X EntityIds |-> [rev |-> 0, mention |-> 0]]
      /\ s5 = [a \in W \cup R |-> [pc |-> "idle"]]
  BY DEF Pipeline!Init, NoText, Pipeline!None, Pipeline!Actors, Pipeline!Idle
<1>4. s3 \in [MentionIds -> Row] /\ \A m \in MentionIds : s3[m].rev <= s1
  BY <1>2, <1>3
<1>5. /\ s4 \in [EntityIds \X EntityIds -> [rev : 0 .. 2, mention : MentionIds \cup {0}]]
      /\ \A p \in EntityIds \X EntityIds : s4[p].rev <= s1
  BY <1>3
<1> QED
  BY <1>1, <1>3, <1>4, <1>5 DEF Typed


-----------------------------------------------------------------------------
(* One run or one request at a time.                                       *)

\* A run that observes knows what is new in its revision.
Unseen(o) ==
    o.pc = "observe" =>
       /\ o.rev <= s1
       /\ o.rev = s1 => \A t \in o.todo, m \in MentionIds : s3[m].rev = s1 => s3[m].text # t

\* The text of a revision says that something depends on something.
SaysSo(L, r, x, y) == \E k \in L[r] : k[1] = x /\ k[2] = y

\* What the actor knows is still so.
Knows(L) ==
    LET l == s5[Run] IN
    /\ l.pc = "insert" => \A e \in EntityIds : s2[e] # l.name
    /\ l.pc = "update" => s3[l.mention].status # "RESOLVED"
    /\ l.pc = "save" => /\ s3[l.mention].entity = l.source
                        /\ \A t \in l.todo : SaysSo(L, s3[l.mention].rev, s2[l.source], s2[t])
    /\ Unseen(l)
    /\ l.pc \in {"score", "update"} => Unseen(l.next)

\* A dependency has a mention that is resolved to its source and says so.
Backed(L) ==
    \A p \in EntityIds \X EntityIds :
        s4[p].rev > 0 =>
           /\ s4[p].mention \in MentionIds
           /\ s3[s4[p].mention].rev = s4[p].rev /\ s3[s4[p].mention].entity = p[1]
           /\ SaysSo(L, s4[p].rev, s2[p[1]], s2[p[2]])

\* Where there is no mention nothing is assigned, and no two entities have one name.
Blank    == \A m \in MentionIds : s3[m].rev = 0 => s3[m].entity = 0
Distinct == \A e, f \in EntityIds : s2[e] # NoText /\ s2[e] = s2[f] => e = f

\* The inductive invariant.
SoloInv(L) == Typed({Run} \cup {Run}) /\ Knows(L) /\ Backed(L) /\ Blank /\ Distinct

\* What a step does not do.
SoloStep(S, L) ==
    /\ Pipeline({Run}, {Run}, S, L)!NeverDowngraded
    /\ Pipeline({Run}, {Run}, S, L)!ObservedOnce

\* No mention is written.
LEMMA SoloNothing ==
  ASSUME NEW S, NEW L, SoloInv(L), s3' = s3
  PROVE  SoloStep(S, L)
<1>1. \A m \in MentionIds : s3[m].rev \in Nat
  BY DEF SoloInv, Typed, Row
<1> QED
  BY <1>1 DEF SoloStep, Pipeline!NeverDowngraded, Pipeline!ObservedOnce, Pipeline!Stored

\* An actor that only reads knows afterwards what it has to.
LEMMA SoloReads ==
  ASSUME NEW S, NEW L, Content(S, L), SoloInv(L), Reads({Run}, {Run}, S, L, Run)
  PROVE  SoloInv(L)' /\ SoloStep(S, L)
<1>1. PICK l \in Locals : s5' = [s5 EXCEPT ![Run] = l] /\ UNCHANGED <<s1, s2, s3, s4>>
  BY ReadsMove DEF SoloInv
<1>2. Typed({Run} \cup {Run})'
  BY <1>1, ActorMoves DEF SoloInv
<1>3. /\ s5 \in [{Run} -> Locals] /\ s5[Run] \in Locals /\ s5'[Run] = l
      /\ \A m \in MentionIds : s3[m] \in Row
  BY <1>1 DEF SoloInv, Typed
<1>4. Knows(L)'
  <2> SUFFICES /\ l.pc = "insert" => \A e \in EntityIds : s2[e] # l.name
               /\ l.pc = "update" => s3[l.mention].status # "RESOLVED"
               /\ l.pc = "save" =>
                     /\ s3[l.mention].entity = l.source
                     /\ \A t \in l.todo : SaysSo(L, s3[l.mention].rev, s2[l.source], s2[t])
               /\ Unseen(l)
               /\ l.pc \in {"score", "update"} => Unseen(l.next)
    BY <1>1, <1>3 DEF Knows, Unseen, SaysSo
  <2>1. CASE Pipeline({Run}, {Run}, S, L)!Observe(Run)
    <3> DEFINE todo == Pipeline({Run}, {Run}, S, L)!Proposals
                         \ {s3[m].text : m \in Pipeline({Run}, {Run}, S, L)!Current}
    <3>1. l = [pc |-> "observe", rev |-> s1, todo |-> todo]
      BY <1>1, <1>3, <2>1 DEF Pipeline!Observe, Pipeline!Become
    <3>2. \A t \in todo, m \in MentionIds : s3[m].rev = s1 => s3[m].text # t
      BY DEF Pipeline!Current
    <3>3. s1 <= s1
      BY DEF SoloInv, Typed
    <3> HIDE DEF todo
    <3> QED
      BY <3>1, <3>2, <3>3 DEF Unseen
  <2>2. CASE Pipeline({Run}, {Run}, S, L)!ListMentions(Run)
    BY <1>1, <1>3, <2>2 DEF Pipeline!ListMentions, Pipeline!Become, Unseen
  <2>3. CASE Pipeline({Run}, {Run}, S, L)!ListResolved(Run)
    BY <1>1, <1>3, <2>3 DEF Pipeline!ListResolved, Pipeline!Become, Unseen
  <2>4. CASE Pipeline({Run}, {Run}, S, L)!LookUpEntity(Run)
    <3>1. PICK n : /\ Pipeline({Run}, {Run}, S, L)!Find(n) = 0
                   /\ l = [pc |-> "insert", name |-> n]
      BY <1>1, <1>3, <2>4 DEF Pipeline!LookUpEntity, Pipeline!Become, Pipeline!None
    <3>2. \A e \in EntityIds : s2[e] # n
      BY <3>1, Found
    <3> QED
      BY <3>1, <3>2 DEF Unseen
  <2>5. CASE Pipeline({Run}, {Run}, S, L)!LookUpMention(Run)
    BY <1>1, <1>3, <2>5 DEF Pipeline!LookUpMention, Pipeline!Become, Unseen
  <2>6. CASE Pipeline({Run}, {Run}, S, L)!Fetch(Run)
    <3>1. CASE s5[Run].pc = "resolve"
      <4>1. s5[Run] \in Resolving
        BY <1>3, <3>1, Kinds
      <4>2. PICK m \in s5[Run].todo :
              LET next == [s5[Run] EXCEPT !.todo = @ \ {m}] IN
              l = IF s3[m].status = "RESOLVED" THEN next
                  ELSE [pc |-> "score", mention |-> m, next |-> next]
        BY <1>1, <1>3, <2>6, <3>1 DEF Pipeline!Fetch, Pipeline!At, Pipeline!Become
      <4> DEFINE next == [s5[Run] EXCEPT !.todo = @ \ {m}]
      <4>3. next.pc = "resolve"
        BY <4>1 DEF Resolving
      <4>4. l = next \/ l = [pc |-> "score", mention |-> m, next |-> next]
        BY <4>2
      <4> HIDE DEF next
      <4> QED
        BY <4>3, <4>4 DEF Unseen
    <3>2. CASE s5[Run].pc # "resolve"
      <4>1. PICK m : l = [pc |-> "score", mention |-> m, next |-> [pc |-> "idle"]]
        BY <1>1, <1>3, <2>6, <3>2 DEF Pipeline!Fetch, Pipeline!At, Pipeline!Become, Pipeline!Idle
      <4> QED
        BY <4>1 DEF Unseen
    <3> QED
      BY <3>1, <3>2
  <2>7. CASE Pipeline({Run}, {Run}, S, L)!Scored(Run)
    <3>1. s5[Run] \in Scoring /\ s5[Run].pc = "score"
      BY <1>3, <2>7, Kinds DEF Pipeline!Scored, Pipeline!At
    <3>2. Unseen(s5[Run].next) /\ s5[Run].next \in Afterwards
      BY <3>1 DEF SoloInv, Knows, Scoring
    <3>3. \/ l = s5[Run].next
          \/ /\ l.pc = "update" /\ l.mention = s5[Run].mention /\ l.next = s5[Run].next
             /\ s3[s5[Run].mention].status # "RESOLVED"
      <4> DEFINE d == Pipeline({Run}, {Run}, S, L)!Decide(s3[s5[Run].mention].text,
                                                      Pipeline({Run}, {Run}, S, L)!Registry)
      <4>1. l = IF s3[s5[Run].mention].status = "RESOLVED" \/ d.outcome = "UNRESOLVED"
                THEN s5[Run].next
                ELSE [pc |-> "update", mention |-> s5[Run].mention, next |-> s5[Run].next,
                      status |-> d.outcome,
                      entity |-> IF d.outcome = "RESOLVED" THEN d.entity.id ELSE 0]
        BY <1>1, <1>3, <2>7 DEF Pipeline!Scored, Pipeline!Become, Pipeline!None
      <4> HIDE DEF d
      <4> QED
        BY <4>1
    <3>4. s5[Run].next.pc \in {"idle", "observe", "resolve"}
      BY <3>2 DEF Afterwards, Idling, Observing, Resolving
    <3> QED
      BY <3>2, <3>3, <3>4 DEF Unseen
  <2>8. CASE Pipeline({Run}, {Run}, S, L)!Stop(Run)
    BY <1>1, <1>3, <2>8 DEF Pipeline!Stop, Pipeline!Become, Pipeline!Idle, Unseen
  <2>9. CASE Pipeline({Run}, {Run}, S, L)!ReadStatements(Run)
    <3>1. s5[Run] \in Relating
      BY <1>3, <2>9, Kinds DEF Pipeline!ReadStatements, Pipeline!At
    <3>2. PICK m \in s5[Run].todo :
            LET next == [s5[Run] EXCEPT !.todo = @ \ {m}] IN
            l = IF s3[m].entity = 0 \/ Pipeline({Run}, {Run}, S, L)!Stated(m) = {} THEN next
                ELSE [pc |-> "save", mention |-> m, next |-> next,
                      source |-> s3[m].entity, todo |-> Pipeline({Run}, {Run}, S, L)!Stated(m)]
      BY <1>1, <1>3, <2>9 DEF Pipeline!ReadStatements, Pipeline!Become, Pipeline!None
    <3> DEFINE next == [s5[Run] EXCEPT !.todo = @ \ {m}]
    <3>3. next.pc = "relate"
      BY <3>1 DEF Relating
    <3>4. \/ l = next
          \/ l = [pc |-> "save", mention |-> m, next |-> next,
                  source |-> s3[m].entity, todo |-> Pipeline({Run}, {Run}, S, L)!Stated(m)]
      BY <3>2
    <3>5. ASSUME NEW t \in Pipeline({Run}, {Run}, S, L)!Stated(m)
          PROVE  SaysSo(L, s3[m].rev, s2[s3[m].entity], s2[t])
      <4>1. PICK k \in L[s3[m].rev] : /\ k[1] = s2[s3[m].entity]
                                      /\ t = Pipeline({Run}, {Run}, S, L)!Find(k[2]) /\ t # 0
        BY DEF Pipeline!Stated, Pipeline!None
      <4>2. s2[t] = k[2]
        BY <4>1, Found
      <4> QED
        BY <4>1, <4>2 DEF SaysSo
    <3> HIDE DEF next
    <3> QED
      BY <3>3, <3>4, <3>5 DEF Unseen
  <2>10. CASE Pipeline({Run}, {Run}, S, L)!Finish(Run)
    <3>1. s5[Run] \in Relating
      BY <1>3, <2>10, Kinds DEF Pipeline!Finish, Pipeline!At
    <3>2. l = [pc |-> "idle"]
      BY <1>1, <1>3, <2>10, <3>1 DEF Pipeline!Finish, Pipeline!Become, Relating, Idling
    <3> QED
      BY <3>2 DEF Unseen
  <2> QED
    BY <2>1, <2>2, <2>3, <2>4, <2>5, <2>6, <2>7, <2>8, <2>9, <2>10 DEF Reads
<1>5. Backed(L)' /\ Blank' /\ Distinct'
  BY <1>1 DEF SoloInv, Backed, Blank, Distinct, SaysSo
<1> QED
  BY <1>1, <1>2, <1>4, <1>5, SoloNothing DEF SoloInv


\* One mention is written, that no dependency has as its evidence.
LEMMA OneWritten ==
  ASSUME NEW L, SoloInv(L), NEW m \in MentionIds, NEW x \in Row,
         s3[m].rev = 0 \/ s3[m].entity = 0,
         s3' = [s3 EXCEPT ![m] = x], UNCHANGED <<s1, s2, s4>>, x.rev = s1
  PROVE  Backed(L)' /\ Blank' /\ Distinct'
<1>1. /\ \A n \in MentionIds : s3'[n] = IF n = m THEN x ELSE s3[n]
      /\ \A n \in MentionIds : s3[n].rev \in Nat /\ s1 \in 1 .. 2
  BY DEF SoloInv, Typed, Row
<1>2. Blank' /\ Distinct'
  BY <1>1 DEF SoloInv, Blank, Distinct
<1>3. ASSUME NEW p \in EntityIds \X EntityIds, s4[p].rev > 0 PROVE s4[p].mention # m
  <2>1. /\ s3[s4[p].mention].rev = s4[p].rev /\ s3[s4[p].mention].entity = p[1]
    BY <1>3 DEF SoloInv, Backed
  <2>2. p[1] \in EntityIds /\ p[1] # 0
    BY PipelineAssumption
  <2> QED
    BY <1>3, <2>1, <2>2
<1>4. Backed(L)'
  BY <1>1, <1>3 DEF SoloInv, Backed, SaysSo
<1> QED
  BY <1>2, <1>4

\* A run creates a mention: nobody has its text.
LEMMA SoloCreate ==
  ASSUME NEW S, NEW L, Content(S, L), SoloInv(L),
         Pipeline({Run}, {Run}, S, L)!CreateMention(Run)
  PROVE  SoloInv(L)' /\ SoloStep(S, L)
<1>1. /\ s5[Run] \in Locals /\ DOMAIN s5 = {Run} \cup {Run}
      /\ \A m \in MentionIds : s3[m] \in Row /\ s3[m].rev \in Nat
  BY DEF SoloInv, Typed, Row
<1>2. s5[Run] \in Observing /\ s5[Run].pc = "observe"
  BY <1>1, Kinds DEF Pipeline!CreateMention, Pipeline!At
<1>3. PICK t \in s5[Run].todo, m \in MentionIds :
        /\ ~ (s3[m].rev > 0) /\ s5[Run].rev = s1
        /\ s3' = [s3 EXCEPT ![m] =
             [Pipeline({Run}, {Run}, S, L)!Empty EXCEPT !.rev = s5[Run].rev, !.text = t]]
        /\ s5' = [s5 EXCEPT ![Run] = [pc |-> "score", mention |-> m,
                                      next |-> [s5[Run] EXCEPT !.todo = @ \ {t}]]]
  BY DEF Pipeline!CreateMention, Pipeline!Stored, Pipeline!Guarded, Pipeline!Become
<1>4. UNCHANGED <<s1, s2, s4>>
  BY DEF Pipeline!CreateMention
<1>5. PICK x : x = [Pipeline({Run}, {Run}, S, L)!Empty EXCEPT !.rev = s1, !.text = t]
  OBVIOUS
<1>6. s3' = [s3 EXCEPT ![m] = x]
  BY <1>3, <1>5
<1>7. x.rev = s1 /\ x.text = t /\ s1 \in 1 .. 2
  <2>1. PICK e \in Row : e = Pipeline({Run}, {Run}, S, L)!Empty
    <3>1. Pipeline({Run}, {Run}, S, L)!Empty \in Row
      BY DEF Row, NoText, Pipeline!Empty, Pipeline!None
    <3> QED
      BY <3>1
  <2>2. x = [e EXCEPT !.rev = s1, !.text = t]
    BY <1>5, <2>1
  <2>3. x.rev = s1 /\ x.text = t
    BY <2>2 DEF Row
  <2> QED
    BY <2>3 DEF SoloInv, Typed
<1>8. \A n \in MentionIds : s3'[n] = IF n = m THEN x ELSE s3[n]
  BY <1>6 DEF SoloInv, Typed
<1>0. PICK next : next = [s5[Run] EXCEPT !.todo = @ \ {t}]
  OBVIOUS
<1>9. /\ next.pc = "observe" /\ next.rev = s1 /\ next.todo = s5[Run].todo \ {t}
      /\ s5'[Run] = [pc |-> "score", mention |-> m, next |-> next]
  BY <1>0, <1>1, <1>2, <1>3 DEF Observing
<1>10. \A u \in s5[Run].todo, n \in MentionIds : s3[n].rev = s1 => s3[n].text # u
  BY <1>2, <1>3 DEF SoloInv, Knows, Unseen
<1>11. Typed({Run} \cup {Run})'
  BY TypedStep DEF SoloInv, Pipeline!Next
<1>12. s3[m].rev = 0
  BY <1>1, <1>3
<1>13. Knows(L)'
  <2>1. Unseen(next)'
    BY <1>4, <1>7, <1>8, <1>9, <1>10 DEF Unseen
  <2> QED
    BY <1>9, <2>1 DEF Knows, Unseen
<1>14. Backed(L)' /\ Blank' /\ Distinct'
  <2>1. x \in Row
    BY <1>8, <1>11 DEF Typed
  <2> QED
    BY <1>4, <1>6, <1>7, <1>12, <2>1, OneWritten
<1>15. SoloStep(S, L)
  <2>1. \A n \in MentionIds : s3[n].status = "RESOLVED" => n # m
    BY <1>1, <1>12 DEF SoloInv, Blank, Row
  <2>2. \A n \in MentionIds : ~ (s3[n].rev > 0) /\ s3'[n].rev > 0 => n = m
    BY <1>8
  <2>3. Pipeline({Run}, {Run}, S, L)!NeverDowngraded
    BY <1>8, <2>1 DEF Pipeline!NeverDowngraded
  <2>4. Pipeline({Run}, {Run}, S, L)!ObservedOnce
    BY <1>7, <1>8, <1>10, <2>2 DEF Pipeline!ObservedOnce, Pipeline!Stored, Pipeline!Current
  <2> QED
    BY <2>3, <2>4 DEF SoloStep
<1> QED
  BY <1>11, <1>13, <1>14, <1>15 DEF SoloInv

\* A mention is decided on that is not resolved.
LEMMA SoloUpdate ==
  ASSUME NEW S, NEW L, Content(S, L), SoloInv(L),
         Pipeline({Run}, {Run}, S, L)!Update(Run)
  PROVE  SoloInv(L)' /\ SoloStep(S, L)
<1>1. /\ s5[Run] \in Locals /\ DOMAIN s5 = {Run} \cup {Run}
      /\ \A m \in MentionIds : s3[m] \in Row /\ s3[m].rev \in Nat
      /\ s1 \in 1 .. 2
  BY DEF SoloInv, Typed, Row
<1>2. s5[Run] \in Updating /\ s5[Run].pc = "update"
  BY <1>1, Kinds DEF Pipeline!Update, Pipeline!At
<1>3. PICK m \in MentionIds : m = s5[Run].mention
  BY <1>2 DEF Updating
<1>4. PICK x : x = [s3[m] EXCEPT !.status = s5[Run].status, !.entity = s5[Run].entity]
  OBVIOUS
<1>5. /\ s3' = [s3 EXCEPT ![m] = x] /\ s3[m].rev = s1 /\ UNCHANGED <<s1, s2, s4>>
      /\ s5' = [s5 EXCEPT ![Run] = s5[Run].next]
  BY <1>3, <1>4 DEF Pipeline!Update, Pipeline!Guarded, Pipeline!Become
<1>6. x.rev = s3[m].rev /\ x.text = s3[m].text
  BY <1>1, <1>4 DEF Row
<1>7. \A n \in MentionIds : s3'[n] = IF n = m THEN x ELSE s3[n]
  BY <1>5 DEF SoloInv, Typed
<1>8. s3[m].status # "RESOLVED" /\ s3[m].entity = 0
  BY <1>1, <1>2, <1>3 DEF SoloInv, Knows, Row
<1>9. Typed({Run} \cup {Run})'
  BY TypedStep DEF SoloInv, Pipeline!Next, Pipeline!Actors, Pipeline!Decided
<1>10. Knows(L)'
  <2>1. s5[Run].next \in Afterwards /\ s5'[Run] = s5[Run].next
    BY <1>1, <1>2, <1>5 DEF Updating
  <2>2. s5[Run].next.pc \in {"idle", "observe", "resolve"}
    BY <2>1 DEF Afterwards, Idling, Observing, Resolving
  <2>3. Unseen(s5[Run].next)
    BY <1>2 DEF SoloInv, Knows
  <2>4. \A n \in MentionIds : s3'[n].rev = s3[n].rev /\ s3'[n].text = s3[n].text
    BY <1>6, <1>7
  <2> QED
    BY <1>5, <2>1, <2>2, <2>3, <2>4 DEF Knows, Unseen
<1>11. Backed(L)' /\ Blank' /\ Distinct'
  <2>1. x \in Row
    BY <1>7, <1>9 DEF Typed
  <2> QED
    BY <1>5, <1>6, <1>8, <2>1, OneWritten
<1>12. SoloStep(S, L)
  BY <1>2, <1>7, <1>8 DEF SoloStep, Pipeline!NeverDowngraded, Pipeline!ObservedOnce, Pipeline!At
<1> QED
  BY <1>9, <1>10, <1>11, <1>12 DEF SoloInv


\* The endpoint stores a mention of the first revision, resolved or not.
LEMMA SoloRegister ==
  ASSUME NEW S, NEW L, Content(S, L), SoloInv(L),
         Pipeline({Run}, {Run}, S, L)!RegisterMention(Run)
  PROVE  SoloInv(L)' /\ SoloStep(S, L)
<1>1. /\ s5[Run] \in Locals /\ DOMAIN s5 = {Run} \cup {Run}
      /\ \A m \in MentionIds : s3[m] \in Row /\ s3[m].rev \in Nat
      /\ s5[Run].pc = "register"
  BY DEF SoloInv, Typed, Row, Pipeline!RegisterMention, Pipeline!At
<1>2. PICK x : x = [rev |-> 1, text |-> s5[Run].text, entity |-> s5[Run].entity,
                    status |-> IF s5[Run].entity = 0 THEN "UNRESOLVED" ELSE "RESOLVED"]
  OBVIOUS
<1>3. PICK m \in MentionIds :
        /\ ~ (s3[m].rev > 0) /\ s3' = [s3 EXCEPT ![m] = x]
        /\ s5' = [s5 EXCEPT ![Run] = IF s5[Run].entity = 0 THEN [pc |-> "idle"]
                       ELSE [pc |-> "relate", next |-> [pc |-> "idle"], todo |-> {m}]]
  BY <1>2 DEF Pipeline!RegisterMention, Pipeline!Stored, Pipeline!Become, Pipeline!None, Pipeline!Idle
<1>4. UNCHANGED <<s1, s2, s4>> /\ s1 = 1 /\ x.rev = s1
  BY <1>2 DEF Pipeline!RegisterMention, Pipeline!Guarded
<1>5. s3[m].rev = 0 /\ \A n \in MentionIds : s3'[n] = IF n = m THEN x ELSE s3[n]
  BY <1>1, <1>3 DEF SoloInv, Typed
<1>6. Typed({Run} \cup {Run})'
  BY TypedStep DEF SoloInv, Pipeline!Next
<1>7. Knows(L)'
  <2>1. s5'[Run].pc \in {"idle", "relate"}
    BY <1>1, <1>3
  <2> QED
    BY <2>1 DEF Knows, Unseen
<1>8. Backed(L)' /\ Blank' /\ Distinct'
  <2>1. x \in Row
    BY <1>5, <1>6 DEF Typed
  <2> QED
    BY <1>3, <1>4, <1>5, <2>1, OneWritten
<1>9. SoloStep(S, L)
  <2>1. \A n \in MentionIds : s3[n].status = "RESOLVED" => n # m
    BY <1>1, <1>5 DEF SoloInv, Blank, Row
  <2> QED
    BY <1>1, <1>5, <2>1 DEF SoloStep, Pipeline!NeverDowngraded, Pipeline!ObservedOnce, Pipeline!At
<1> QED
  BY <1>6, <1>7, <1>8, <1>9 DEF SoloInv

\* An entity is created with a name no other has.
LEMMA SoloEntity ==
  ASSUME NEW S, NEW L, Content(S, L), SoloInv(L),
         Pipeline({Run}, {Run}, S, L)!CreateEntity(Run)
  PROVE  SoloInv(L)' /\ SoloStep(S, L)
<1>1. PICK e \in EntityIds, n \in Texts :
        /\ s2[e] = NoText /\ s2' = [s2 EXCEPT ![e] = n] /\ n = s5[Run].name
        /\ s5' = [s5 EXCEPT ![Run] = [pc |-> "idle"]]
        /\ UNCHANGED <<s1, s3, s4>> /\ Typed({Run} \cup {Run})'
  BY EntityStep DEF SoloInv
<1>2. \A f \in EntityIds : s2[f] # n
  BY <1>1 DEF SoloInv, Knows, Pipeline!CreateEntity, Pipeline!At
<1>3. \A f \in EntityIds : s2'[f] = IF f = e THEN n ELSE s2[f]
  BY <1>1 DEF SoloInv, Typed
<1>4. Distinct'
  BY <1>2, <1>3 DEF SoloInv, Distinct
<1>5. Knows(L)'
  <2>1. s5'[Run].pc = "idle"
    BY <1>1 DEF SoloInv, Typed
  <2> QED
    BY <2>1 DEF Knows, Unseen
<1>6. Backed(L)'
  <2> SUFFICES ASSUME NEW p \in EntityIds \X EntityIds, s4[p].rev > 0
               PROVE  /\ s4[p].mention \in MentionIds
                      /\ s3[s4[p].mention].rev = s4[p].rev /\ s3[s4[p].mention].entity = p[1]
                      /\ SaysSo(L, s4[p].rev, s2'[p[1]], s2'[p[2]])
    BY <1>1 DEF Backed, SaysSo
  <2>1. /\ s4[p].mention \in MentionIds
        /\ s3[s4[p].mention].rev = s4[p].rev /\ s3[s4[p].mention].entity = p[1]
        /\ SaysSo(L, s4[p].rev, s2[p[1]], s2[p[2]])
    BY DEF SoloInv, Backed
  <2>2. s4[p].rev \in 1 .. 2 /\ p[1] \in EntityIds /\ p[2] \in EntityIds
    BY DEF SoloInv, Typed
  <2>3. PICK k \in L[s4[p].rev] : k[1] = s2[p[1]] /\ k[2] = s2[p[2]]
    BY <2>1 DEF SaysSo
  <2>4. k[1] \in Texts /\ k[2] \in Texts
    BY <2>2 DEF Content
  <2>5. p[1] # e /\ p[2] # e
    BY <1>1, <2>3, <2>4, TextsAre
  <2> QED
    BY <1>3, <2>1, <2>2, <2>5
<1>7. Blank'
  BY <1>1 DEF SoloInv, Blank
<1> QED
  BY <1>1, <1>4, <1>5, <1>6, <1>7, SoloNothing DEF SoloInv

\* A dependency is saved, with the mention it was read from.
LEMMA SoloSave ==
  ASSUME NEW S, NEW L, Content(S, L), SoloInv(L),
         Pipeline({Run}, {Run}, S, L)!SaveDependency(Run)
  PROVE  SoloInv(L)' /\ SoloStep(S, L)
<1>1. PICK p \in EntityIds \X EntityIds, t \in s5[Run].todo, l \in Locals :
        LET m == s5[Run].mention IN
        /\ s5[Run] \in Saving /\ p = <<s5[Run].source, t>> /\ s3[m].rev = s1
        /\ s4' = [s4 EXCEPT ![p] = [rev |-> s1, mention |-> m]]
        /\ s5' = [s5 EXCEPT ![Run] = l]
        /\ \/ l = s5[Run].next
           \/ l = [s5[Run] EXCEPT !.todo = @ \ {t}]
        /\ UNCHANGED <<s1, s2, s3>> /\ Typed({Run} \cup {Run})'
        /\ \A q \in EntityIds \X EntityIds : s4'[q].rev >= s4[q].rev
  BY DependencyStep DEF SoloInv
<1> DEFINE m == s5[Run].mention
<1>2. /\ s5[Run].pc = "save" /\ m \in MentionIds /\ s5[Run].next \in Relating
      /\ s5'[Run] = l
  BY <1>1 DEF Saving, SoloInv, Typed
<1>3. /\ s3[m].entity = s5[Run].source
      /\ \A u \in s5[Run].todo : SaysSo(L, s3[m].rev, s2[s5[Run].source], s2[u])
  BY <1>2 DEF SoloInv, Knows
<1>4. Knows(L)'
  <2>1. CASE l = s5[Run].next
    <3>1. l.pc = "relate"
      BY <1>2, <2>1 DEF Relating
    <3> QED
      BY <1>2, <3>1 DEF Knows, Unseen
  <2>2. CASE l = [s5[Run] EXCEPT !.todo = @ \ {t}]
    <3>1. /\ l.pc = "save" /\ l.mention = m /\ l.source = s5[Run].source
          /\ l.todo = s5[Run].todo \ {t}
      BY <1>1, <2>2 DEF Saving
    <3> HIDE DEF m
    <3> QED
      BY <1>1, <1>2, <1>3, <3>1 DEF Knows, Unseen, SaysSo
  <2> QED
    BY <1>1, <2>1, <2>2
<1>5. PICK x : x = [rev |-> s1, mention |-> m]
  OBVIOUS
<1>6. \A q \in EntityIds \X EntityIds : s4'[q] = IF q = p THEN x ELSE s4[q]
  BY <1>1, <1>5 DEF SoloInv, Typed
<1>7. Backed(L)'
  <2>1. ASSUME NEW q \in EntityIds \X EntityIds, q # p, s4'[q].rev > 0
        PROVE  /\ s4'[q].mention \in MentionIds
               /\ s3[s4'[q].mention].rev = s4'[q].rev /\ s3[s4'[q].mention].entity = q[1]
               /\ SaysSo(L, s4'[q].rev, s2[q[1]], s2[q[2]])
    BY <1>6, <2>1 DEF SoloInv, Backed
  <2>2. /\ s4'[p].mention \in MentionIds
        /\ s3[s4'[p].mention].rev = s4'[p].rev /\ s3[s4'[p].mention].entity = p[1]
        /\ SaysSo(L, s4'[p].rev, s2[p[1]], s2[p[2]])
    <3>1. p[1] = s5[Run].source /\ p[2] = t /\ s3[m].rev = s1
      BY <1>1
    <3>2. s4'[p].rev = s1 /\ s4'[p].mention = m
      BY <1>5, <1>6
    <3> HIDE DEF m
    <3> QED
      BY <1>2, <1>3, <3>1, <3>2
  <2>3. ASSUME NEW q \in EntityIds \X EntityIds, s4'[q].rev > 0
        PROVE  /\ s4'[q].mention \in MentionIds
               /\ s3[s4'[q].mention].rev = s4'[q].rev /\ s3[s4'[q].mention].entity = q[1]
               /\ SaysSo(L, s4'[q].rev, s2[q[1]], s2[q[2]])
    <3>1. CASE q = p
      BY <2>2, <3>1
    <3>2. CASE q # p
      BY <2>1, <2>3, <3>2
    <3> QED
      BY <3>1, <3>2
  <2>4. s2' = s2 /\ s3' = s3
    BY <1>1
  <2> QED
    BY <2>3, <2>4 DEF Backed, SaysSo
<1>8. Blank' /\ Distinct'
  BY <1>1 DEF SoloInv, Blank, Distinct
<1> QED
  BY <1>1, <1>4, <1>7, <1>8, SoloNothing DEF SoloInv

\* The meeting is revised: what was to observe is of the past.
LEMMA SoloRevise ==
  ASSUME NEW S, NEW L, SoloInv(L), Pipeline({Run}, {Run}, S, L)!Revise
  PROVE  SoloInv(L)' /\ SoloStep(S, L)
<1>1. s1' = s1 + 1 /\ UNCHANGED <<s2, s3, s4, s5>> /\ Typed({Run} \cup {Run})'
  BY ReviseStep DEF SoloInv
<1>2. s5[Run] \in Locals /\ s1 \in 1 .. 2
  BY DEF SoloInv, Typed
<1>3. ASSUME NEW o \in Locals, Unseen(o) PROVE Unseen(o)'
  <2>1. CASE o.pc = "observe"
    <3>1. o.rev \in 1 .. 2 /\ o.rev <= s1
      BY <1>3, <2>1, Kinds DEF Observing, Unseen
    <3>2. o.rev <= s1 + 1 /\ o.rev # s1 + 1
      BY <1>2, <3>1
    <3> QED
      BY <1>1, <3>2 DEF Unseen
  <2>2. CASE o.pc # "observe"
    BY <2>2 DEF Unseen
  <2> QED
    BY <2>1, <2>2
<1>4. s5[Run].pc \in {"score", "update"} => s5[Run].next \in Locals
  BY <1>2, Kinds DEF Scoring, Updating, Locals
<1>5. Knows(L)'
  <2>1. Unseen(s5[Run])'
    <3>1. PICK o \in Locals : o = s5[Run]
      BY <1>2
    <3>2. Unseen(o)
      BY <3>1 DEF SoloInv, Knows
    <3> QED
      BY <1>1, <1>3, <3>1, <3>2
  <2>2. s5[Run].pc \in {"score", "update"} => Unseen(s5[Run].next)'
    <3> SUFFICES ASSUME s5[Run].pc \in {"score", "update"} PROVE Unseen(s5[Run].next)'
      OBVIOUS
    <3>1. PICK o \in Locals : o = s5[Run].next
      BY <1>4
    <3>2. Unseen(o)
      BY <3>1 DEF SoloInv, Knows
    <3> QED
      BY <1>1, <1>3, <3>1, <3>2
  <2> QED
    BY <1>1, <2>1, <2>2 DEF SoloInv, Knows, SaysSo
<1>6. Backed(L)' /\ Blank' /\ Distinct'
  BY <1>1 DEF SoloInv, Backed, Blank, Distinct, SaysSo
<1> QED
  BY <1>1, <1>5, <1>6, SoloNothing DEF SoloInv

\* First state.
LEMMA SoloInit ==
  ASSUME NEW S, NEW L, Pipeline({Run}, {Run}, S, L)!Init
  PROVE  SoloInv(L)
<1>1. Typed({Run} \cup {Run})
  BY TypedInit
<1>2. Pipeline({Run}, {Run}, S, L)!Empty.entity = 0
  BY DEF Pipeline!Empty, Pipeline!None
<1>3. /\ s2 = [e \in EntityIds |-> NoText]
      /\ s3 = [m \in MentionIds |-> Pipeline({Run}, {Run}, S, L)!Empty]
      /\ s4 = [p \in EntityIds \X EntityIds |-> [rev |-> 0, mention |-> 0]]
      /\ s5 = [a \in {Run} \cup {Run} |-> [pc |-> "idle"]]
  BY DEF Pipeline!Init, NoText, Pipeline!None, Pipeline!Actors, Pipeline!Idle
<1>4. s5[Run].pc = "idle"
  BY <1>3
<1>5. \A p \in EntityIds \X EntityIds : s4[p].rev = 0
  BY <1>3
<1>6. Backed(L)
  BY <1>5 DEF Backed
<1> QED
  BY <1>1, <1>2, <1>3, <1>4, <1>6 DEF SoloInv, Knows, Unseen, Blank, Distinct

\* Every step.
LEMMA SoloNext ==
  ASSUME NEW S, NEW L, Content(S, L), SoloInv(L), Pipeline({Run}, {Run}, S, L)!Next
  PROVE  SoloInv(L)' /\ SoloStep(S, L)
<1>1. \/ Reads({Run}, {Run}, S, L, Run) \/ WritesMention({Run}, {Run}, S, L, Run)
      \/ Pipeline({Run}, {Run}, S, L)!CreateEntity(Run)
      \/ Pipeline({Run}, {Run}, S, L)!SaveDependency(Run)
      \/ Pipeline({Run}, {Run}, S, L)!Revise
  BY PipelineSteps
<1> QED
  BY <1>1, SoloReads, SoloCreate, SoloUpdate, SoloRegister, SoloEntity, SoloSave, SoloRevise
     DEF WritesMention

\* What is claimed of one run.
LEMMA SoloClaim ==
  ASSUME NEW S, NEW L, Content(S, L), SoloInv(L)
  PROVE  Pipeline({Run}, {Run}, S, L)!DependencyIsStated /\ Pipeline({Run}, {Run}, S, L)!NamesUnique
<1>1. ASSUME NEW p \in EntityIds \X EntityIds, s4[p].rev > 0
      PROVE  /\ s3[s4[p].mention].rev = s4[p].rev /\ s3[s4[p].mention].entity = p[1]
             /\ <<s2[p[1]], s2[p[2]]>> \in L[s4[p].rev]
  <2>1. /\ s3[s4[p].mention].rev = s4[p].rev /\ s3[s4[p].mention].entity = p[1]
        /\ SaysSo(L, s4[p].rev, s2[p[1]], s2[p[2]])
    BY <1>1 DEF SoloInv, Backed
  <2>2. PICK k \in L[s4[p].rev] : k[1] = s2[p[1]] /\ k[2] = s2[p[2]]
    BY <2>1 DEF SaysSo
  <2>3. s4[p].rev \in 1 .. 2
    BY <1>1 DEF SoloInv, Typed
  <2>4. k \in Texts \X Texts
    BY <2>3 DEF Content
  <2>5. k = <<k[1], k[2]>>
    BY <2>4
  <2> QED
    BY <2>1, <2>2, <2>5
<1>2. DOMAIN s4 = EntityIds \X EntityIds
  BY DEF SoloInv, Typed
<1>3. Pipeline({Run}, {Run}, S, L)!DependencyIsStated
  BY <1>1, <1>2 DEF Pipeline!DependencyIsStated
<1> QED
  BY <1>3 DEF SoloInv, Distinct, NoText, Pipeline!NamesUnique

-----------------------------------------------------------------------------
(* The two parts about the pipeline.                                       *)
PipelineInv ==
    /\ part = "overlap" => Typed(Runs \cup Callers)
    /\ part = "serial"  => SoloInv(LinkTurned)

\* What the revisions say is of the two texts.
LEMMA ContentOK == Content(SecondLater, LinkedLater) /\ Content(BothNames, LinkTurned)
<1>1. /\ SecondLater[1] = {Apollo} /\ SecondLater[2] = Texts
      /\ LinkedLater[1] = {} /\ LinkedLater[2] = {<<Apollo, ApolloTeam>>}
      /\ BothNames[1] = Texts /\ BothNames[2] = Texts
      /\ LinkTurned[1] = {<<Apollo, ApolloTeam>>} /\ LinkTurned[2] = {<<ApolloTeam, Apollo>>}
  BY DEF SecondLater, LinkedLater, BothNames, LinkTurned, Texts
<1>2. Apollo \in Texts /\ ApolloTeam \in Texts
  BY DEF Texts
<1>3. \A r \in 1 .. 2 : r = 1 \/ r = 2
  OBVIOUS
<1>4. Content(SecondLater, LinkedLater)
  BY <1>1, <1>2, <1>3 DEF Content
<1>5. Content(BothNames, LinkTurned)
  BY <1>1, <1>2, <1>3 DEF Content
<1> QED
  BY <1>4, <1>5

\* The types are those of the module.
LEMMA TypedClaim ==
  ASSUME NEW W, NEW R, NEW S, NEW L, S[2] = Texts, Typed(W \cup R)
  PROVE  Pipeline(W, R, S, L)!TypeOK
<1>1. Texts \subseteq Pipeline(W, R, S, L)!Names
  <2>1. S[2] \in {S[r] : r \in 1 .. 2}
    OBVIOUS
  <2> QED
    BY <2>1 DEF Pipeline!Names
<1>2. \A m \in MentionIds : s3[m] \in Row /\ s3[m].rev <= s1
  BY DEF Typed
<1>3. \A m \in MentionIds :
        /\ s3[m].rev \in 0 .. s1 /\ s3[m].status \in {"UNRESOLVED", "AMBIGUOUS", "RESOLVED"}
        /\ s3[m].entity \in EntityIds \cup {0}
        /\ s3[m].status = "RESOLVED" <=> s3[m].entity # 0
  BY <1>2 DEF Row, Typed
<1>4. \A p \in DOMAIN s4 : s4[p].rev \in 0 .. s1
  BY DEF Typed
<1>5. s1 \in 1 .. 2 /\ \A e \in EntityIds : s2[e] = <<>> \/ s2[e] \in Pipeline(W, R, S, L)!Names
  BY <1>1 DEF Typed, NoText
<1> QED
  BY <1>3, <1>4, <1>5 DEF Pipeline!TypeOK, Pipeline!None

\* Each part starts in its invariant.
LEMMA PipelineInit == Init => PipelineInv
BY TypedInit, SoloInit DEF Init, PipelineInv

\* Every step keeps it, and does only what it may.
LEMMA PipelineStep ==
  ASSUME PipelineInv, [Next]_vars
  PROVE  /\ PipelineInv'
         /\ [/\ part = "overlap" => Pipeline(Runs, Callers, SecondLater, LinkedLater)!PastIsFrozen
             /\ part = "serial"  =>
                   /\ Pipeline({Run}, {Run}, BothNames, LinkTurned)!NeverDowngraded
                   /\ Pipeline({Run}, {Run}, BothNames, LinkTurned)!ObservedOnce]_vars
<1>1. part' = part
  BY DEF Next, vars, Rest6, Rest7, Rest8
<1>2. CASE UNCHANGED vars
  BY <1>2 DEF vars, PipelineInv, Typed, SoloInv, Knows, Unseen, SaysSo, Backed, Blank, Distinct
<1>3. CASE Next /\ part = "overlap"
  <2>1. Pipeline(Runs, Callers, SecondLater, LinkedLater)!Next
    BY <1>3 DEF Next
  <2>2. Typed(Runs \cup Callers)
    BY <1>3 DEF PipelineInv
  <2> QED
    BY <1>1, <1>3, <2>1, <2>2, ContentOK, TypedStep DEF PipelineInv
<1>4. CASE Next /\ part = "serial"
  <2>1. Pipeline({Run}, {Run}, BothNames, LinkTurned)!Next
    BY <1>4 DEF Next
  <2>2. SoloInv(LinkTurned)
    BY <1>4 DEF PipelineInv
  <2>3. SoloInv(LinkTurned)' /\ SoloStep(BothNames, LinkTurned)
    BY <2>1, <2>2, ContentOK, SoloNext
  <2> QED
    BY <1>1, <1>4, <2>3 DEF PipelineInv, SoloStep
<1>5. CASE part \notin {"overlap", "serial"}
  BY <1>1, <1>5 DEF PipelineInv
<1> QED
  BY <1>2, <1>3, <1>4, <1>5

\* The pipeline, for any runs and requests, entities and mentions: what is of a past
\* revision is never written and the types hold, whatever overlaps; and with one run
\* or request at a time a dependency has a mention that says so, names are unique,
\* what is resolved stays so, and nothing is observed twice.
THEOREM PipelineHolds == Spec => PipelineConsistent
<1>1. PipelineInv /\ [Next]_vars => PipelineInv'
  BY PipelineStep
<1>2. PipelineInv /\ [Next]_vars
        => [/\ part = "overlap" =>
                 Pipeline(Runs, Callers, SecondLater, LinkedLater)!PastIsFrozen
            /\ part = "serial"  =>
                 /\ Pipeline({Run}, {Run}, BothNames, LinkTurned)!NeverDowngraded
                 /\ Pipeline({Run}, {Run}, BothNames, LinkTurned)!ObservedOnce]_vars
  BY PipelineStep
<1>3. PipelineInv =>
        /\ part = "overlap" => Pipeline(Runs, Callers, SecondLater, LinkedLater)!TypeOK
        /\ part = "serial"  =>
              /\ Pipeline({Run}, {Run}, BothNames, LinkTurned)!DependencyIsStated
              /\ Pipeline({Run}, {Run}, BothNames, LinkTurned)!NamesUnique
  <2>1. SecondLater[2] = Texts
    BY DEF SecondLater, Texts
  <2> QED
    BY <2>1, ContentOK, TypedClaim, SoloClaim DEF PipelineInv
<1> QED
  BY <1>1, <1>2, <1>3, PipelineInit, PTL DEF Spec, PipelineConsistent

-----------------------------------------------------------------------------
(* The search.  Its variables are s1, the records, s2, the revisions, s3,  *)
(* the root, s4, the status, s5, the stack, s6, the paths, s7, the ends of *)
(* cycles, s8, the writes, and s9 and s10, what was current all the time   *)
(* and at some time.  K are the known entities, H is the depth.            *)

\* The rank of an element of a finite set in a strict order: how many come before it.
\* (As in ServiceProofs, where it is the rank of a score.)
Preceding(S, R, x) == {y \in S : <<y, x>> \in R}

StrictOrder(S, R) ==
    /\ \A x, y \in S : x # y => <<x, y>> \in R \/ <<y, x>> \in R
    /\ \A x \in S : <<x, x>> \notin R
    /\ \A x, y, z \in S : <<x, y>> \in R /\ <<y, z>> \in R => <<x, z>> \in R

\* What is later in the order has more before it.
LEMMA RankGrows ==
  ASSUME NEW S, IsFiniteSet(S), NEW R, StrictOrder(S, R), NEW x \in S, NEW y \in S, <<x, y>> \in R
  PROVE  Cardinality(Preceding(S, R, x)) < Cardinality(Preceding(S, R, y))
<1>1. Preceding(S, R, x) \subseteq Preceding(S, R, y)
  BY DEF Preceding, StrictOrder
<1>2. x \in Preceding(S, R, y) /\ x \notin Preceding(S, R, x)
  BY DEF Preceding, StrictOrder
<1>3. IsFiniteSet(Preceding(S, R, y))
  BY FS_Subset DEF Preceding
<1>4. /\ IsFiniteSet(Preceding(S, R, x))
      /\ Cardinality(Preceding(S, R, x)) <= Cardinality(Preceding(S, R, y))
      /\ Cardinality(Preceding(S, R, x)) # Cardinality(Preceding(S, R, y))
  BY <1>1, <1>2, <1>3, FS_Subset
<1> QED
  BY <1>3, <1>4, FS_CardinalityType

\* The ranks of the elements are the numbers below the size of the set, each once.
LEMMA RankOnto ==
  ASSUME NEW S, IsFiniteSet(S), NEW R, StrictOrder(S, R)
  PROVE  /\ \A x \in S : Cardinality(Preceding(S, R, x)) \in 0 .. Cardinality(S) - 1
         /\ \A x, y \in S : Cardinality(Preceding(S, R, x)) = Cardinality(Preceding(S, R, y)) => x = y
         /\ \A n \in 0 .. Cardinality(S) - 1 : \E x \in S : Cardinality(Preceding(S, R, x)) = n
<1> DEFINE rank == [x \in S |-> Cardinality(Preceding(S, R, x))]
           N == 0 .. Cardinality(S) - 1
<1>1. Cardinality(S) \in Nat
  BY FS_CardinalityType
<1>2. ASSUME NEW x \in S PROVE Cardinality(Preceding(S, R, x)) \in N
  <2>1. Preceding(S, R, x) \subseteq S \ {x}
    BY DEF Preceding, StrictOrder
  <2>2. IsFiniteSet(S \ {x}) /\ Cardinality(S \ {x}) = Cardinality(S) - 1
    BY FS_RemoveElement
  <2>3. IsFiniteSet(Preceding(S, R, x)) /\ Cardinality(Preceding(S, R, x)) <= Cardinality(S) - 1
    BY <2>1, <2>2, FS_Subset
  <2>4. Cardinality(Preceding(S, R, x)) \in Nat
    BY <2>3, FS_CardinalityType
  <2> QED
    BY <1>1, <2>3, <2>4
<1>3. ASSUME NEW x \in S, NEW y \in S, x # y
      PROVE  Cardinality(Preceding(S, R, x)) # Cardinality(Preceding(S, R, y))
  <2>1. CASE <<x, y>> \in R
    BY <2>1, <1>2, RankGrows
  <2>2. CASE <<y, x>> \in R
    BY <2>2, <1>2, RankGrows
  <2> QED
    BY <1>3, <2>1, <2>2 DEF StrictOrder
<1>4. rank \in [S -> N]
  BY <1>2
<1>5. rank \in Injection(S, N)
  <2>1. \A x, y \in S : rank[x] = rank[y] => x = y
    BY <1>3
  <2> HIDE DEF rank, N
  <2> QED
    BY <1>4, <2>1 DEF Injection, IsInjective
<1>6. IsFiniteSet(N) /\ Cardinality(N) = Cardinality(S)
  <2> DEFINE last == Cardinality(S) - 1
  <2>1. last \in Int /\ last + 1 = Cardinality(S) /\ (0 > last => Cardinality(S) = 0)
    BY <1>1
  <2> HIDE DEF last
  <2>2. IsFiniteSet(0 .. last) /\ Cardinality(0 .. last) = IF 0 > last THEN 0 ELSE last - 0 + 1
    BY <2>1, FS_Interval
  <2>3. N = 0 .. last
    BY DEF last
  <2> QED
    BY <2>1, <2>2, <2>3
<1>7. rank \in Surjection(S, N)
  BY <1>5, <1>6, FS_Injection
<1>8. \A n \in N : \E x \in S : rank[x] = n
  BY <1>7 DEF Surjection
<1> QED
  BY <1>2, <1>3, <1>8

Types == {"DEPENDS_ON", "BLOCKS"}

DependencyRecords ==
    [source : Nodes, target : Nodes, type : Types, meeting : {FirstMeeting, SecondMeeting}, revision : Nat]

Records == {d \in s1 : d.revision = s2[d.meeting]}

Says(S, a, b, type) == \E d \in S : d.source = a /\ d.target = b /\ d.type = type
Linked(S, a, b)     == \E d \in S : d.source = a /\ d.target = b

Entry(K) == [entities : Seq(K), types : Seq(Types)]

\* A branch of at most n hops over the records S.
Branch(K, S, n, p) ==
    /\ p \in Seq(K) /\ Len(p) \in 1 .. n + 1
    /\ p[1] = s3
    /\ \A i, j \in 1 .. Len(p) : p[i] = p[j] => i = j
    /\ \A i \in 1 .. Len(p) - 1 : Linked(S, p[i], p[i + 1])

\* An entry is a branch whose hops were current when they were read.
EntryOK(K, H, e) ==
    /\ e \in Entry(K)
    /\ Branch(K, s10, H, e.entities)
    /\ Len(e.types) = Len(e.entities) - 1

\* Its types are those that sort first.
Best(a, b) == IF Says(Records, a, b, "BLOCKS") THEN "BLOCKS" ELSE "DEPENDS_ON"
Canonical(e) == \A i \in 1 .. Len(e.types) : e.types[i] = Best(e.entities[i], e.entities[i + 1])
Good(e) == s8 = 0 => Canonical(e)

Begins(p, q) == Len(p) <= Len(q) /\ \A i \in 1 .. Len(p) : q[i] = p[i]

Recorded(q) == \E p \in s6 : p.entities = q

\* A branch is still to come: the stack has, above place k, an entry it begins with.
Awaited(k, q) == \E j \in k + 1 .. Len(s5) : Good(s5[j]) /\ Begins(s5[j].entities, q)

\* A branch of steady records is recorded or to come; and where an entry has other
\* types than those that sort first, what begins with it is recorded or comes before.
Covered(K, H) ==
    \A q \in Seq(K) : Branch(K, s9, H, q) /\ Len(q) > 1 =>
        \A k \in 0 .. Len(s5) :
            k = 0 \/ (~ Good(s5[k]) /\ Begins(s5[k].entities, q)) => Recorded(q) \/ Awaited(k, q)

Closing(p, c) == (\E i \in 1 .. Len(p) : p[i] = c) /\ Linked(Records, p[Len(p)], c)

\* Undisturbed, what closes a cycle on a branch is noted, or the branch is to come.
CyclesOK(K, H) ==
    /\ \A c \in s7 : \E p \in Seq(K) : Branch(K, Records, H - 1, p) /\ Closing(p, c)
    /\ \A p \in Seq(K) : \A c \in K : Branch(K, Records, H - 1, p) /\ Closing(p, c) =>
          c \in s7 \/ \E j \in 1 .. Len(s5) : Begins(s5[j].entities, p)

\* The inductive invariant.
SearchInv(K, H) ==
    /\ s1 \subseteq DependencyRecords /\ IsFiniteSet(s1)
    /\ s2 \in [{FirstMeeting, SecondMeeting} -> Nat] /\ \A d \in s1 : d.revision <= s2[d.meeting]
    /\ s8 \in Nat
    /\ s4 \in {"idle", "search", "done", "not_found"}
    /\ s5 \in Seq(Entry(K)) /\ \A k \in 1 .. Len(s5) : EntryOK(K, H, s5[k])
    /\ \A p \in s6 : EntryOK(K, H, p) /\ Len(p.entities) > 1 /\ Good(p)
    /\ s7 \subseteq K
    /\ s4 = "idle" => s8 = 0
    /\ s4 \in {"idle", "not_found"} => s5 = <<>> /\ s6 = {} /\ s7 = {}
    /\ s4 = "done" => s5 = <<>>
    /\ s4 \in {"search", "done"} =>
          /\ s3 \in K
          /\ s9 \subseteq Records /\ Records \subseteq s10 /\ s10 \subseteq DependencyRecords
          /\ s8 = 0 => s9 = Records /\ s10 = Records /\ CyclesOK(K, H)
          /\ Covered(K, H)

-----------------------------------------------------------------------------
(* One iteration: what is popped, what is pushed.                          *)

Top     == s5[Len(s5)]
Here    == Top.entities[Len(Top.entities)]
Read(H) == IF Len(Top.types) < H
           THEN {[source |-> d.source, target |-> d.target, type |-> d.type] :
                    d \in {c \in Records : c.source = Here}}
           ELSE {}
OnTop == {Top.entities[i] : i \in 1 .. Len(Top.entities)}
Pushed(K, H) == {g \in Read(H) : g.target \in K /\ g.target \notin OnTop}
Longer(g) == [entities |-> Append(Top.entities, g.target), types |-> Append(Top.types, g.type)]

Edges == [source : Nodes, target : Nodes, type : Types]

\* The order of edges with one source.
Earlier(g, h) == g.target < h.target \/ (g.target = h.target /\ g.type = "BLOCKS" /\ h.type # "BLOCKS")

\* Sorting them lists each once, in that order.
LEMMA SortedIs ==
  ASSUME NEW K, NEW L, NEW H, NEW W, NEW E \in SUBSET Edges, IsFiniteSet(E),
         \A g, h \in E : g.source = h.source
  PROVE  /\ Graph(K, L, H, W)!Sorted(E) \in Seq(E)
         /\ Len(Graph(K, L, H, W)!Sorted(E)) \in Nat
         /\ \A g \in E : \E n \in 1 .. Len(Graph(K, L, H, W)!Sorted(E)) : Graph(K, L, H, W)!Sorted(E)[n] = g
         /\ \A m, n \in 1 .. Len(Graph(K, L, H, W)!Sorted(E)) :
               Earlier(Graph(K, L, H, W)!Sorted(E)[m], Graph(K, L, H, W)!Sorted(E)[n]) => m < n
<1> DEFINE R == {p \in E \X E : Earlier(p[1], p[2])}
           S == Graph(K, L, H, W)!Sorted(E)
           N == Cardinality(E)
           rank(g) == Cardinality({h \in E : Earlier(h, g)})
<1>1. \A g, h \in E : <<g, h>> \in R <=> Earlier(g, h)
  OBVIOUS
<1> HIDE DEF R
<1>2. \A g \in E : /\ g.source \in Nodes /\ g.target \in Nodes /\ g.type \in Types
                   /\ g = [source |-> g.source, target |-> g.target, type |-> g.type]
  BY DEF Edges
<1>3. Nodes \subseteq Nat
  BY SearchAssumption
<1>4. StrictOrder(E, R)
  <2>1. \A g \in E : ~ Earlier(g, g)
    BY <1>2, <1>3 DEF Earlier
  <2>2. \A g, h \in E : g # h => Earlier(g, h) \/ Earlier(h, g)
    <3> SUFFICES ASSUME NEW g \in E, NEW h \in E, g # h PROVE Earlier(g, h) \/ Earlier(h, g)
      OBVIOUS
    <3>1. g.target # h.target \/ g.type # h.type
      BY <1>2
    <3> QED
      BY <1>2, <1>3, <3>1 DEF Earlier, Types
  <2>3. \A f, g, h \in E : Earlier(f, g) /\ Earlier(g, h) => Earlier(f, h)
    BY <1>2, <1>3 DEF Earlier
  <2> QED
    BY <1>1, <2>1, <2>2, <2>3 DEF StrictOrder
<1>5. \A g \in E : rank(g) = Cardinality(Preceding(E, R, g))
  <2> SUFFICES ASSUME NEW g \in E PROVE {h \in E : Earlier(h, g)} = Preceding(E, R, g)
    OBVIOUS
  <2> QED
    BY <1>1 DEF Preceding
<1>6. N \in Nat
  BY FS_CardinalityType
<1> HIDE DEF rank
<1>7. /\ \A g \in E : rank(g) \in 0 .. N - 1
      /\ \A n \in 0 .. N - 1 : \E g \in E : rank(g) = n
      /\ \A g, h \in E : rank(g) = rank(h) => g = h
      /\ \A g, h \in E : Earlier(g, h) => rank(g) < rank(h)
  <2>1. /\ \A g \in E : Cardinality(Preceding(E, R, g)) \in 0 .. N - 1
        /\ \A n \in 0 .. N - 1 : \E g \in E : Cardinality(Preceding(E, R, g)) = n
        /\ \A g, h \in E : Cardinality(Preceding(E, R, g)) = Cardinality(Preceding(E, R, h)) => g = h
    BY <1>4, RankOnto
  <2>2. \A g, h \in E : <<g, h>> \in R
                             => Cardinality(Preceding(E, R, g)) < Cardinality(Preceding(E, R, h))
    BY <1>4, RankGrows
  <2> HIDE DEF N
  <2>3. /\ \A g \in E : rank(g) \in 0 .. N - 1
        /\ \A g, h \in E : rank(g) = rank(h) => g = h
    BY <1>5, <2>1
  <2>4. \A n \in 0 .. N - 1 : \E g \in E : rank(g) = n
    BY <1>5, <2>1
  <2>5. \A g, h \in E : Earlier(g, h) => rank(g) < rank(h)
    BY <1>1, <1>5, <2>2
  <2> QED
    BY <2>3, <2>4, <2>5
<1>8. S = [n \in 1 .. N |-> CHOOSE g \in E : rank(g) = n - 1]
  BY DEF Graph!Sorted, Graph!Precedes, Graph!Cardinality, Cardinality, rank, Earlier
<1> HIDE DEF N, S
<1>9. \A n \in 1 .. N : S[n] \in E /\ rank(S[n]) = n - 1
  <2> SUFFICES ASSUME NEW n \in 1 .. N PROVE S[n] \in E /\ rank(S[n]) = n - 1
    OBVIOUS
  <2>1. \E g \in E : rank(g) = n - 1
    BY <1>6, <1>7
  <2> QED
    BY <1>8, <2>1
<1>10. S \in Seq(E) /\ Len(S) = N
  BY <1>6, <1>8, <1>9
<1>11. \A g \in E : \E n \in 1 .. N : S[n] = g
  <2> SUFFICES ASSUME NEW g \in E PROVE \E n \in 1 .. N : S[n] = g
    OBVIOUS
  <2>1. rank(g) + 1 \in 1 .. N
    BY <1>6, <1>7
  <2>2. rank(S[rank(g) + 1]) = rank(g)
    BY <1>6, <1>7, <1>9, <2>1
  <2> QED
    BY <1>7, <1>9, <2>1, <2>2
<1>12. \A m, n \in 1 .. N : Earlier(S[m], S[n]) => m < n
  BY <1>6, <1>7, <1>9
<1> QED
  BY <1>6, <1>10, <1>11, <1>12 DEF S

\* The image of a finite set is finite.
LEMMA ImageFinite ==
  ASSUME NEW S, IsFiniteSet(S), NEW f, DOMAIN f = S
  PROVE  IsFiniteSet({f[x] : x \in S})
<1> DEFINE T == {f[x] : x \in S}
           g == [x \in S |-> f[x]]
<1>1. g \in [S -> T] /\ \A t \in T : \E x \in S : g[x] = t
  OBVIOUS
<1>2. g \in Surjection(S, T)
  BY <1>1 DEF Surjection
<1> QED
  BY <1>2, FS_Surjection

\* What is read of the place where the search is: edges from there, as the records say.
LEMMA ReadIs ==
  ASSUME NEW K, NEW H, SearchInv(K, H), s4 = "search", Len(s5) > 0
  PROVE  /\ Top \in Entry(K) /\ EntryOK(K, H, Top) /\ Len(Top.entities) \in Nat \ {0}
         /\ Top.entities \in Seq(K) /\ Top.types \in Seq(Types) /\ Len(s5) \in Nat \ {0}
         /\ Read(H) \in SUBSET Edges /\ IsFiniteSet(Read(H))
         /\ \A g \in Read(H) : g.source = Here /\ Says(Records, Here, g.target, g.type)
         /\ Len(Top.types) < H =>
               \A a, type : Says(Records, Here, a, type) =>
                   \E g \in Read(H) : g.target = a /\ g.type = type
         /\ ~ (Len(Top.types) < H) => Read(H) = {}
<1> DEFINE edge(d) == [source |-> d.source, target |-> d.target, type |-> d.type]
           from == {c \in Records : c.source = Here}
<1>1. Len(s5) \in Nat \ {0} /\ Top \in Entry(K) /\ EntryOK(K, H, Top)
  BY DEF SearchInv, Top
<1>2. /\ Top.entities \in Seq(K) /\ Top.types \in Seq(Types) /\ Len(Top.entities) \in Nat \ {0}
  BY <1>1 DEF EntryOK, Branch, Entry
<1>3. from \subseteq s1 /\ from \subseteq DependencyRecords /\ IsFiniteSet(from)
  <2>1. from \subseteq s1
    BY DEF Records
  <2> QED
    BY <2>1, FS_Subset DEF SearchInv
<1>4. \A d \in from : edge(d) \in Edges
  BY <1>3 DEF DependencyRecords, Edges
<1>5. IsFiniteSet({edge(d) : d \in from})
  <2> DEFINE f == [d \in from |-> edge(d)]
  <2>1. DOMAIN f = from /\ \A d \in from : f[d] = edge(d)
    OBVIOUS
  <2> HIDE DEF from, f, edge
  <2>2. IsFiniteSet({f[d] : d \in from})
    BY <1>3, <2>1, ImageFinite
  <2>3. {f[d] : d \in from} = {edge(d) : d \in from}
    BY <2>1
  <2> QED
    BY <2>2, <2>3
<1>6. Read(H) = IF Len(Top.types) < H THEN {edge(d) : d \in from} ELSE {}
  BY DEF Read
<1>7. Read(H) \in SUBSET Edges /\ IsFiniteSet(Read(H))
  BY <1>4, <1>5, <1>6, FS_EmptySet
<1>8. \A g \in Read(H) : g.source = Here /\ Says(Records, Here, g.target, g.type)
  BY <1>6 DEF Says
<1>9. ASSUME Len(Top.types) < H, NEW a, NEW type, Says(Records, Here, a, type)
      PROVE  \E g \in Read(H) : g.target = a /\ g.type = type
  <2>1. PICK d \in from : d.target = a /\ d.type = type
    BY <1>9 DEF Says
  <2>2. edge(d) \in Read(H) /\ edge(d).target = a /\ edge(d).type = type
    BY <1>6, <1>9, <2>1
  <2> QED
    BY <2>2
<1> QED
  BY <1>1, <1>2, <1>6, <1>7, <1>8, <1>9

\* The sequence u is s without its last element, and then t.
Replaced(s, t, u) ==
    /\ Len(u) = Len(s) - 1 + Len(t)
    /\ \A k \in 1 .. Len(s) - 1 : u[k] = s[k]
    /\ \A i \in 1 .. Len(t) : u[Len(s) - 1 + i] = t[i]

LEMMA Stacked ==
  ASSUME NEW S, NEW s \in Seq(S), Len(s) > 0, NEW t \in Seq(S),
         NEW u, u = SubSeq(s, 1, Len(s) - 1) \o t
  PROVE  u \in Seq(S) /\ Replaced(s, t, u)
<1> DEFINE f == SubSeq(s, 1, Len(s) - 1)
<1>1. Len(s) \in Nat /\ Len(t) \in Nat /\ \A i \in 1 .. Len(s) - 1 : s[i] \in S
  BY ElementOfSeq
<1>2. f \in Seq(S) /\ Len(f) = Len(s) - 1 /\ \A i \in 1 .. Len(s) - 1 : f[i] = s[i]
  <2>1. /\ f \in Seq(S)
        /\ Len(f) = IF 1 <= Len(s) - 1 THEN Len(s) - 1 - 1 + 1 ELSE 0
        /\ \A i \in 1 .. Len(s) - 1 - 1 + 1 : f[i] = s[1 + i - 1]
    BY <1>1, SubSeqProperties
  <2> HIDE DEF f
  <2>2. Len(s) - 1 - 1 + 1 = Len(s) - 1 /\ (~ (1 <= Len(s) - 1) => Len(s) - 1 = 0)
    <3>1. \A n \in Nat : n > 0 => n - 1 - 1 + 1 = n - 1 /\ (~ (1 <= n - 1) => n - 1 = 0)
      OBVIOUS
    <3> QED
      BY <1>1, <3>1
  <2>3. \A i \in 1 .. Len(s) - 1 : 1 + i - 1 = i
    BY <1>1
  <2> QED
    BY <2>1, <2>2, <2>3
<1>3. /\ u \in Seq(S) /\ Len(u) = Len(f) + Len(t)
      /\ \A i \in 1 .. Len(f) + Len(t) : u[i] = IF i <= Len(f) THEN f[i] ELSE t[i - Len(f)]
  <2>1. u = f \o t
    OBVIOUS
  <2> HIDE DEF f
  <2>2. /\ f \o t \in Seq(S) /\ Len(f \o t) = Len(f) + Len(t)
        /\ \A i \in 1 .. Len(f) + Len(t) : (f \o t)[i] = IF i <= Len(f) THEN f[i] ELSE t[i - Len(f)]
    BY <1>2, ConcatProperties
  <2> QED
    BY <2>1, <2>2, Zenon
<1> HIDE DEF f
<1>4. \A k \in 1 .. Len(s) - 1 : u[k] = s[k]
  BY <1>1, <1>2, <1>3
<1>5. \A i \in 1 .. Len(t) : u[Len(s) - 1 + i] = t[i]
  <2> SUFFICES ASSUME NEW i \in 1 .. Len(t) PROVE u[Len(s) - 1 + i] = t[i]
    OBVIOUS
  <2>1. Len(s) - 1 + i \in 1 .. Len(f) + Len(t) /\ ~ (Len(s) - 1 + i <= Len(f))
        /\ (Len(s) - 1 + i) - Len(f) = i
    BY <1>1, <1>2
  <2> QED
    BY <1>3, <2>1
<1> QED
  BY <1>1, <1>2, <1>3, <1>4, <1>5 DEF f, Replaced

\* What an iteration does: the top goes, what it leads to comes, so that of two types
\* of one edge the one that sorts first is above.
Visited(K, H) ==
    /\ s4 = "search" /\ Len(s5) > 0
    /\ UNCHANGED <<s1, s2, s3, s4, s8, s9, s10>>
    /\ s5' \in Seq(Entry(K)) /\ Len(s5') >= Len(s5) - 1
    /\ \A k \in 1 .. Len(s5) - 1 : s5'[k] = s5[k]
    /\ \A k \in Len(s5) .. Len(s5') :
          \E h \in Pushed(K, H) :
             /\ s5'[k] = Longer(h)
             /\ \A g \in Pushed(K, H) : Earlier(g, h) => \E j \in k + 1 .. Len(s5') : s5'[j] = Longer(g)
    /\ \A g \in Pushed(K, H) : \E k \in Len(s5) .. Len(s5') : s5'[k] = Longer(g)
    /\ s6' = IF Len(Top.entities) = 1 \/ Recorded(Top.entities) THEN s6 ELSE s6 \cup {Top}
    /\ s7' = s7 \cup ({g.target : g \in Read(H)} \cap OnTop)

LEMMA VisitIs ==
  ASSUME NEW K, NEW L, NEW H, NEW W, SearchInv(K, H), Graph(K, L, H, W)!Visit
  PROVE  Visited(K, H)
<1> DEFINE G == Pushed(K, H)
           p == Graph(K, L, H, W)!Sorted(G)
           t == [i \in 1 .. Len(p) |-> Longer(p[Len(p) + 1 - i])]
<1>1. s4 = "search" /\ s5 # <<>> /\ UNCHANGED <<s1, s2, s3, s4, s8, s9, s10>>
  BY DEF Graph!Visit, Graph!store, Graph!history
<1>2. Len(s5) > 0 /\ Len(s5) \in Nat
  BY <1>1, EmptySeq DEF SearchInv
<1>3. /\ Top.entities \in Seq(K) /\ Top.types \in Seq(Types) /\ Len(Top.entities) \in Nat \ {0}
      /\ Read(H) \in SUBSET Edges /\ IsFiniteSet(Read(H))
      /\ \A g \in Read(H) : g.source = Here
  BY <1>1, <1>2, ReadIs
<1>4. /\ G \in SUBSET Edges /\ IsFiniteSet(G) /\ \A g, h \in G : g.source = h.source
      /\ \A g \in G : g.target \in K /\ g.type \in Types
  BY <1>3, FS_Subset DEF Pushed, Edges
<1>5. \A g \in G : Longer(g) \in Entry(K)
  <2> SUFFICES ASSUME NEW g \in G PROVE Longer(g) \in Entry(K)
    OBVIOUS
  <2>1. Append(Top.entities, g.target) \in Seq(K) /\ Append(Top.types, g.type) \in Seq(Types)
    BY <1>3, <1>4, AppendProperties
  <2> QED
    BY <2>1 DEF Longer, Entry
<1>6. /\ s6' = IF Len(Top.entities) = 1 \/ Recorded(Top.entities) THEN s6 ELSE s6 \cup {Top}
      /\ s7' = s7 \cup ({g.target : g \in Read(H)} \cap OnTop)
      /\ s5' = SubSeq(s5, 1, Len(s5) - 1) \o t
  <2>1. DOMAIN Top.entities = 1 .. Len(Top.entities)
    BY <1>3, LenProperties
  <2>2. Graph(K, L, H, W)!Range(Top.entities) = OnTop
    BY <2>1 DEF Graph!Range, OnTop
  <2>3. (IF Len(Top.types) < H THEN Graph(K, L, H, W)!OutgoingEdges(Here) ELSE {}) = Read(H)
    BY DEF Graph!OutgoingEdges, Graph!Outgoing, Graph!Edge, Graph!Now, Graph!Current, Read, Records
  <2>4. {g \in Read(H) : Graph(K, L, H, W)!Descends(Top, g.target)} = G
    BY <2>2 DEF Graph!Descends, Pushed
  <2>5. Graph(K, L, H, W)!Closes(Top, Read(H)) = {g.target : g \in Read(H)} \cap OnTop
    BY <2>2 DEF Graph!Closes
  <2>6. \A g : Graph(K, L, H, W)!Extended(Top, g) = Longer(g)
    BY DEF Graph!Extended, Longer
  <2> HIDE DEF G
  <2>7. /\ s6' = Graph(K, L, H, W)!Record(Top)
        /\ s7' = s7 \cup Graph(K, L, H, W)!Closes(Top, Read(H))
        /\ s5' = SubSeq(s5, 1, Len(s5) - 1) \o
                   [i \in 1 .. Len(p) |-> Graph(K, L, H, W)!Extended(Top, p[Len(p) + 1 - i])]
    BY <2>3, <2>4 DEF Graph!Visit, Top, Here
  <2> QED
    BY <2>5, <2>6, <2>7 DEF Graph!Record, Recorded
<1>7. /\ p \in Seq(G) /\ Len(p) \in Nat
      /\ \A g \in G : \E n \in 1 .. Len(p) : p[n] = g
      /\ \A m, n \in 1 .. Len(p) : Earlier(p[m], p[n]) => m < n
  BY <1>4, SortedIs
<1> HIDE DEF p, G
<1>8. \A i \in 1 .. Len(p) : Len(p) + 1 - i \in 1 .. Len(p) /\ p[Len(p) + 1 - i] \in G
  BY <1>7, ElementOfSeq
<1>9. t \in Seq(Entry(K)) /\ Len(t) = Len(p) /\ \A i \in 1 .. Len(p) : t[i] = Longer(p[Len(p) + 1 - i])
  <2>1. \A i \in 1 .. Len(p) : Longer(p[Len(p) + 1 - i]) \in Entry(K)
    BY <1>5, <1>8
  <2> QED
    BY <1>7, <2>1
<1> HIDE DEF t
<1>10. s5 \in Seq(Entry(K))
  BY DEF SearchInv
<1>11. /\ s5' \in Seq(Entry(K)) /\ Len(s5') = Len(s5) - 1 + Len(p)
       /\ \A k \in 1 .. Len(s5) - 1 : s5'[k] = s5[k]
       /\ \A i \in 1 .. Len(p) : s5'[Len(s5) - 1 + i] = Longer(p[Len(p) + 1 - i])
  <2>0. t \in Seq(Entry(K)) /\ Len(s5) > 0
    BY <1>2, <1>9
  <2>1. s5' \in Seq(Entry(K)) /\ Replaced(s5, t, s5')
    BY <2>0, <1>6, <1>10, Stacked
  <2> QED
    BY <1>9, <2>1 DEF Replaced
<1>12. ASSUME NEW n \in 1 .. Len(p)
       PROVE  Len(s5) + Len(p) - n \in Len(s5) .. Len(s5') /\ s5'[Len(s5) + Len(p) - n] = Longer(p[n])
  <2>1. Len(p) + 1 - n \in 1 .. Len(p) /\ Len(p) + 1 - (Len(p) + 1 - n) = n
        /\ Len(s5) - 1 + (Len(p) + 1 - n) = Len(s5) + Len(p) - n
    BY <1>2, <1>7
  <2> QED
    BY <1>2, <1>7, <1>11, <2>1
<1>13. \A g \in G : \E k \in Len(s5) .. Len(s5') : s5'[k] = Longer(g)
  BY <1>7, <1>12
<1>14. ASSUME NEW k \in Len(s5) .. Len(s5')
       PROVE  \E h \in G : /\ s5'[k] = Longer(h)
                           /\ \A g \in G : Earlier(g, h) => \E j \in k + 1 .. Len(s5') : s5'[j] = Longer(g)
  <2> DEFINE n == Len(s5) + Len(p) - k
  <2>1. n \in 1 .. Len(p) /\ Len(s5) + Len(p) - n = k
    BY <1>2, <1>7, <1>11
  <2>2. s5'[k] = Longer(p[n]) /\ p[n] \in G
    BY <1>7, <1>12, <2>1, ElementOfSeq
  <2> HIDE DEF n
  <2>3. ASSUME NEW g \in G, Earlier(g, p[n]) PROVE \E j \in k + 1 .. Len(s5') : s5'[j] = Longer(g)
    <3>1. PICK m \in 1 .. Len(p) : p[m] = g
      BY <1>7
    <3>2. m < n
      BY <1>7, <2>1, <2>3, <3>1
    <3>3. Len(s5) + Len(p) - m \in k + 1 .. Len(s5')
      BY <1>2, <1>7, <1>11, <2>1, <3>2
    <3> QED
      BY <1>12, <3>1, <3>3
  <2> QED
    BY <2>2, <2>3
<1> QED
  <2>1. Len(s5') >= Len(s5) - 1
    BY <1>2, <1>7, <1>11
  <2>2. G = Pushed(K, H)
    BY DEF G
  <2> QED
    BY <1>1, <1>2, <1>6, <1>11, <1>13, <1>14, <2>1, <2>2 DEF Visited

\* The current records and their types.
LEMMA RecordsAre ==
  ASSUME NEW K, NEW H, SearchInv(K, H)
  PROVE  /\ Records \subseteq DependencyRecords
         /\ \A a, b : Linked(Records, a, b) => Says(Records, a, b, Best(a, b))
         /\ \A a, b, type : Says(Records, a, b, type) => type \in Types /\ a \in Nodes /\ b \in Nodes
<1>1. Records \subseteq DependencyRecords
  BY DEF SearchInv, Records
<1>2. \A d \in Records : d.type \in Types /\ d.source \in Nodes /\ d.target \in Nodes
  BY <1>1 DEF DependencyRecords
<1>3. \A a, b : Linked(Records, a, b) => Says(Records, a, b, Best(a, b))
  BY <1>2 DEF Linked, Says, Best, Types
<1>4. \A a, b, type : Says(Records, a, b, type) => type \in Types /\ a \in Nodes /\ b \in Nodes
  BY <1>2 DEF Says
<1> QED
  BY <1>1, <1>3, <1>4

\* What is pushed is an entry again, one hop longer.
LEMMA LongerIs ==
  ASSUME NEW K, NEW H \in Nat, SearchInv(K, H), s4 = "search", Len(s5) > 0,
         NEW g \in Pushed(K, H)
  PROVE  LET n == Len(Top.entities) IN
         /\ Longer(g) \in Entry(K) /\ EntryOK(K, H, Longer(g))
         /\ Len(Longer(g).entities) = n + 1 /\ Len(Longer(g).types) = n
         /\ \A i \in 1 .. n : Longer(g).entities[i] = Top.entities[i]
         /\ \A i \in 1 .. n - 1 : Longer(g).types[i] = Top.types[i]
         /\ Longer(g).entities[n + 1] = g.target /\ Longer(g).types[n] = g.type
<1> DEFINE n == Len(Top.entities)
           e == Append(Top.entities, g.target)
           t == Append(Top.types, g.type)
<1>1. /\ EntryOK(K, H, Top) /\ n \in Nat \ {0}
      /\ Top.entities \in Seq(K) /\ Top.types \in Seq(Types) /\ Len(Top.types) = n - 1
  BY ReadIs DEF EntryOK
<1>2. /\ g \in Read(H) /\ g.target \in K /\ g.target \notin OnTop
      /\ Len(Top.types) < H /\ Says(Records, Here, g.target, g.type)
  BY ReadIs DEF Pushed
<1>3. g.type \in Types
  BY <1>2, RecordsAre
<1>4. /\ e \in Seq(K) /\ Len(e) = n + 1 /\ e[n + 1] = g.target
      /\ \A i \in 1 .. n : e[i] = Top.entities[i]
  BY <1>1, <1>2, AppendProperties
<1>5. /\ t \in Seq(Types) /\ Len(t) = n /\ t[n] = g.type
      /\ \A i \in 1 .. n - 1 : t[i] = Top.types[i]
  <2>1. /\ t \in Seq(Types) /\ Len(t) = Len(Top.types) + 1 /\ t[Len(Top.types) + 1] = g.type
        /\ \A i \in 1 .. Len(Top.types) : t[i] = Top.types[i]
    BY <1>1, <1>3, AppendProperties
  <2>2. Len(Top.types) + 1 = n
    BY <1>1
  <2> HIDE DEF t, n
  <2> QED
    BY <1>1, <2>1, <2>2
<1>6. Longer(g) = [entities |-> e, types |-> t]
  BY DEF Longer
<1> HIDE DEF e, t
<1>7. Longer(g) \in Entry(K) /\ Longer(g).entities = e /\ Longer(g).types = t
  BY <1>4, <1>5, <1>6 DEF Entry
<1>8. Branch(K, s10, H, e)
  <2>1. Branch(K, s10, H, Top.entities) /\ Here = Top.entities[n]
    BY <1>1 DEF EntryOK, Here
  <2>2. Len(e) \in 1 .. H + 1 /\ e[1] = s3
    <3>1. n \in 1 .. H + 1 /\ n - 1 < H
      BY <1>1, <1>2, <2>1 DEF Branch
    <3>2. n + 1 \in 1 .. H + 1
      BY <1>1, <3>1
    <3> QED
      BY <1>1, <1>4, <2>1, <3>2 DEF Branch
  <2>3. \A i, j \in 1 .. n + 1 : e[i] = e[j] => i = j
    <3>1. \A i \in 1 .. n : e[i] # g.target
      BY <1>2, <1>4 DEF OnTop
    <3>2. \A i, j \in 1 .. n : e[i] = e[j] => i = j
      BY <1>4, <2>1 DEF Branch
    <3>3. \A i \in 1 .. n + 1 : i \in 1 .. n \/ i = n + 1
      BY <1>1
    <3> HIDE DEF n
    <3> QED
      BY <1>4, <3>1, <3>2, <3>3
  <2>4. Linked(s10, e[n], e[n + 1])
    <3>1. e[n] = Here /\ e[n + 1] = g.target
      <4>1. n \in 1 .. n
        BY <1>1
      <4> HIDE DEF n
      <4> QED
        BY <1>4, <2>1, <4>1
    <3>2. Records \subseteq s10
      BY DEF SearchInv
    <3> QED
      BY <1>2, <3>1, <3>2 DEF Says, Linked
  <2>5. \A i \in 1 .. n - 1 : Linked(s10, e[i], e[i + 1])
    <3>1. \A i \in 1 .. n - 1 : i \in 1 .. n /\ i + 1 \in 1 .. n
      BY <1>1
    <3>2. \A i \in 1 .. n - 1 : Linked(s10, Top.entities[i], Top.entities[i + 1])
      BY <2>1 DEF Branch
    <3> QED
      BY <1>4, <3>1, <3>2
  <2>6. \A i \in 1 .. n : i \in 1 .. n - 1 \/ i = n
    BY <1>1
  <2>7. Len(e) - 1 = n
    BY <1>1, <1>4
  <2> HIDE DEF n
  <2> QED
    BY <1>4, <2>2, <2>3, <2>4, <2>5, <2>6, <2>7 DEF Branch
<1>9. Len(t) = Len(e) - 1
  BY <1>1, <1>4, <1>5
<1>10. EntryOK(K, H, Longer(g))
  BY <1>7, <1>8, <1>9 DEF EntryOK
<1> QED
  BY <1>4, <1>5, <1>7, <1>10

\* A branch begins with what is on top, and goes on by an edge of a type.
GoingOn(K, H, q, type) ==
    /\ q \in Seq(K) /\ Len(q) <= H + 1
    /\ \A i, j \in 1 .. Len(q) : q[i] = q[j] => i = j
    /\ Begins(Top.entities, q) /\ Len(Top.entities) < Len(q)
    /\ Says(Records, Here, q[Len(Top.entities) + 1], type)

\* Then it begins with what is pushed.
LEMMA GoesOn ==
  ASSUME NEW K, NEW H \in Nat, SearchInv(K, H), s4 = "search", Len(s5) > 0,
         NEW q, NEW type, GoingOn(K, H, q, type)
  PROVE  \E g \in Pushed(K, H) : /\ g.target = q[Len(Top.entities) + 1] /\ g.type = type
                                 /\ Begins(Longer(g).entities, q)
<1>0. /\ q \in Seq(K) /\ Len(q) <= H + 1
      /\ \A i, j \in 1 .. Len(q) : q[i] = q[j] => i = j
      /\ Begins(Top.entities, q) /\ Len(Top.entities) < Len(q)
      /\ Says(Records, Here, q[Len(Top.entities) + 1], type)
  BY DEF GoingOn
<1> DEFINE n == Len(Top.entities)
           x == q[n + 1]
<1>1. n \in Nat \ {0} /\ Len(Top.types) = n - 1
  BY ReadIs DEF EntryOK
<1>2. Len(q) \in Nat /\ n + 1 \in 1 .. Len(q)
  BY <1>0, <1>1
<1>3. Len(Top.types) < H
  BY <1>0, <1>1, <1>2
<1>4. PICK g \in Read(H) : g.target = x /\ g.type = type
  BY <1>0, <1>3, ReadIs
<1>5. x \in K
  BY <1>0, <1>2, ElementOfSeq
<1>6. x \notin OnTop
  <2> SUFFICES ASSUME NEW i \in 1 .. n, Top.entities[i] = x PROVE FALSE
    BY DEF OnTop
  <2>1. q[i] = x /\ i \in 1 .. Len(q) /\ i # n + 1
    BY <1>0, <1>1, <1>2 DEF Begins
  <2> QED
    BY <1>0, <1>2, <2>1
<1>7. g \in Pushed(K, H)
  BY <1>4, <1>5, <1>6 DEF Pushed
<1>8. /\ Len(Longer(g).entities) = n + 1
      /\ \A i \in 1 .. n : Longer(g).entities[i] = Top.entities[i]
      /\ Longer(g).entities[n + 1] = x
  BY <1>4, <1>7, LongerIs
<1>9. \A i \in 1 .. n + 1 : q[i] = Longer(g).entities[i]
  <2>1. \A i \in 1 .. n + 1 : i \in 1 .. n \/ i = n + 1
    BY <1>1
  <2>2. \A i \in 1 .. n : q[i] = Top.entities[i]
    BY <1>0 DEF Begins
  <2> HIDE DEF n
  <2> QED
    BY <1>8, <2>1, <2>2 DEF x
<1>10. Begins(Longer(g).entities, q)
  BY <1>2, <1>8, <1>9 DEF Begins
<1> QED
  BY <1>4, <1>7, <1>10

\* With the type that sorts first, what is pushed is as good as the top.
LEMMA StaysGood ==
  ASSUME NEW K, NEW H \in Nat, SearchInv(K, H), s4 = "search", Len(s5) > 0,
         NEW g \in Pushed(K, H)
  PROVE  Good(Longer(g)) <=> Good(Top) /\ (s8 = 0 => g.type = Best(Here, g.target))
<1> DEFINE n == Len(Top.entities)
<1>1. n \in Nat \ {0} /\ Len(Top.types) = n - 1 /\ Here = Top.entities[n]
  BY ReadIs DEF EntryOK, Here
<1>2. /\ Len(Longer(g).entities) = n + 1 /\ Len(Longer(g).types) = n
      /\ \A i \in 1 .. n : Longer(g).entities[i] = Top.entities[i]
      /\ \A i \in 1 .. n - 1 : Longer(g).types[i] = Top.types[i]
      /\ Longer(g).entities[n + 1] = g.target /\ Longer(g).types[n] = g.type
  BY LongerIs
<1>3. /\ \A i \in 1 .. n - 1 : i \in 1 .. n /\ i + 1 \in 1 .. n
      /\ \A i \in 1 .. n : i \in 1 .. n - 1 \/ i = n
      /\ n \in 1 .. n
  BY <1>1
<1> HIDE DEF n
<1>4. Canonical(Longer(g)) <=> Canonical(Top) /\ g.type = Best(Here, g.target)
  <2>1. \A i \in 1 .. n - 1 : Best(Longer(g).entities[i], Longer(g).entities[i + 1])
                                = Best(Top.entities[i], Top.entities[i + 1])
    BY <1>2, <1>3
  <2>2. Best(Longer(g).entities[n], Longer(g).entities[n + 1]) = Best(Here, g.target)
    BY <1>1, <1>2, <1>3
  <2> QED
    BY <1>1, <1>2, <1>3, <2>1, <2>2 DEF Canonical
<1> QED
  BY <1>4 DEF Good

\* What is on the stack after an iteration is an entry, as what is recorded.
LEMMA VisitTypes ==
  ASSUME NEW K, NEW L, NEW H \in Nat, NEW W, SearchInv(K, H), Graph(K, L, H, W)!Visit
  PROVE  /\ (\A k \in 1 .. Len(s5) : EntryOK(K, H, s5[k]))'
         /\ (\A p \in s6 : EntryOK(K, H, p) /\ Len(p.entities) > 1)'
         /\ s7' \subseteq K
<1>1. /\ s4 = "search" /\ Len(s5) > 0 /\ UNCHANGED <<s1, s2, s3, s4, s8, s9, s10>>
      /\ s5' \in Seq(Entry(K)) /\ Len(s5') >= Len(s5) - 1
      /\ \A k \in 1 .. Len(s5) - 1 : s5'[k] = s5[k]
      /\ \A k \in Len(s5) .. Len(s5') : \E h \in Pushed(K, H) : s5'[k] = Longer(h)
      /\ s6' = IF Len(Top.entities) = 1 \/ Recorded(Top.entities) THEN s6 ELSE s6 \cup {Top}
      /\ s7' = s7 \cup ({g.target : g \in Read(H)} \cap OnTop)
  <2>1. Visited(K, H)
    BY VisitIs
  <2> QED
    BY <2>1 DEF Visited
<1>3. Len(s5) \in Nat /\ Len(s5') \in Nat
  BY <1>1 DEF SearchInv
<1>4. \A k \in 1 .. Len(s5') : k \in 1 .. Len(s5) - 1 \/ k \in Len(s5) .. Len(s5')
  BY <1>3
<1>5. \A k \in 1 .. Len(s5) - 1 : EntryOK(K, H, s5[k])
  BY <1>3 DEF SearchInv
<1>6. \A g \in Pushed(K, H) : EntryOK(K, H, Longer(g))
  BY <1>1, LongerIs
<1>7. \A k \in 1 .. Len(s5') : EntryOK(K, H, s5'[k])
  BY <1>1, <1>4, <1>5, <1>6
<1>8. EntryOK(K, H, Top) /\ Len(Top.entities) \in Nat \ {0}
  BY <1>1, ReadIs
<1>9. \A p \in s6' : EntryOK(K, H, p) /\ Len(p.entities) > 1
  <2>1. \A p \in s6 : EntryOK(K, H, p) /\ Len(p.entities) > 1
    BY DEF SearchInv
  <2>2. Len(Top.entities) # 1 => Len(Top.entities) > 1
    <3>1. \A n \in Nat \ {0} : n # 1 => n > 1
      OBVIOUS
    <3> QED
      BY <1>8, <3>1
  <2>3. s6' = s6 \/ (Len(Top.entities) # 1 /\ s6' = s6 \cup {Top})
    BY <1>1
  <2> QED
    BY <1>8, <2>1, <2>2, <2>3
<1>10. OnTop \subseteq K
  BY <1>1, ReadIs, ElementOfSeq DEF OnTop
<1>11. s7' \subseteq K
  BY <1>1, <1>10 DEF SearchInv
<1> QED
  BY <1>1, <1>7, <1>9, <1>11 DEF EntryOK, Branch

\* What is recorded, or to come, still is: if it was to come from the top, it is
\* recorded now, or begins with what is pushed.
LEMMA StillAwaited ==
  ASSUME NEW K, NEW L, NEW H \in Nat, NEW W, SearchInv(K, H), Graph(K, L, H, W)!Visit,
         NEW q \in Seq(K), Branch(K, s9, H, q), Len(q) > 1, NEW k \in 0 .. Len(s5) - 1,
         Recorded(q) \/ Awaited(k, q)
  PROVE  Recorded(q)' \/ Awaited(k, q)'
<1> DEFINE n == Len(s5)
<1>1. /\ s4 = "search" /\ Len(s5) > 0 /\ UNCHANGED <<s1, s2, s3, s4, s8, s9, s10>>
      /\ s5' \in Seq(Entry(K)) /\ Len(s5') >= n - 1
      /\ \A i \in 1 .. n - 1 : s5'[i] = s5[i]
      /\ \A g \in Pushed(K, H) : \E i \in n .. Len(s5') : s5'[i] = Longer(g)
      /\ s6' = IF Len(Top.entities) = 1 \/ Recorded(Top.entities) THEN s6 ELSE s6 \cup {Top}
  <2>1. Visited(K, H)
    BY VisitIs
  <2> QED
    BY <2>1 DEF Visited
<1>2. n \in Nat /\ Len(s5') \in Nat
  BY <1>1 DEF SearchInv
<1>3. \A e : Good(e) <=> Good(e)'
  BY <1>1 DEF Good, Canonical, Best, Records, Says
<1>4. CASE Recorded(q)
  BY <1>1, <1>4 DEF Recorded
<1>5. ASSUME NEW j \in k + 1 .. n - 1, Good(s5[j]), Begins(s5[j].entities, q)
      PROVE  Awaited(k, q)'
  <2>1. j \in k + 1 .. Len(s5') /\ s5'[j] = s5[j]
    BY <1>1, <1>2
  <2> QED
    BY <1>3, <1>5, <2>1 DEF Awaited
<1>6. ASSUME Good(Top), Begins(Top.entities, q), Len(Top.entities) = Len(q) PROVE Recorded(q)'
  <2>1. Top.entities \in Seq(K)
    BY <1>1, ReadIs
  <2>2. Top.entities = q
    BY <1>6, <2>1, SeqEqual DEF Begins
  <2>3. Len(Top.entities) # 1
    <3>1. \A m \in Nat : m > 1 => m # 1
      OBVIOUS
    <3>2. Len(q) # 1
      BY <3>1
    <3> QED
      BY <2>2, <3>2
  <2> QED
    BY <1>1, <2>2, <2>3 DEF Recorded
<1>7. ASSUME Good(Top), Begins(Top.entities, q), Len(Top.entities) < Len(q) PROVE Awaited(k, q)'
  <2> DEFINE m == Len(Top.entities)
             x == q[m + 1]
  <2>1. m \in Nat \ {0} /\ Len(q) \in Nat
    BY <1>1, ReadIs
  <2>2. Linked(Records, Here, x)
    <3>1. m \in 1 .. Len(q) - 1
      BY <1>7, <2>1
    <3>2. Linked(s9, q[m], q[m + 1])
      BY <3>1 DEF Branch
    <3>3. q[m] = Here
      BY <1>7, <2>1 DEF Begins, Here
    <3>4. s9 \subseteq Records
      BY <1>1 DEF SearchInv
    <3> QED
      BY <3>2, <3>3, <3>4 DEF Linked
  <2>3. Says(Records, Here, x, Best(Here, x))
    BY <2>2, RecordsAre
  <2> HIDE DEF m
  <2>4. PICK g \in Pushed(K, H) : /\ g.target = x /\ g.type = Best(Here, x)
                                  /\ Begins(Longer(g).entities, q)
    <3>1. Len(q) <= H + 1 /\ \A i, j \in 1 .. Len(q) : q[i] = q[j] => i = j
      BY DEF Branch
    <3>2. GoingOn(K, H, q, Best(Here, x))
      BY <1>7, <2>3, <3>1 DEF GoingOn, m
    <3> QED
      BY <1>1, <3>2, GoesOn DEF m
  <2>5. Good(Longer(g))
    BY <1>1, <1>7, <2>4, StaysGood
  <2>6. PICK i \in n .. Len(s5') : s5'[i] = Longer(g)
    BY <1>1
  <2>7. i \in k + 1 .. Len(s5')
    BY <1>2
  <2> QED
    BY <1>3, <2>4, <2>5, <2>6, <2>7 DEF Awaited
<1>8. CASE Awaited(k, q)
  <2>1. PICK j \in k + 1 .. n : Good(s5[j]) /\ Begins(s5[j].entities, q)
    BY <1>8 DEF Awaited
  <2>2. j \in k + 1 .. n - 1 \/ s5[j] = Top
    BY <1>2 DEF Top
  <2>3. CASE s5[j] = Top
    <3>1. Len(Top.entities) <= Len(q) /\ Len(Top.entities) \in Nat /\ Len(q) \in Nat
      BY <1>1, <2>1, <2>3, ReadIs DEF Begins
    <3>2. Len(Top.entities) = Len(q) \/ Len(Top.entities) < Len(q)
      BY <3>1
    <3> QED
      BY <1>6, <1>7, <2>1, <2>3, <3>2
  <2> QED
    BY <1>5, <2>1, <2>2, <2>3
<1> QED
  BY <1>4, <1>8

\* The stack still covers what is not recorded.
LEMMA VisitCovers ==
  ASSUME NEW K, NEW L, NEW H \in Nat, NEW W, SearchInv(K, H), Graph(K, L, H, W)!Visit
  PROVE  Covered(K, H)'
<1>1. /\ s4 = "search" /\ Len(s5) > 0 /\ UNCHANGED <<s1, s2, s3, s4, s8, s9, s10>>
      /\ s5' \in Seq(Entry(K)) /\ Len(s5') >= Len(s5) - 1
      /\ \A k \in 1 .. Len(s5) - 1 : s5'[k] = s5[k]
      /\ \A k \in Len(s5) .. Len(s5') :
            \E h \in Pushed(K, H) :
               /\ s5'[k] = Longer(h)
               /\ \A g \in Pushed(K, H) : Earlier(g, h) => \E j \in k + 1 .. Len(s5') : s5'[j] = Longer(g)
      /\ s6' = IF Len(Top.entities) = 1 \/ Recorded(Top.entities) THEN s6 ELSE s6 \cup {Top}
  <2>1. Visited(K, H)
    BY VisitIs
  <2> QED
    BY <2>1 DEF Visited
<1> DEFINE n == Len(s5)
<1>2. n \in Nat /\ Len(s5') \in Nat
  BY <1>1 DEF SearchInv
<1>3. \A e : Good(e) <=> Good(e)'
  BY <1>1 DEF Good, Canonical, Best, Records, Says
<1>4. \A q : Branch(K, s9, H, q)' <=> Branch(K, s9, H, q)
  BY <1>1 DEF Branch
<1>5. Covered(K, H)
  BY <1>1 DEF SearchInv
<1> SUFFICES ASSUME NEW q \in Seq(K), Branch(K, s9, H, q), Len(q) > 1, NEW k \in 0 .. Len(s5'),
                    k = 0 \/ (~ Good(s5'[k]) /\ Begins(s5'[k].entities, q))
             PROVE  Recorded(q)' \/ Awaited(k, q)'
  BY <1>3, <1>4 DEF Covered
<1>6. CASE k \in 0 .. n - 1
  <2>1. k \in 0 .. n /\ (k = 0 \/ (~ Good(s5[k]) /\ Begins(s5[k].entities, q)))
    BY <1>1, <1>2, <1>6
  <2>2. Recorded(q) \/ Awaited(k, q)
    BY <1>5, <2>1 DEF Covered
  <2> QED
    BY <1>6, <2>2, StillAwaited
<1>7. CASE k \in n .. Len(s5')
  <2>1. PICK h \in Pushed(K, H) :
           /\ s5'[k] = Longer(h)
           /\ \A g \in Pushed(K, H) : Earlier(g, h) => \E j \in k + 1 .. Len(s5') : s5'[j] = Longer(g)
    BY <1>1, <1>7
  <2>2. k # 0 /\ ~ Good(Longer(h)) /\ Begins(Longer(h).entities, q)
    BY <1>1, <1>2, <1>7, <2>1
  <2>3. Begins(Top.entities, q)
    <3> DEFINE m == Len(Top.entities)
    <3>1. Len(Longer(h).entities) = m + 1 /\ \A i \in 1 .. m : Longer(h).entities[i] = Top.entities[i]
      BY <1>1, LongerIs
    <3>2. m \in Nat /\ Len(q) \in Nat
      BY <1>1, ReadIs
    <3>3. m + 1 <= Len(q) /\ \A i \in 1 .. m + 1 : q[i] = Longer(h).entities[i]
      BY <2>2, <3>1 DEF Begins
    <3>4. \A i \in 1 .. m : i \in 1 .. m + 1
      BY <3>2
    <3>5. m <= Len(q)
      BY <3>2, <3>3
    <3>6. \A i \in 1 .. m : q[i] = Top.entities[i]
      <4> HIDE DEF m
      <4> QED
        BY <3>1, <3>3, <3>4
    <3> QED
      BY <3>5, <3>6 DEF Begins
  <2>4. CASE ~ Good(Top)
    <3>1. n \in 0 .. n /\ ~ Good(s5[n]) /\ Begins(s5[n].entities, q)
      BY <1>2, <2>3, <2>4 DEF Top
    <3>2. Recorded(q) \/ Awaited(n, q)
      BY <1>5, <3>1 DEF Covered
    <3>3. Recorded(q)
      BY <1>2, <3>2 DEF Awaited
    <3> QED
      BY <1>1, <3>3 DEF Recorded
  <2>5. CASE Good(Top)
    <3>1. s8 = 0 /\ h.type # Best(Here, h.target)
      BY <1>1, <2>2, <2>5, StaysGood
    <3>2. h \in Read(H) /\ h.target \in K /\ h.target \notin OnTop
      BY DEF Pushed
    <3>3. Says(Records, Here, h.target, h.type) /\ Len(Top.types) < H
      BY <1>1, <3>2, ReadIs
    <3>4. /\ h.type \in Types /\ h.type # "BLOCKS"
          /\ Says(Records, Here, h.target, "BLOCKS") /\ Best(Here, h.target) = "BLOCKS"
      BY <3>1, <3>3, RecordsAre DEF Best, Types
    <3>5. PICK g \in Read(H) : g.target = h.target /\ g.type = "BLOCKS"
      BY <1>1, <3>3, <3>4, ReadIs
    <3>6. g \in Pushed(K, H) /\ Earlier(g, h)
      BY <3>2, <3>4, <3>5 DEF Pushed, Earlier
    <3>7. PICK j \in k + 1 .. Len(s5') : s5'[j] = Longer(g)
      BY <2>1, <3>6
    <3>8. Good(Longer(g))
      BY <1>1, <2>5, <3>4, <3>5, <3>6, StaysGood
    <3>9. Longer(g).entities = Longer(h).entities
      BY <3>5 DEF Longer
    <3> QED
      BY <1>3, <2>2, <3>7, <3>8, <3>9 DEF Awaited
  <2> QED
    BY <2>4, <2>5
<1>8. k \in 0 .. n - 1 \/ k \in n .. Len(s5')
  BY <1>2
<1> QED
  BY <1>6, <1>7, <1>8

\* What is recorded has the types that sort first, while nothing is written: what has
\* others was covered by what is above it, and is recorded already.
LEMMA VisitGood ==
  ASSUME NEW K, NEW L, NEW H \in Nat, NEW W, SearchInv(K, H), Graph(K, L, H, W)!Visit
  PROVE  (\A p \in s6 : Good(p))'
<1>1. /\ s4 = "search" /\ Len(s5) > 0 /\ UNCHANGED <<s1, s2, s3, s4, s8, s9, s10>>
      /\ s6' = IF Len(Top.entities) = 1 \/ Recorded(Top.entities) THEN s6 ELSE s6 \cup {Top}
  <2>1. Visited(K, H)
    BY VisitIs
  <2> QED
    BY <2>1 DEF Visited
<1>2. \A e : Good(e) <=> Good(e)'
  BY <1>1 DEF Good, Canonical, Best, Records, Says
<1>3. \A p \in s6 : Good(p)
  BY DEF SearchInv
<1>4. /\ EntryOK(K, H, Top) /\ Len(Top.entities) \in Nat \ {0} /\ Len(s5) \in Nat \ {0}
      /\ Top.entities \in Seq(K)
  BY <1>1, ReadIs
<1>5. ASSUME ~ Good(Top), Len(Top.entities) # 1 PROVE Recorded(Top.entities)
  <2> DEFINE q == Top.entities
             n == Len(s5)
  <2>1. s9 = s10 /\ Covered(K, H)
    BY <1>1, <1>5 DEF SearchInv, Good
  <2>2. Branch(K, s9, H, q)
    BY <1>4, <2>1 DEF EntryOK
  <2>3. Len(q) > 1
    <3>1. \A m \in Nat \ {0} : m # 1 => m > 1
      OBVIOUS
    <3> QED
      BY <1>4, <1>5, <3>1
  <2>4. n \in 0 .. n /\ ~ Good(s5[n]) /\ Begins(s5[n].entities, q)
    <3>1. \A m \in Nat : m <= m /\ m \in 0 .. m
      OBVIOUS
    <3>2. Begins(q, q) /\ n \in 0 .. n
      BY <1>4, <3>1 DEF Begins
    <3> QED
      BY <1>5, <3>2 DEF Top
  <2>5. Recorded(q) \/ Awaited(n, q)
    BY <1>4, <2>1, <2>2, <2>3, <2>4 DEF Covered
  <2>6. ~ Awaited(n, q)
    BY <1>4 DEF Awaited
  <2> QED
    BY <2>5, <2>6
<1>6. \A p \in s6' : Good(p)
  BY <1>1, <1>3, <1>5
<1> QED
  BY <1>2, <1>6

\* What closes a cycle is noted when the last of the branch is visited.
LEMMA VisitCycles ==
  ASSUME NEW K, NEW L, NEW H \in Nat, NEW W, SearchInv(K, H), Graph(K, L, H, W)!Visit, s8 = 0
  PROVE  CyclesOK(K, H)'
<1>1. /\ s4 = "search" /\ Len(s5) > 0 /\ UNCHANGED <<s1, s2, s3, s4, s8, s9, s10>>
      /\ \A i \in 1 .. Len(s5) - 1 : s5'[i] = s5[i]
      /\ Len(s5') >= Len(s5) - 1 /\ s5' \in Seq(Entry(K))
      /\ \A g \in Pushed(K, H) : \E i \in Len(s5) .. Len(s5') : s5'[i] = Longer(g)
      /\ s7' = s7 \cup ({g.target : g \in Read(H)} \cap OnTop)
  <2>1. Visited(K, H)
    BY VisitIs
  <2> QED
    BY <2>1 DEF Visited
<1>2. s10 = Records /\ CyclesOK(K, H)
  BY <1>1 DEF SearchInv
<1>3. /\ EntryOK(K, H, Top) /\ Len(Top.entities) \in Nat \ {0} /\ Len(s5) \in Nat \ {0}
      /\ Top.entities \in Seq(K) /\ Len(Top.types) = Len(Top.entities) - 1 /\ Len(s5') \in Nat
  BY <1>1, ReadIs DEF EntryOK
<1>4. \A p : /\ Branch(K, Records, H - 1, p)' <=> Branch(K, Records, H - 1, p)
             /\ \A c : Closing(p, c)' <=> Closing(p, c)
  BY <1>1 DEF Branch, Closing, Records, Linked
<1>5. ASSUME NEW c \in s7'
      PROVE  \E p \in Seq(K) : Branch(K, Records, H - 1, p) /\ Closing(p, c)
  <2>1. CASE c \in s7
    BY <1>2, <2>1 DEF CyclesOK
  <2>2. CASE c \notin s7
    <3>1. PICK g \in Read(H) : g.target = c /\ c \in OnTop
      BY <1>1, <2>2
    <3>2. Says(Records, Here, c, g.type) /\ Len(Top.types) < H
      BY <1>1, <3>1, ReadIs
    <3>3. Closing(Top.entities, c)
      BY <3>1, <3>2 DEF Closing, OnTop, Here, Says, Linked
    <3>4. Len(Top.entities) \in 1 .. H - 1 + 1
      BY <1>3, <3>2
    <3>5. Branch(K, Records, H - 1, Top.entities)
      BY <1>2, <1>3, <3>4 DEF EntryOK, Branch
    <3> QED
      BY <1>3, <3>3, <3>5
  <2> QED
    BY <2>1, <2>2
<1>6. ASSUME NEW p \in Seq(K), NEW c \in K, Branch(K, Records, H - 1, p), Closing(p, c)
      PROVE  c \in s7' \/ \E j \in 1 .. Len(s5') : Begins(s5'[j].entities, p)
  <2> DEFINE m == Len(Top.entities)
             n == Len(s5)
  <2>0. Len(p) \in 1 .. H /\ \A i, j \in 1 .. Len(p) : p[i] = p[j] => i = j
    BY <1>6 DEF Branch
  <2>1. CASE c \in s7
    BY <1>1, <2>1
  <2>2. ASSUME NEW j \in 1 .. n - 1, Begins(s5[j].entities, p)
        PROVE  \E k \in 1 .. Len(s5') : Begins(s5'[k].entities, p)
    <3>1. j \in 1 .. Len(s5') /\ s5'[j] = s5[j]
      BY <1>1, <1>3
    <3> QED
      BY <2>2, <3>1
  <2>3. ASSUME Begins(Top.entities, p), m = Len(p) PROVE c \in s7'
    <3>1. Top.entities = p
      BY <1>3, <2>3, SeqEqual DEF Begins
    <3>2. c \in OnTop /\ Linked(Records, Here, c)
      BY <1>6, <3>1 DEF Closing, OnTop, Here
    <3>3. PICK type : Says(Records, Here, c, type)
      BY <3>2 DEF Linked, Says
    <3>4. Len(Top.types) < H
      BY <1>3, <2>0, <2>3
    <3>5. \E g \in Read(H) : g.target = c
      BY <1>1, <3>3, <3>4, ReadIs
    <3> QED
      BY <1>1, <3>2, <3>5
  <2>4. ASSUME Begins(Top.entities, p), m < Len(p)
        PROVE  \E k \in 1 .. Len(s5') : Begins(s5'[k].entities, p)
    <3>1. Linked(Records, p[m], p[m + 1]) /\ p[m] = Here
      <4>1. m \in 1 .. Len(p) - 1 /\ m \in 1 .. m
        BY <1>3, <2>0, <2>4
      <4> QED
        BY <1>6, <2>4, <4>1 DEF Branch, Begins, Here
    <3>2. PICK type : Says(Records, Here, p[m + 1], type)
      BY <3>1 DEF Linked, Says
    <3>3. Len(p) <= H + 1
      BY <2>0
    <3>4. GoingOn(K, H, p, type)
      BY <2>0, <2>4, <3>2, <3>3 DEF GoingOn
    <3>5. PICK g \in Pushed(K, H) : Begins(Longer(g).entities, p)
      BY <1>1, <3>4, GoesOn
    <3>6. PICK i \in n .. Len(s5') : s5'[i] = Longer(g)
      BY <1>1
    <3>7. i \in 1 .. Len(s5')
      BY <1>3
    <3> QED
      BY <3>5, <3>6, <3>7
  <2>5. ASSUME NEW j \in 1 .. n, Begins(s5[j].entities, p)
        PROVE  c \in s7' \/ \E k \in 1 .. Len(s5') : Begins(s5'[k].entities, p)
    <3>1. CASE j \in 1 .. n - 1
      BY <2>2, <2>5, <3>1
    <3>2. CASE j = n
      <4>1. Begins(Top.entities, p)
        BY <2>5, <3>2 DEF Top
      <4>2. m = Len(p) \/ m < Len(p)
        BY <1>3, <2>0, <4>1 DEF Begins
      <4> QED
        BY <2>3, <2>4, <4>1, <4>2
    <3> QED
      BY <1>3, <3>1, <3>2
  <2> QED
    BY <1>2, <1>6, <2>1, <2>5 DEF CyclesOK
<1> QED
  BY <1>4, <1>5, <1>6 DEF CyclesOK

LEMMA SearchVisits ==
  ASSUME NEW K, NEW L, NEW H \in Nat, NEW W, SearchInv(K, H), Graph(K, L, H, W)!Visit
  PROVE  SearchInv(K, H)'
<1>1. /\ s4 = "search" /\ UNCHANGED <<s1, s2, s3, s4, s8, s9, s10>>
      /\ s5' \in Seq(Entry(K))
  <2>1. Visited(K, H)
    BY VisitIs
  <2> QED
    BY <2>1 DEF Visited
<1>2. /\ (\A k \in 1 .. Len(s5) : EntryOK(K, H, s5[k]))'
      /\ (\A p \in s6 : EntryOK(K, H, p) /\ Len(p.entities) > 1)'
      /\ s7' \subseteq K
  BY VisitTypes
<1>3. (\A p \in s6 : Good(p))' /\ Covered(K, H)'
  BY VisitGood, VisitCovers
<1>4. s8 = 0 => CyclesOK(K, H)'
  BY VisitCycles
<1>5. Records' = Records
  BY <1>1 DEF Records
<1> QED
  BY <1>1, <1>2, <1>3, <1>4, <1>5 DEF SearchInv

\* The search begins with the root alone on the stack.
LEMMA SearchBegins ==
  ASSUME NEW K, NEW L, NEW H \in Nat \ {0}, NEW W, SearchInv(K, H), Graph(K, L, H, W)!Begin
  PROVE  SearchInv(K, H)'
<1>0. PICK top : top = [entities |-> <<s3>>, types |-> <<>>]
  OBVIOUS
<1>1. /\ s4 = "idle" /\ UNCHANGED <<s1, s2, s3, s6, s7, s8>> /\ s9' = Records /\ s10' = Records
      /\ \/ s3 \in K /\ s4' = "search" /\ s5' = <<top>>
         \/ s4' = "not_found" /\ s5' = s5
  BY <1>0 DEF Graph!Begin, Graph!store, Graph!Now, Graph!Current, Records
<1>2. /\ s1 \subseteq DependencyRecords /\ IsFiniteSet(s1)
      /\ s2 \in [{FirstMeeting, SecondMeeting} -> Nat] /\ \A d \in s1 : d.revision <= s2[d.meeting]
      /\ s5 = <<>> /\ s6 = {} /\ s7 = {} /\ s8 = 0
  BY <1>1 DEF SearchInv
<1>3. Records' = Records /\ Records \subseteq DependencyRecords
  BY <1>1, <1>2 DEF Records
<1>4. CASE s4' = "not_found" /\ s5' = s5
  <2>1. s5' \in Seq(Entry(K)) /\ \A k \in 1 .. Len(s5') : FALSE
    BY <1>2, <1>4, EmptySeq
  <2> QED
    BY <1>1, <1>2, <1>4, <2>1 DEF SearchInv
<1>5. CASE s3 \in K /\ s4' = "search" /\ s5' = <<top>>
  <2>1. /\ <<s3>> \in Seq(K) /\ Len(<<s3>>) = 1 /\ <<s3>>[1] = s3
        /\ <<>> \in Seq(Types) /\ Len(<<>>) = 0
    BY <1>5, EmptySeq
  <2>2. top \in Entry(K) /\ top.entities = <<s3>> /\ top.types = <<>>
    BY <1>0, <2>1 DEF Entry
  <2>3. \A S : \A n \in Nat : Branch(K, S, n, top.entities)'
    <3>1. \A n \in Nat : 1 \in 1 .. n + 1
      OBVIOUS
    <3>2. (\A i \in 1 .. 1 : i = 1) /\ 1 .. 1 - 1 = {}
      OBVIOUS
    <3> QED
      BY <1>1, <2>1, <2>2, <3>1, <3>2 DEF Branch
  <2>4. s5' \in Seq(Entry(K)) /\ Len(s5') = 1 /\ s5'[1] = top
    BY <1>5, <2>2
  <2>5. EntryOK(K, H, top)'
    BY <2>1, <2>2, <2>3 DEF EntryOK
  <2>6. (\A k \in 1 .. Len(s5) : EntryOK(K, H, s5[k]))'
    <3>1. \A k \in 1 .. 1 : k = 1
      OBVIOUS
    <3> QED
      BY <2>4, <2>5, <3>1
  <2>7. Good(top)'
    BY <2>1, <2>2 DEF Good, Canonical
  <2>8. ASSUME NEW S, NEW q \in Seq(K), NEW n \in Int, Branch(K, S, n, q)' PROVE Begins(top.entities, q)
    <3>1. Len(q) \in 1 .. n + 1 /\ q[1] = s3
      BY <1>1, <2>8 DEF Branch
    <3>2. 1 <= Len(q)
      BY <3>1
    <3>3. \A i \in 1 .. 1 : i = 1
      OBVIOUS
    <3> QED
      BY <2>1, <2>2, <3>1, <3>2, <3>3 DEF Begins
  <2>9. Covered(K, H)'
    <3> SUFFICES ASSUME NEW q \in Seq(K), Branch(K, s9, H, q)', NEW k \in 0 .. Len(s5'),
                        k = 0 \/ (~ Good(s5[k]) /\ Begins(s5[k].entities, q))'
                 PROVE  Awaited(k, q)'
      BY DEF Covered
    <3>1. k = 0
      <4>1. k = 0 \/ k = 1
        BY <2>4
      <4> QED
        BY <2>4, <2>7, <4>1
    <3>2. Begins(top.entities, q)
      BY <2>8
    <3>3. 1 \in k + 1 .. Len(s5')
      BY <2>4, <3>1
    <3> QED
      BY <2>4, <2>7, <3>2, <3>3 DEF Awaited
  <2>10. CyclesOK(K, H)'
    <3>1. \A p \in Seq(K) : Branch(K, Records, H - 1, p)' => Begins(top.entities, p)
      <4>1. H - 1 \in Int
        OBVIOUS
      <4> QED
        BY <1>3, <2>8, <4>1
    <3>2. 1 \in 1 .. Len(s5')
      BY <2>4
    <3> QED
      BY <1>1, <1>2, <2>4, <3>1, <3>2 DEF CyclesOK
  <2> QED
    BY <1>1, <1>2, <1>3, <1>5, <2>4, <2>6, <2>9, <2>10 DEF SearchInv
<1> QED
  BY <1>1, <1>4, <1>5

\* A write leaves what is steady, and adds what becomes current; no claim on the types remains.
LEMMA SearchDisturbed ==
  ASSUME NEW K, NEW L, NEW H \in Nat, NEW W, SearchInv(K, H), s4 = "search", s8' = s8 + 1,
         UNCHANGED <<s3, s4, s5, s6, s7>>,
         s9' \subseteq s9, s10 \subseteq s10', s9' \subseteq Records', Records' \subseteq s10',
         s10' \subseteq DependencyRecords, s1' \subseteq DependencyRecords, IsFiniteSet(s1'),
         s2' \in [{FirstMeeting, SecondMeeting} -> Nat], (\A d \in s1 : d.revision <= s2[d.meeting])'
  PROVE  SearchInv(K, H)'
<1>1. s8' \in Nat /\ s8' # 0
  BY DEF SearchInv
<1>2. \A e : Good(e)'
  BY <1>1 DEF Good
<1>3. \A q : Branch(K, s10, H, q) => Branch(K, s10, H, q)'
  BY DEF Branch, Linked
<1>4. \A q : Branch(K, s9, H, q)' => Branch(K, s9, H, q)
  BY DEF Branch, Linked
<1>5. \A e : EntryOK(K, H, e) => EntryOK(K, H, e)'
  BY <1>3 DEF EntryOK
<1>6. /\ s5' \in Seq(Entry(K)) /\ (\A k \in 1 .. Len(s5) : EntryOK(K, H, s5[k]))'
      /\ (\A p \in s6 : EntryOK(K, H, p) /\ Len(p.entities) > 1)'
      /\ s7' \subseteq K /\ s3' \in K
  BY <1>5 DEF SearchInv
<1>7. Covered(K, H)'
  <2> SUFFICES ASSUME NEW q \in Seq(K), Branch(K, s9, H, q)', Len(q) > 1
               PROVE  Recorded(q)' \/ Awaited(0, q)'
    BY <1>2 DEF Covered
  <2>1. Recorded(q) \/ Awaited(0, q)
    <3>1. Covered(K, H) /\ Branch(K, s9, H, q) /\ 0 \in 0 .. Len(s5)
      BY <1>4 DEF SearchInv
    <3> QED
      BY <3>1 DEF Covered
  <2> QED
    BY <1>2, <2>1 DEF Recorded, Awaited
<1> QED
  BY <1>1, <1>2, <1>6, <1>7 DEF SearchInv

\* A revision takes what the meeting said; what it says next is not there yet.
LEMMA SearchRevises ==
  ASSUME NEW K, NEW L, NEW H \in Nat, NEW W, SearchInv(K, H),
         NEW m \in {FirstMeeting, SecondMeeting}, Graph(K, L, H, W)!Revise(m)
  PROVE  SearchInv(K, H)'
<1>1. /\ s4 = "search" /\ s8' = s8 + 1 /\ s2[m] = 1 /\ s2' = [s2 EXCEPT ![m] = 2]
      /\ s9' = {d \in s9 : d.meeting # m}
      /\ UNCHANGED <<s1, s3, s4, s5, s6, s7, s10>>
  BY DEF Graph!Revise, Graph!search
<1>2. /\ s1 \subseteq DependencyRecords /\ IsFiniteSet(s1)
      /\ s2 \in [{FirstMeeting, SecondMeeting} -> Nat] /\ \A d \in s1 : d.revision <= s2[d.meeting]
      /\ s9 \subseteq Records /\ Records \subseteq s10 /\ s10 \subseteq DependencyRecords
  BY <1>1 DEF SearchInv
<1>3. \A d \in s1 : d.meeting \in {FirstMeeting, SecondMeeting} /\ d.revision \in Nat
  BY <1>2 DEF DependencyRecords
<1>4. /\ s2' \in [{FirstMeeting, SecondMeeting} -> Nat] /\ s2'[m] = 2
      /\ \A d \in s1 : d.meeting # m => s2'[d.meeting] = s2[d.meeting]
  BY <1>1, <1>2, <1>3
<1>5. \A d \in s1 : d.meeting = m => d.revision <= 1
  BY <1>1, <1>2
<1>6. \A d \in s1 : d.revision <= s2'[d.meeting]
  BY <1>2, <1>3, <1>4, <1>5
<1>7. Records' \subseteq Records
  <2> SUFFICES ASSUME NEW d \in s1, d.revision = s2'[d.meeting] PROVE d \in Records
    BY <1>1 DEF Records
  <2>1. d.meeting # m
    BY <1>3, <1>4, <1>5
  <2> QED
    BY <1>4, <2>1 DEF Records
<1>8. s9' \subseteq Records'
  BY <1>1, <1>2, <1>4 DEF Records
<1> QED
  BY <1>1, <1>2, <1>4, <1>6, <1>7, <1>8, SearchDisturbed

\* What is saved replaces a record of an earlier revision, which was not current.
LEMMA SearchResolves ==
  ASSUME NEW K, NEW L, NEW H \in Nat, NEW W, SearchInv(K, H),
         NEW d \in DependencyRecords, Graph(K, L, H, W)!Resolve(d)
  PROVE  SearchInv(K, H)'
<1>1. /\ s4 = "search" /\ s8' = s8 + 1 /\ d.revision = s2[d.meeting] /\ d \notin s1
      /\ s1' = {e \in s1 : [e EXCEPT !.revision = d.revision] # d} \cup {d}
      /\ s10' = s10 \cup {d}
      /\ UNCHANGED <<s2, s3, s4, s5, s6, s7, s9>>
  BY DEF Graph!Resolve, Graph!search, Graph!Save
<1>2. /\ s1 \subseteq DependencyRecords /\ IsFiniteSet(s1)
      /\ s2 \in [{FirstMeeting, SecondMeeting} -> Nat] /\ \A e \in s1 : e.revision <= s2[e.meeting]
      /\ s9 \subseteq Records /\ Records \subseteq s10 /\ s10 \subseteq DependencyRecords
  BY <1>1 DEF SearchInv
<1>3. s1' \subseteq DependencyRecords /\ IsFiniteSet(s1')
  <2>1. IsFiniteSet({e \in s1 : [e EXCEPT !.revision = d.revision] # d})
    BY <1>2, FS_Subset
  <2> QED
    BY <1>1, <1>2, <2>1, FS_AddElement
<1>4. \A e \in s1' : e.revision <= s2'[e.meeting]
  <2>1. d.revision \in Nat /\ d.revision <= d.revision
    BY DEF DependencyRecords
  <2> QED
    BY <1>1, <1>2, <2>1
<1>5. Records' \subseteq s10'
  BY <1>1, <1>2 DEF Records
<1>6. s9' \subseteq Records'
  <2> SUFFICES ASSUME NEW e \in Records PROVE e \in s1'
    BY <1>1, <1>2 DEF Records
  <2>1. e \in DependencyRecords /\ e \in s1 /\ e.revision = s2[e.meeting]
    BY <1>2 DEF Records
  <2>2. ASSUME [e EXCEPT !.revision = d.revision] = d PROVE e = d
    <3>1. e.meeting = d.meeting
      BY <2>1, <2>2 DEF DependencyRecords
    <3>2. e.revision = d.revision
      BY <1>1, <2>1, <3>1
    <3> QED
      BY <2>1, <2>2, <3>2 DEF DependencyRecords
  <2> QED
    BY <1>1, <2>1, <2>2
<1> QED
  BY <1>1, <1>2, <1>3, <1>4, <1>5, <1>6, SearchDisturbed

\* Every step of the search keeps it.
LEMMA SearchStep ==
  ASSUME NEW K, NEW L, NEW H \in Nat \ {0}, NEW W, SearchInv(K, H), Graph(K, L, H, W)!Next
  PROVE  SearchInv(K, H)'
<1>1. CASE Graph(K, L, H, W)!Begin
  BY <1>1, SearchBegins
<1>2. CASE Graph(K, L, H, W)!Visit
  BY <1>2, SearchVisits
<1>3. CASE Graph(K, L, H, W)!Finish
  <2>1. s4 = "search" /\ s4' = "done" /\ s5 = <<>> /\ UNCHANGED <<s1, s2, s3, s5, s6, s7, s8, s9, s10>>
    BY <1>3 DEF Graph!Finish, Graph!store, Graph!history
  <2>2. /\ \A e : (EntryOK(K, H, e)' <=> EntryOK(K, H, e)) /\ (Good(e)' <=> Good(e))
        /\ Records' = Records /\ (Covered(K, H)' <=> Covered(K, H)) /\ (CyclesOK(K, H)' <=> CyclesOK(K, H))
    BY <2>1 DEF EntryOK, Branch, Good, Canonical, Best, Says, Records, Linked, Covered, Recorded,
                Awaited, CyclesOK, Closing
  <2> QED
    BY <2>1, <2>2 DEF SearchInv
<1>4. ASSUME NEW m \in {FirstMeeting, SecondMeeting}, Graph(K, L, H, W)!Revise(m) PROVE SearchInv(K, H)'
  BY <1>4, SearchRevises
<1>5. ASSUME NEW d \in Graph(K, L, H, W)!Records(Nodes, {FirstMeeting, SecondMeeting}, {1, 2}),
             Graph(K, L, H, W)!Resolve(d)
      PROVE  SearchInv(K, H)'
  <2>1. d \in DependencyRecords
    BY DEF Graph!Records, Graph!Types, DependencyRecords, Types
  <2> QED
    BY <1>5, <2>1, SearchResolves
<1> QED
  BY <1>1, <1>2, <1>3, <1>4, <1>5 DEF Graph!Next

\* It starts with it, whatever four, or two, records there are.
LEMMA FewFinite ==
  ASSUME NEW a, NEW b, NEW c, NEW d
  PROVE  IsFiniteSet({a, b}) /\ IsFiniteSet({a, b, c, d})
<1>1. IsFiniteSet({a} \cup {b}) /\ {a, b} = {a} \cup {b}
  BY FS_Singleton, FS_AddElement
<1>2. IsFiniteSet({a, b} \cup {c}) /\ {a, b, c} = {a, b} \cup {c}
  BY <1>1, FS_AddElement
<1>3. IsFiniteSet({a, b, c} \cup {d}) /\ {a, b, c, d} = {a, b, c} \cup {d}
  BY <1>2, FS_AddElement
<1> QED
  BY <1>1, <1>3

LEMMA SearchStarts ==
  ASSUME NEW K, NEW L, NEW H, NEW W, Graph(K, L, H, W)!Init,
         \A S \in L : /\ S \subseteq DependencyRecords /\ IsFiniteSet(S)
                     /\ \A d \in S : d.revision <= 1
  PROVE  SearchInv(K, H)
<1>1. /\ s1 \in L /\ s2 = [m \in {FirstMeeting, SecondMeeting} |-> 1] /\ s4 = "idle" /\ s5 = <<>>
      /\ s6 = {} /\ s7 = {} /\ s8 = 0
  BY DEF Graph!Init
<1>2. s5 \in Seq(Entry(K)) /\ \A k \in 1 .. Len(s5) : FALSE
  BY <1>1, EmptySeq
<1>3. s2 \in [{FirstMeeting, SecondMeeting} -> Nat] /\ \A d \in s1 : d.revision <= s2[d.meeting]
  BY <1>1 DEF DependencyRecords
<1> QED
  BY <1>1, <1>2, <1>3 DEF SearchInv

\* The records of the two parts.
LEMMA LoadsOK ==
  \A S \in AnyFour \cup AnyTwo : /\ S \subseteq DependencyRecords /\ IsFiniteSet(S)
                              /\ \A d \in S : d.revision <= 1
<1>1. \A d \in Stated : d \in DependencyRecords /\ d.revision <= 1
  BY DEF Stated, D!Records, D!Types, DependencyRecords, Types
<1>2. \A d \in D!Records(Nodes, {SecondMeeting}, {0, 1}) : d \in DependencyRecords /\ d.revision <= 1
  BY DEF D!Records, D!Types, DependencyRecords, Types
<1>3. ASSUME NEW S \in AnyFour
      PROVE  S \subseteq DependencyRecords /\ IsFiniteSet(S) /\ \A d \in S : d.revision <= 1
  <2>1. PICK a \in Stated, b \in Stated, c \in Stated, d \in Stated : S = {a, b, c, d}
    BY <1>3 DEF AnyFour
  <2> QED
    BY <1>1, <2>1, FewFinite
<1>4. ASSUME NEW S \in AnyTwo
      PROVE  S \subseteq DependencyRecords /\ IsFiniteSet(S) /\ \A d \in S : d.revision <= 1
  <2>1. PICK a \in Stated, b \in Stated \cup D!Records(Nodes, {SecondMeeting}, {0, 1}) : S = {a, b}
    BY <1>4 DEF AnyTwo
  <2> QED
    BY <1>1, <1>2, <2>1, FewFinite
<1> QED
  BY <1>3, <1>4

-----------------------------------------------------------------------------
(* What the invariant says when the search is done.                        *)

\* A path of at most n hops from r over the records S that visits no entity twice.
Path(K, S, r, n, p) ==
    /\ p \in Seq(K) /\ Len(p) \in 2 .. n + 1
    /\ p[1] = r
    /\ \A i, j \in 1 .. Len(p) : p[i] = p[j] => i = j
    /\ \A i \in 1 .. Len(p) - 1 : Linked(S, p[i], p[i + 1])

\* The reference definition has those.
LEMMA PathsAre ==
  ASSUME NEW K, NEW S, \A d \in S : d.target \in K, NEW r \in K, NEW n \in Nat, NEW q
  PROVE  q \in D!SimplePaths(S, r, n) <=> Path(K, S, r, n, q)
<1> DEFINE nodes == {d.target : d \in S} \cup {r}
           hops(a, b) == {d.type : d \in {c \in S : c.source = a /\ c.target = b}}
           Simple == {p \in UNION {[1 .. k + 1 -> nodes] : k \in 1 .. n} :
                         /\ p[1] = r
                         /\ \A i, j \in DOMAIN p : p[i] = p[j] => i = j
                         /\ \A i \in 1 .. Len(p) - 1 : hops(p[i], p[i + 1]) # {}}
<1>1. D!SimplePaths(S, r, n) = Simple
  BY DEF D!SimplePaths, D!HopTypes
<1>2. nodes \subseteq K
  OBVIOUS
<1>3. \A a, b : hops(a, b) # {} <=> Linked(S, a, b)
  BY DEF Linked
<1>4. \A a, b : Linked(S, a, b) => b \in nodes
  BY DEF Linked
<1>5. r \in nodes
  OBVIOUS
<1> HIDE DEF nodes, hops
<1>6. ASSUME q \in Simple PROVE Path(K, S, r, n, q)
  <2>1. PICK k \in 1 .. n : q \in [1 .. k + 1 -> nodes]
    BY <1>6
  <2>2. q \in [1 .. k + 1 -> K] /\ k + 1 \in Nat /\ k + 1 \in 2 .. n + 1
    BY <1>2, <2>1
  <2>3. q \in Seq(K) /\ Len(q) = k + 1 /\ DOMAIN q = 1 .. k + 1
    BY <2>2
  <2>4. /\ q[1] = r /\ \A i, j \in 1 .. Len(q) : q[i] = q[j] => i = j
        /\ \A i \in 1 .. Len(q) - 1 : Linked(S, q[i], q[i + 1])
    BY <1>3, <1>6, <2>3
  <2> QED
    BY <2>2, <2>3, <2>4 DEF Path
<1>7. ASSUME Path(K, S, r, n, q) PROVE q \in Simple
  <2>1. /\ q \in Seq(K) /\ Len(q) \in 2 .. n + 1
        /\ q[1] = r /\ \A i, j \in 1 .. Len(q) : q[i] = q[j] => i = j
        /\ \A i \in 1 .. Len(q) - 1 : Linked(S, q[i], q[i + 1])
    BY <1>7 DEF Path
  <2>2. DOMAIN q = 1 .. Len(q) /\ q = [i \in 1 .. Len(q) |-> q[i]]
    BY <2>1, LenProperties
  <2>3. \A i \in 1 .. Len(q) : q[i] \in nodes
    <3> SUFFICES ASSUME NEW i \in 1 .. Len(q) PROVE q[i] \in nodes
      OBVIOUS
    <3>1. i = 1 \/ (i - 1 \in 1 .. Len(q) - 1 /\ (i - 1) + 1 = i)
      BY <2>1
    <3> QED
      BY <1>4, <1>5, <2>1, <3>1
  <2>4. Len(q) - 1 \in 1 .. n /\ (Len(q) - 1) + 1 = Len(q)
    BY <2>1
  <2>5. q \in [1 .. (Len(q) - 1) + 1 -> nodes]
    BY <2>2, <2>3, <2>4
  <2>6. \A i \in 1 .. Len(q) - 1 : hops(q[i], q[i + 1]) # {}
    BY <1>3, <2>1
  <2> QED
    BY <2>1, <2>2, <2>4, <2>5, <2>6
<1> QED
  BY <1>1, <1>6, <1>7

\* The simple paths over the known entities are the branches of a hop or more.
LEMMA SimplePathsAre ==
  ASSUME NEW K, NEW L, NEW H, NEW W, NEW S \in SUBSET DependencyRecords, s3 \in K, NEW n \in Nat, NEW q
  PROVE  q \in Graph(K, L, H, W)!SimplePaths({d \in S : d.target \in K}, s3, n)
            <=> q \in Seq(K) /\ Len(q) > 1 /\ Branch(K, S, n, q)
<1> DEFINE T == {d \in S : d.target \in K}
<1>1. Graph(K, L, H, W)!SimplePaths(T, s3, n) = D!SimplePaths(T, s3, n)
  BY DEF Graph!SimplePaths, Graph!HopTypes, D!SimplePaths, D!HopTypes
<1>2. \A d \in T : d.target \in K
  OBVIOUS
<1>3. \A a, b : b \in K => (Linked(T, a, b) <=> Linked(S, a, b))
  BY DEF Linked
<1> HIDE DEF T
<1>4. q \in D!SimplePaths(T, s3, n) <=> Path(K, T, s3, n, q)
  BY <1>2, PathsAre
<1>5. ASSUME q \in Seq(K), Len(q) \in Nat
      PROVE  \A i \in 1 .. Len(q) - 1 : Linked(T, q[i], q[i + 1]) <=> Linked(S, q[i], q[i + 1])
  <2>1. \A i \in 1 .. Len(q) - 1 : i + 1 \in 1 .. Len(q)
    BY <1>5
  <2>2. \A i \in 1 .. Len(q) - 1 : q[i + 1] \in K
    BY <1>5, <2>1, ElementOfSeq
  <2> QED
    BY <1>3, <2>2
<1>6. \A m : (m \in 1 .. n + 1 /\ m > 1) <=> m \in 2 .. n + 1
  OBVIOUS
<1>7. q \in Seq(K) => Len(q) \in Nat
  BY LenProperties
<1>8. Path(K, T, s3, n, q) <=> q \in Seq(K) /\ Len(q) > 1 /\ Branch(K, S, n, q)
  BY <1>5, <1>6, <1>7 DEF Path, Branch
<1> QED
  BY <1>1, <1>4, <1>8 DEF T

\* When the search is done, the branches of steady records are recorded.
LEMMA DoneIsComplete ==
  ASSUME NEW K, NEW H \in Nat, SearchInv(K, H), s4 = "done",
         NEW q \in Seq(K), Branch(K, s9, H, q), Len(q) > 1
  PROVE  Recorded(q)
<1>1. Covered(K, H) /\ Len(s5) = 0
  BY EmptySeq DEF SearchInv
<1>2. Recorded(q) \/ Awaited(0, q)
  BY <1>1 DEF Covered
<1>3. ~ Awaited(0, q)
  BY <1>1 DEF Awaited
<1> QED
  BY <1>2, <1>3

LEMMA SearchTyped ==
  ASSUME NEW K, NEW L, NEW H \in Nat, NEW W, SearchInv(K, H)
  PROVE  Graph(K, L, H, W)!TypeOK
<1>1. /\ s4 \in {"idle", "search", "done", "not_found"} /\ s7 \subseteq K /\ s5 \in Seq(Entry(K))
      /\ \A k \in 1 .. Len(s5) : EntryOK(K, H, s5[k])
      /\ \A p \in s6 : EntryOK(K, H, p)
  BY DEF SearchInv
<1>2. DOMAIN s5 = 1 .. Len(s5)
  BY <1>1, LenProperties
<1>3. \A p \in s6 \cup Graph(K, L, H, W)!Range(s5) : EntryOK(K, H, p)
  BY <1>1, <1>2 DEF Graph!Range
<1>4. ASSUME NEW p, EntryOK(K, H, p)
      PROVE  /\ p.entities[1] = s3 /\ Graph(K, L, H, W)!Range(p.entities) \subseteq K
             /\ Len(p.types) = Len(p.entities) - 1 /\ Len(p.types) <= H
             /\ Graph(K, L, H, W)!IsInjective(p.entities)
  <2>1. /\ p.entities \in Seq(K) /\ Len(p.entities) \in 1 .. H + 1 /\ p.entities[1] = s3
        /\ Len(p.types) = Len(p.entities) - 1
        /\ \A i, j \in 1 .. Len(p.entities) : p.entities[i] = p.entities[j] => i = j
    BY <1>4 DEF EntryOK, Branch
  <2>2. DOMAIN p.entities = 1 .. Len(p.entities) /\ \A i \in 1 .. Len(p.entities) : p.entities[i] \in K
    BY <2>1, LenProperties, ElementOfSeq
  <2>3. Len(p.types) <= H
    <3>1. \A m \in 1 .. H + 1 : m - 1 <= H
      OBVIOUS
    <3> QED
      BY <2>1, <3>1
  <2> QED
    BY <2>1, <2>2, <2>3 DEF Graph!Range, Graph!IsInjective
<1> QED
  BY <1>1, <1>3, <1>4 DEF Graph!TypeOK

\* Undisturbed, the paths are those of the reference definition.
LEMMA SearchComplete ==
  ASSUME NEW K, NEW L, NEW H \in Nat, NEW W, SearchInv(K, H)
  PROVE  Graph(K, L, H, W)!AllPathsOnce
<1> SUFFICES ASSUME s4 = "done", s8 = 0 PROVE Graph(K, L, H, W)!AllPathsOnce
  BY DEF Graph!AllPathsOnce
<1> DEFINE hops(p) == [i \in 1 .. Len(p) - 1 |-> Best(p[i], p[i + 1])]
           S == Graph(K, L, H, W)!SimplePaths(Graph(K, L, H, W)!Reachable, s3, H)
<1>1. /\ s3 \in K /\ s9 = Records /\ s10 = Records /\ Records \subseteq DependencyRecords
      /\ \A p \in s6 : EntryOK(K, H, p) /\ Len(p.entities) > 1 /\ Canonical(p)
  BY DEF SearchInv, Good
<1>2. Graph(K, L, H, W)!Now = Records
  BY DEF Graph!Now, Graph!Current, Records
<1>3. \A a, b : Graph(K, L, H, W)!HopType(Records, a, b) = Best(a, b)
  <2>1. \A a, b : "BLOCKS" \in Graph(K, L, H, W)!HopTypes(Records, a, b) <=> Says(Records, a, b, "BLOCKS")
    BY DEF Graph!HopTypes, Says
  <2> QED
    BY <2>1 DEF Graph!HopType, Best
<1>4. Graph(K, L, H, W)!Reachable = {d \in Records : d.target \in K}
  BY <1>2 DEF Graph!Reachable
<1>5. \A q : q \in S <=> q \in Seq(K) /\ Len(q) > 1 /\ Branch(K, Records, H, q)
  BY <1>1, <1>4, SimplePathsAre
<1> HIDE DEF S
<1>6. ASSUME NEW e \in s6 PROVE e.entities \in S /\ e = [entities |-> e.entities, types |-> hops(e.entities)]
  <2>1. EntryOK(K, H, e) /\ Len(e.entities) > 1 /\ Canonical(e)
    BY <1>1
  <2>2. /\ e = [entities |-> e.entities, types |-> e.types] /\ e.types \in Seq(Types)
        /\ e.entities \in Seq(K) /\ Len(e.types) = Len(e.entities) - 1
        /\ Branch(K, Records, H, e.entities)
    BY <1>1, <2>1 DEF EntryOK, Entry
  <2>3. e.types = [i \in 1 .. Len(e.types) |-> e.types[i]]
    BY <2>2, LenProperties
  <2>4. e.types = hops(e.entities)
    BY <2>1, <2>2, <2>3 DEF Canonical
  <2> QED
    BY <1>5, <2>1, <2>2, <2>4
<1>7. ASSUME NEW q \in S PROVE \E e \in s6 : e.entities = q
  <2>1. Recorded(q)
    BY <1>1, <1>5, DoneIsComplete
  <2> QED
    BY <2>1 DEF Recorded
<1>8. s6 = {[entities |-> p, types |-> hops(p)] : p \in S}
  <2> HIDE DEF hops
  <2> QED
    BY <1>6, <1>7
<1>9. Graph(K, L, H, W)!AllPathsOnce
        <=> (s4 = "done" /\ s8 = 0 =>
                s6 = {[entities |-> p,
                       types |-> [i \in 1 .. Len(p) - 1 |->
                                    Graph(K, L, H, W)!HopType(Graph(K, L, H, W)!Now, p[i], p[i + 1])]] : p \in S})
  BY DEF Graph!AllPathsOnce, S
<1> QED
  BY <1>2, <1>3, <1>8, <1>9

\* Undisturbed, the ends of cycles are those of its branches.
LEMMA SearchCycles ==
  ASSUME NEW K \in SUBSET Nodes, NEW L, NEW H \in Nat \ {0}, NEW W, SearchInv(K, H)
  PROVE  Graph(K, L, H, W)!CyclesExact
<1> SUFFICES ASSUME s4 = "done", s8 = 0 PROVE Graph(K, L, H, W)!CyclesExact
  BY DEF Graph!CyclesExact
<1> DEFINE S == Graph(K, L, H, W)!SimplePaths(Graph(K, L, H, W)!Reachable, s3, H - 1) \cup {<<s3>>}
<1>1. /\ s3 \in K /\ CyclesOK(K, H) /\ Len(s5) = 0 /\ s7 \subseteq K
      /\ Records \subseteq DependencyRecords
  BY EmptySeq DEF SearchInv
<1>2. Graph(K, L, H, W)!Reachable = {d \in Records : d.target \in K}
  BY DEF Graph!Reachable, Graph!Now, Graph!Current, Records
<1>3. \A q : q \in S <=> q \in Seq(K) /\ Branch(K, Records, H - 1, q)
  <2>1. H - 1 \in Nat
    OBVIOUS
  <2>2. \A q : q \in S <=> q = <<s3>> \/ (q \in Seq(K) /\ Len(q) > 1 /\ Branch(K, Records, H - 1, q))
    BY <1>1, <1>2, <2>1, SimplePathsAre
  <2>3. <<s3>> \in Seq(K) /\ Branch(K, Records, H - 1, <<s3>>)
    <3>1. <<s3>> \in Seq(K) /\ Len(<<s3>>) = 1 /\ <<s3>>[1] = s3
      BY <1>1
    <3>2. 1 \in 1 .. H - 1 + 1 /\ (\A i \in 1 .. 1 : i = 1) /\ 1 .. 1 - 1 = {}
      OBVIOUS
    <3> QED
      BY <3>1, <3>2 DEF Branch
  <2>4. ASSUME NEW q \in Seq(K), Branch(K, Records, H - 1, q), ~ (Len(q) > 1) PROVE q = <<s3>>
    <3>1. Len(q) \in Nat /\ Len(q) = 1 /\ q[1] = s3
      <4>1. Len(q) \in 1 .. H - 1 + 1 /\ q[1] = s3
        BY <2>4 DEF Branch
      <4>2. \A m \in 1 .. H - 1 + 1 : ~ (m > 1) => m \in Nat /\ m = 1
        OBVIOUS
      <4> QED
        BY <2>4, <4>1, <4>2
    <3>2. \A i \in 1 .. 1 : i = 1
      OBVIOUS
    <3>3. <<s3>> \in Seq(K) /\ Len(<<s3>>) = 1 /\ <<s3>>[1] = s3
      BY <1>1
    <3> QED
      BY <3>1, <3>2, <3>3, SeqEqual
  <2> QED
    BY <2>2, <2>3, <2>4
<1> HIDE DEF S
<1>4. ASSUME NEW p \in Seq(K), NEW c, Len(p) \in Nat
      PROVE  /\ c \in Graph(K, L, H, W)!Range(p) => c \in K
             /\ Closing(p, c) <=> /\ c \in Graph(K, L, H, W)!Range(p)
                                  /\ Graph(K, L, H, W)!HopTypes(Graph(K, L, H, W)!Reachable, p[Len(p)], c) # {}
  <2>1. DOMAIN p = 1 .. Len(p) /\ \A i \in 1 .. Len(p) : p[i] \in K
    BY LenProperties, ElementOfSeq
  <2>2. c \in Graph(K, L, H, W)!Range(p) <=> \E i \in 1 .. Len(p) : p[i] = c
    BY <2>1 DEF Graph!Range
  <2>3. c \in K => (Linked(Records, p[Len(p)], c)
                       <=> Graph(K, L, H, W)!HopTypes(Graph(K, L, H, W)!Reachable, p[Len(p)], c) # {})
    BY <1>2 DEF Linked, Graph!HopTypes
  <2> QED
    BY <2>1, <2>2, <2>3 DEF Closing
<1>5. \A c : c \in s7 <=> c \in Nodes /\ \E p \in S : Closing(p, c)
  <2>1. ASSUME NEW c \in s7 PROVE c \in Nodes /\ \E p \in S : Closing(p, c)
    BY <1>1, <1>3 DEF CyclesOK
  <2>2. ASSUME NEW c, NEW p \in S, Closing(p, c) PROVE c \in s7
    <3>1. p \in Seq(K) /\ Branch(K, Records, H - 1, p) /\ Len(p) \in Nat
      BY <1>3
    <3>2. c \in K
      BY <1>4, <2>2, <3>1
    <3>3. c \in s7 \/ \E j \in 1 .. Len(s5) : Begins(s5[j].entities, p)
      BY <1>1, <2>2, <3>1, <3>2 DEF CyclesOK
    <3> QED
      BY <1>1, <3>3
  <2> QED
    BY <2>1, <2>2
<1>6. \A c : \A p \in S : Closing(p, c) <=>
          /\ c \in Graph(K, L, H, W)!Range(p)
          /\ Graph(K, L, H, W)!HopTypes(Graph(K, L, H, W)!Reachable, p[Len(p)], c) # {}
  <2>1. \A p \in S : p \in Seq(K) /\ Len(p) \in Nat
    BY <1>3
  <2> QED
    BY <1>4, <2>1
<1>7. s7 = {e \in Nodes : \E p \in S :
               /\ e \in Graph(K, L, H, W)!Range(p)
               /\ Graph(K, L, H, W)!HopTypes(Graph(K, L, H, W)!Reachable, p[Len(p)], e) # {}}
  BY <1>5, <1>6
<1> QED
  BY <1>7 DEF Graph!CyclesExact, S

\* Disturbed, the paths are between those of the steady records and those of all there were.
LEMMA SearchSteady ==
  ASSUME NEW K, NEW L, NEW H \in Nat, NEW W, SearchInv(K, H)
  PROVE  Graph(K, L, H, W)!SteadyPathsFound
<1> SUFFICES ASSUME s4 = "done" PROVE Graph(K, L, H, W)!SteadyPathsFound
  BY DEF Graph!SteadyPathsFound
<1>1. /\ s3 \in K /\ s9 \subseteq DependencyRecords /\ s10 \subseteq DependencyRecords
      /\ \A p \in s6 : EntryOK(K, H, p) /\ Len(p.entities) > 1
  BY DEF SearchInv
<1>2. ASSUME NEW q \in Graph(K, L, H, W)!SimplePaths({d \in s9 : d.target \in K}, s3, H)
      PROVE  q \in {p.entities : p \in s6}
  <2>1. q \in Seq(K) /\ Len(q) > 1 /\ Branch(K, s9, H, q)
    BY <1>1, <1>2, SimplePathsAre
  <2>2. Recorded(q)
    BY <2>1, DoneIsComplete
  <2> QED
    BY <2>2 DEF Recorded
<1>3. ASSUME NEW p \in s6
      PROVE  p.entities \in Graph(K, L, H, W)!SimplePaths({d \in s10 : d.target \in K}, s3, H)
  <2>1. p.entities \in Seq(K) /\ Len(p.entities) > 1 /\ Branch(K, s10, H, p.entities)
    BY <1>1 DEF EntryOK, Branch
  <2> QED
    BY <1>1, <2>1, SimplePathsAre
<1> QED
  BY <1>2, <1>3 DEF Graph!SteadyPathsFound

-----------------------------------------------------------------------------
(* The two parts about the search.                                         *)
GraphInv ==
    /\ part = "search"    => SearchInv(Nodes, Hops)
    /\ part = "disturbed" => SearchInv(Listed, FewHops)

LEMMA GraphInit == Init => GraphInv
<1> SUFFICES ASSUME Init PROVE GraphInv
  OBVIOUS
<1>1. CASE part = "search"
  <2>1. Graph(Nodes, AnyFour, Hops, 0)!Init
    BY <1>1 DEF Init
  <2>2. SearchInv(Nodes, Hops)
    BY <2>1, LoadsOK, SearchStarts
  <2> QED
    BY <1>1, <2>2 DEF GraphInv
<1>2. CASE part = "disturbed"
  <2>1. Graph(Listed, AnyTwo, FewHops, MaxWrites)!Init
    BY <1>2 DEF Init
  <2>2. SearchInv(Listed, FewHops)
    BY <2>1, LoadsOK, SearchStarts
  <2> QED
    BY <1>2, <2>2 DEF GraphInv
<1>3. CASE part \notin {"search", "disturbed"}
  BY <1>3 DEF GraphInv
<1> QED
  BY <1>1, <1>2, <1>3

LEMMA GraphStep == GraphInv /\ [Next]_vars => GraphInv'
<1> SUFFICES ASSUME GraphInv, [Next]_vars PROVE GraphInv'
  OBVIOUS
<1>1. part' = part
  BY DEF Next, vars, Rest6, Rest7, Rest8
<1>2. CASE UNCHANGED vars
  <2>1. /\ UNCHANGED <<part, s1, s2, s3, s4, s5, s6, s7, s8, s9, s10>>
    BY <1>2 DEF vars
  <2>2. \A K, H : SearchInv(K, H)' <=> SearchInv(K, H)
    BY <2>1 DEF SearchInv, EntryOK, Branch, Good, Canonical, Best, Says, Records, Linked, Covered,
                Recorded, Awaited, CyclesOK, Closing
  <2> QED
    BY <1>1, <2>2 DEF GraphInv
<1>3. CASE Next /\ part = "search"
  <2>1. Graph(Nodes, AnyFour, Hops, 0)!Next
    BY <1>3 DEF Next
  <2>2. SearchInv(Nodes, Hops) /\ Hops \in Nat \ {0}
    BY <1>3, SearchAssumption DEF GraphInv
  <2>3. SearchInv(Nodes, Hops)'
    BY <2>1, <2>2, SearchStep
  <2> QED
    BY <1>1, <1>3, <2>3 DEF GraphInv
<1>4. CASE Next /\ part = "disturbed"
  <2>1. Graph(Listed, AnyTwo, FewHops, MaxWrites)!Next
    BY <1>4 DEF Next
  <2>2. SearchInv(Listed, FewHops) /\ FewHops \in Nat \ {0}
    BY <1>4, SearchAssumption DEF GraphInv
  <2>3. SearchInv(Listed, FewHops)'
    BY <2>1, <2>2, SearchStep
  <2> QED
    BY <1>1, <1>4, <2>3 DEF GraphInv
<1>5. CASE part \notin {"search", "disturbed"}
  BY <1>1, <1>5 DEF GraphInv
<1> QED
  BY <1>2, <1>3, <1>4, <1>5

\* The search, for any entities, known or not, any depth and any number of writes:
\* undisturbed, it finds every simple path once, with the types that sort first, and
\* the ends of cycles are those of its branches; disturbed, it finds the paths whose
\* records are current all the time, and none with a hop that never was.
THEOREM PathsAreComplete == Spec => []PathsComplete
<1>1. GraphInv => PathsComplete
  <2> SUFFICES ASSUME GraphInv PROVE PathsComplete
    OBVIOUS
  <2>1. Hops \in Nat \ {0} /\ FewHops \in Nat \ {0} /\ Nodes \in SUBSET Nodes
    BY SearchAssumption
  <2>2. CASE part = "search"
    <3>1. SearchInv(Nodes, Hops)
      BY <2>2 DEF GraphInv
    <3> QED
      BY <2>1, <2>2, <3>1, SearchTyped, SearchComplete, SearchCycles DEF PathsComplete
  <2>3. CASE part = "disturbed"
    <3>1. SearchInv(Listed, FewHops)
      BY <2>3 DEF GraphInv
    <3> QED
      BY <2>1, <2>3, <3>1, SearchTyped, SearchSteady DEF PathsComplete
  <2>4. CASE part \notin {"search", "disturbed"}
    BY <2>4 DEF PathsComplete
  <2> QED
    BY <2>2, <2>3, <2>4
<1> QED
  BY <1>1, GraphInit, GraphStep, PTL DEF Spec

-----------------------------------------------------------------------------
(* The impacts.  Their variables are s1, the records, s2, how many         *)
(* meetings mention an entity and the one asked about, s3, what is said of *)
(* each, s4, the one asked about, s5, where the service is, s6, the direct *)
(* impacts, s7, what is reported, and s8, the changes.  E are the entities *)
(* and H is the depth; A, X, L, C and N are what else the parts differ in. *)

Others(E) == E \ {s4}

Adjoins(s) == \E d \in s1 : {d.source, d.target} = {s4, s}
Related(s) == s2[s] > 0 \/ Adjoins(s)

LevelNames == {"LOW", "MEDIUM", "HIGH", "CRITICAL"}

\* What is said of an entity: no signal of a service is named like one of these here.
NothingMistaken(C) ==
    \A c \in C : /\ c.blocked \in BOOLEAN
                 /\ c.attention \in {"NONE", "HIGH_ATTENTION", "CRITICAL_ATTENTION"}
                 /\ c.insights \subseteq {"STALE_ENTITY", "REOPEN_ATTEMPT"}

\* An impact, with its fields.
IsImpact(i) ==
    /\ i = [level |-> i.level, signals |-> i.signals, strength |-> i.strength,
            depth |-> i.depth, path |-> i.path]
    /\ i.level \in LevelNames /\ i.signals # {} /\ i.strength \in Nat \ {0}

\* A direct one has a path when it is over a record.
IsDirect(s, i) ==
    /\ IsImpact(i)
    /\ \/ i.depth = 0 /\ i.path = <<>>
       \/ i.depth = 1 /\ i.path = <<s4, s>>

\* A path of more than one record that ends at s, than which none is shorter.
Chain(E, H, s, q)    == Path(E, s1, s4, H, q) /\ Len(q) > 2 /\ q[Len(q)] = s
Shortest(E, H, s, p) == Chain(E, H, s, p) /\ \A q : Chain(E, H, s, q) => Len(p) <= Len(q)

\* One along a chain.
AlongChain(E, H, s, i) == Shortest(E, H, s, i.path) /\ i.depth = Len(i.path) - 1
IsChain(E, H, s, i)    == IsImpact(i) /\ "BLOCKED_ENTITY" \in i.signals /\ AlongChain(E, H, s, i)

\* What is reported of s is one or the other.
Reported(E, H, s, i) ==
    /\ IsImpact(i)
    /\ \/ i.depth = 0 /\ i.path = <<>>
       \/ i.depth = 1 /\ i.path = <<s4, s>>
       \/ AlongChain(E, H, s, i)

\* What holds of the records, the meetings and the conditions.
Given(E, C) ==
    /\ s1 \subseteq DependencyRecords /\ IsFiniteSet(s1)
    /\ \A d \in s1 : d.source \in E /\ d.target \in E
    /\ s4 \in E /\ E \subseteq Nat
    /\ s2 \in [Others(E) -> Nat]
    /\ s3 \in [Others(E) -> C]

\* Of the entities that are related the direct impacts b may speak.
DirectTyped(E, b) == DOMAIN b \subseteq Others(E) /\ \A s \in DOMAIN b : IsDirect(s, b[s]) /\ Related(s)

\* One that is related and BLOCKED has one that says so.
DirectComplete(E, b) ==
    \A s \in Others(E) :
        /\ s3[s].blocked /\ Related(s) <=> s \in DOMAIN b /\ "BLOCKED_ENTITY" \in b[s].signals
        /\ s3[s].blocked /\ Related(s) => b[s].level \in {"HIGH", "CRITICAL"}

\* One that is BLOCKED is at the end of a chain.
InChain(E, H, s) == s3[s].blocked /\ \E q : Chain(E, H, s, q)

Value(level) == IF level = "LOW" THEN 1 ELSE IF level = "MEDIUM" THEN 2 ELSE IF level = "HIGH" THEN 3 ELSE 4

\* The impacts r make of the direct ones what the chains add.
Combined(E, H, b, r) ==
    /\ DOMAIN r \subseteq Others(E)
    /\ \A s \in DOMAIN r : Reported(E, H, s, r[s])
    /\ \A s \in Others(E) : s \in DOMAIN r <=> s \in DOMAIN b \/ InChain(E, H, s)
    /\ \A s \in DOMAIN b : /\ Value(r[s].level) >= Value(b[s].level)
                           /\ "BLOCKED_ENTITY" \in b[s].signals => "BLOCKED_ENTITY" \in r[s].signals
                           /\ ~ InChain(E, H, s) => r[s] = b[s]
    /\ \A s \in DOMAIN r \ DOMAIN b : "BLOCKED_ENTITY" \in r[s].signals

\* The inductive invariant.
ImpactInv(E, C, H) ==
    /\ Given(E, C)
    /\ s8 \in Nat
    /\ s5 \in {"ask", "propagate", "done"}
    /\ s5 = "ask" => s8 = 0
    /\ s5 # "ask" => DirectTyped(E, s6) /\ (s8 = 0 => DirectComplete(E, s6))
    /\ s5 # "done" => s7 = <<>>
    /\ s5 = "done" => Combined(E, H, s6, s7)

\* The levels in their order.
LEMMA RanksAre ==
  ASSUME NEW E, NEW A, NEW X, NEW L, NEW C, NEW H, NEW N, NEW l \in LevelNames
  PROVE  Impacts(E, A, X, L, C, H, N)!Rank(l) = Value(l) /\ Value(l) \in Nat
<1> DEFINE levels == <<"LOW", "MEDIUM", "HIGH", "CRITICAL">>
           rank(m) == CHOOSE i \in DOMAIN levels : levels[i] = m
<1>1. DOMAIN levels = {1, 2, 3, 4}
  OBVIOUS
<1>2. levels[1] = "LOW" /\ levels[2] = "MEDIUM" /\ levels[3] = "HIGH" /\ levels[4] = "CRITICAL"
  OBVIOUS
<1>3. Impacts(E, A, X, L, C, H, N)!Rank(l) = rank(l)
  BY DEF Impacts!Rank, Impacts!Levels
<1> HIDE DEF levels
<1>4. rank("LOW") = 1 /\ rank("MEDIUM") = 2 /\ rank("HIGH") = 3 /\ rank("CRITICAL") = 4
  BY <1>1, <1>2
<1> HIDE DEF rank
<1> QED
  BY <1>3, <1>4 DEF Value, LevelNames

\* The strength of an edge that some record makes is a number of meetings.
LEMMA StrengthIs ==
  ASSUME NEW S, IsFiniteSet(S), NEW d \in S, NEW g,
         g = [source |-> d.source, target |-> d.target, type |-> d.type]
  PROVE  D!Strength(S, g) \in Nat \ {0}
<1> DEFINE same == {c \in S : D!Edge(c) = g}
           f == [c \in same |-> c.meeting]
           M == {f[c] : c \in same}
<1>1. same \subseteq S /\ d \in same
  BY DEF D!Edge
<1>2. IsFiniteSet(same) /\ DOMAIN f = same
  BY <1>1, FS_Subset
<1>3. D!Meetings(S, g) = M
  BY DEF D!Meetings
<1>4. f[d] \in M
  BY <1>1
<1> HIDE DEF same, f
<1>5. IsFiniteSet(M) /\ M # {}
  BY <1>2, <1>4, ImageFinite
<1> HIDE DEF M
<1>6. Cardinality(M) \in Nat /\ Cardinality(M) # 0
  BY <1>5, FS_CardinalityType, FS_EmptySet
<1> QED
  BY <1>3, <1>6 DEF D!Strength, D!Cardinality, Cardinality

\* The relationship with an entity that is related has a strength.
LEMMA RelationIs ==
  ASSUME NEW E, NEW A, NEW X, NEW L, NEW C, NEW H, NEW N, Given(E, C), NEW s \in Others(E)
  PROVE  /\ Impacts(E, A, X, L, C, H, N)!Edges(s) # {} <=> Adjoins(s)
         /\ s \in Impacts(E, A, X, L, C, H, N)!Related <=> Related(s)
         /\ Impacts(E, A, X, L, C, H, N)!RelationStrength(s) \in Nat
         /\ Related(s) => Impacts(E, A, X, L, C, H, N)!RelationStrength(s) # 0
<1> DEFINE edge(d) == [source |-> d.source, target |-> d.target, type |-> d.type]
           here == {d \in s1 : (d.source = s4 \/ d.target = s4) /\ s \in {d.source, d.target}}
           edges == Impacts(E, A, X, L, C, H, N)!Edges(s)
           e == [d \in here |-> edge(d)]
           strength == [g \in edges |-> D!Strength(s1, g)]
           all == {s2[s]} \cup {strength[g] : g \in edges}
<1>1. s # s4 /\ s \in E /\ s2[s] \in Nat
  BY DEF Given, Others
<1>2. edges = {e[d] : d \in here}
  <2>1. edges = {g \in {edge(d) : d \in {c \in s1 : c.source = s4}}
                       \cup {edge(d) : d \in {c \in s1 : c.target = s4}} : s \in {g.source, g.target}}
    BY DEF Impacts!Edges, Impacts!Outgoing, Impacts!Incoming, Impacts!Edge
  <2>2. \A d : edge(d).source = d.source /\ edge(d).target = d.target
    OBVIOUS
  <2>3. \A d \in here : e[d] = edge(d)
    OBVIOUS
  <2> HIDE DEF edges, edge, e
  <2>4. \A g : g \in edges <=> \E d \in here : g = edge(d)
    BY <2>1, <2>2
  <2> QED
    BY <2>3, <2>4
<1>3. here \subseteq s1 /\ IsFiniteSet(here)
  <2>1. here \subseteq s1
    OBVIOUS
  <2> QED
    BY <2>1, FS_Subset DEF Given
<1>4. \A d \in s1 : d \in here <=> {d.source, d.target} = {s4, s}
  BY <1>1
<1>5. edges # {} <=> Adjoins(s)
  <2> HIDE DEF edges, here, e
  <2> QED
    BY <1>2, <1>3, <1>4 DEF Adjoins
<1>6. DOMAIN e = here /\ DOMAIN strength = edges
  OBVIOUS
<1>7. \A g \in edges : strength[g] \in Nat \ {0}
  <2> SUFFICES ASSUME NEW g \in edges PROVE strength[g] \in Nat \ {0}
    OBVIOUS
  <2>1. PICK d \in here : g = edge(d)
    BY <1>2
  <2> QED
    BY <1>3, <2>1, StrengthIs DEF Given
<1> HIDE DEF edge, here, e, strength, edges
<1>8. IsFiniteSet(edges)
  BY <1>2, <1>3, <1>6, ImageFinite
<1>9. IsFiniteSet({strength[g] : g \in edges})
  BY <1>6, <1>8, ImageFinite
<1>10. IsFiniteSet(all) /\ all \subseteq Nat /\ all # {}
  <2>1. all = {strength[g] : g \in edges} \cup {s2[s]}
    OBVIOUS
  <2>2. {strength[g] : g \in edges} \subseteq Nat
    BY <1>7
  <2>3. IsFiniteSet({strength[g] : g \in edges} \cup {s2[s]})
    BY <1>9, FS_AddElement
  <2> QED
    BY <1>1, <2>1, <2>2, <2>3
<1>11. Impacts(E, A, X, L, C, H, N)!RelationStrength(s) = Impacts(E, A, X, L, C, H, N)!Max(all)
  <2>1. \A g : Impacts(E, A, X, L, C, H, N)!Strength(s1, g) = D!Strength(s1, g)
    BY DEF Impacts!Strength, Impacts!Meetings, Impacts!Edge, Impacts!Cardinality,
           D!Strength, D!Meetings, D!Edge, D!Cardinality
  <2>2. {Impacts(E, A, X, L, C, H, N)!Strength(s1, g) : g \in edges} = {strength[g] : g \in edges}
    BY <2>1 DEF strength
  <2> QED
    BY <2>2 DEF Impacts!RelationStrength, edges
<1> HIDE DEF all
<1>12. PICK m \in all : \A n \in all : m >= n
  BY <1>10, FiniteHasMax DEF HasMax
<1>13. /\ Impacts(E, A, X, L, C, H, N)!Max(all) \in all
       /\ \A n \in all : Impacts(E, A, X, L, C, H, N)!Max(all) >= n
  BY <1>12 DEF Impacts!Max
<1>14. Related(s) => \E n \in all : n # 0
  <2>1. CASE s2[s] > 0
    BY <1>1, <2>1 DEF all
  <2>2. CASE Adjoins(s)
    BY <1>5, <1>7, <2>2 DEF all
  <2> QED
    BY <2>1, <2>2 DEF Related
<1>15. s \in Impacts(E, A, X, L, C, H, N)!Related <=> Related(s)
  BY <1>5 DEF Impacts!Related, Impacts!Others, Others, Related, edges
<1>16. /\ Impacts(E, A, X, L, C, H, N)!RelationStrength(s) \in Nat
       /\ Related(s) => Impacts(E, A, X, L, C, H, N)!RelationStrength(s) # 0
  <2> DEFINE x == Impacts(E, A, X, L, C, H, N)!RelationStrength(s)
  <2>1. x \in all /\ \A n \in all : x >= n
    BY <1>11, <1>13
  <2> HIDE DEF x
  <2>2. x \in Nat /\ \A n \in all : n \in Nat
    BY <1>10, <2>1
  <2>3. Related(s) => x # 0
    BY <1>14, <2>1, <2>2
  <2> QED
    BY <2>2, <2>3 DEF x
<1> QED
  BY <1>5, <1>15, <1>16 DEF edges

\* An entity that is BLOCKED is said to be, and no other.
LEMMA SignalsAre ==
  ASSUME NEW E, NEW A, NEW X, NEW L, NEW C, NothingMistaken(C), NEW H, NEW N, Given(E, C),
         NEW s \in Others(E)
  PROVE  "BLOCKED_ENTITY" \in Impacts(E, A, X, L, C, H, N)!Signals(s) <=> s3[s].blocked
<1>1. s3[s] \in C
  BY DEF Given
<1>2. /\ s3[s].attention # "BLOCKED_ENTITY" /\ "BLOCKED_ENTITY" \notin s3[s].insights
      /\ s3[s].blocked \in BOOLEAN
  BY <1>1 DEF NothingMistaken
<1> QED
  BY <1>2 DEF Impacts!Signals

\* A direct impact.
LEMMA DirectIs ==
  ASSUME NEW E, NEW A, NEW X, NEW L, NEW C, NothingMistaken(C), NEW H, NEW N, Given(E, C),
         NEW s \in Others(E), Related(s), Impacts(E, A, X, L, C, H, N)!Signals(s) # {}
  PROVE  /\ IsDirect(s, Impacts(E, A, X, L, C, H, N)!DirectImpact(s))
         /\ "BLOCKED_ENTITY" \in Impacts(E, A, X, L, C, H, N)!DirectImpact(s).signals <=> s3[s].blocked
         /\ s3[s].blocked => Impacts(E, A, X, L, C, H, N)!DirectImpact(s).level \in {"HIGH", "CRITICAL"}
<1> DEFINE i == Impacts(E, A, X, L, C, H, N)!DirectImpact(s)
           signals == Impacts(E, A, X, L, C, H, N)!Signals(s)
           strength == Impacts(E, A, X, L, C, H, N)!RelationStrength(s)
           explicit == "EXPLICIT_DEPENDENCY" \in signals
           level == Impacts(E, A, X, L, C, H, N)!Level(signals, strength >= 2)
<1>1. i = [level |-> level, signals |-> signals, strength |-> strength,
           depth |-> IF explicit THEN 1 ELSE 0, path |-> IF explicit THEN <<s4, s>> ELSE <<>>]
  BY DEF Impacts!DirectImpact, Impacts!None
<1>2. strength \in Nat \ {0}
  BY RelationIs
<1>3. "BLOCKED_ENTITY" \in signals <=> s3[s].blocked
  BY SignalsAre
<1>4. level \in LevelNames /\ ("BLOCKED_ENTITY" \in signals => level \in {"HIGH", "CRITICAL"})
  BY DEF Impacts!Level, LevelNames
<1> HIDE DEF signals, strength, level
<1> QED
  BY <1>1, <1>2, <1>3, <1>4 DEF IsDirect, IsImpact, signals

-----------------------------------------------------------------------------
(* The chains.                                                             *)

LEMMA TransitiveAre ==
  ASSUME NEW E, NEW A, NEW X, NEW L, NEW C, NEW H \in Nat, NEW N, Given(E, C), NEW q
  PROVE  /\ \A n \in Nat : q \in Impacts(E, A, X, L, C, H, N)!SimplePaths(s1, s4, n) <=> Path(E, s1, s4, n, q)
         /\ q \in Impacts(E, A, X, L, C, H, N)!Transitive <=> Path(E, s1, s4, H, q) /\ Len(q) > 2
<1>1. \A n : Impacts(E, A, X, L, C, H, N)!SimplePaths(s1, s4, n) = D!SimplePaths(s1, s4, n)
  BY DEF Impacts!SimplePaths, Impacts!HopTypes, D!SimplePaths, D!HopTypes
<1>2. s4 \in E /\ \A d \in s1 : d.target \in E
  BY DEF Given
<1>3. \A n \in Nat : q \in D!SimplePaths(s1, s4, n) <=> Path(E, s1, s4, n, q)
  BY <1>2, PathsAre
<1> QED
  BY <1>1, <1>3 DEF Impacts!Transitive

\* There are finitely many: each is given by its places.
LEMMA PathsFinite ==
  ASSUME NEW E, NEW C, NEW H \in Nat, Given(E, C), NEW P, \A p \in P : Path(E, s1, s4, H, p)
  PROVE  IsFiniteSet(P)
<1> DEFINE target == [d \in s1 |-> d.target]
           nodes  == {target[d] : d \in s1} \cup {s4}
           grid   == (1 .. H + 1) \X nodes
           places(p) == {<<i, p[i]>> : i \in 1 .. Len(p)}
           f == [p \in P |-> places(p)]
<1>1. IsFiniteSet({target[d] : d \in s1})
  <2>1. DOMAIN target = s1 /\ IsFiniteSet(s1)
    BY DEF Given
  <2> HIDE DEF target
  <2> QED
    BY <2>1, ImageFinite
<1>2. IsFiniteSet(nodes)
  <2> HIDE DEF target
  <2> QED
    BY <1>1, FS_AddElement
<1>3. IsFiniteSet(SUBSET grid)
  <2>1. H + 1 \in Int /\ 1 \in Int
    OBVIOUS
  <2>2. IsFiniteSet(1 .. H + 1)
    BY <2>1, FS_Interval
  <2> HIDE DEF nodes
  <2> QED
    BY <1>2, <2>2, FS_Product, FS_SUBSET
<1>4. \A a, b : Linked(s1, a, b) => b \in nodes
  BY DEF Linked
<1>5. s4 \in nodes
  OBVIOUS
<1> HIDE DEF nodes
<1>6. ASSUME NEW p \in P PROVE places(p) \subseteq grid
  <2>1. /\ Len(p) \in 2 .. H + 1 /\ p[1] = s4
        /\ \A i \in 1 .. Len(p) - 1 : Linked(s1, p[i], p[i + 1])
    BY DEF Path
  <2>2. ASSUME NEW i \in 1 .. Len(p) PROVE i \in 1 .. H + 1 /\ p[i] \in nodes
    <3>1. i = 1 \/ (i - 1 \in 1 .. Len(p) - 1 /\ (i - 1) + 1 = i)
      BY <2>1
    <3>2. p[i] \in nodes
      BY <1>4, <1>5, <2>1, <3>1
    <3>3. i \in 1 .. H + 1
      BY <2>1
    <3> QED
      BY <3>2, <3>3
  <2> QED
    BY <2>2
<1>7. ASSUME NEW p \in P, NEW q \in P, places(p) = places(q) PROVE p = q
  <2>1. /\ p \in Seq(E) /\ q \in Seq(E) /\ Len(p) \in Nat /\ Len(q) \in Nat
    BY LenProperties DEF Path
  <2>2. \A i \in 1 .. Len(p) : i \in 1 .. Len(q) /\ q[i] = p[i]
    <3> SUFFICES ASSUME NEW i \in 1 .. Len(p) PROVE i \in 1 .. Len(q) /\ q[i] = p[i]
      OBVIOUS
    <3>1. <<i, p[i]>> \in places(q)
      BY <1>7
    <3>2. PICK j \in 1 .. Len(q) : <<i, p[i]>> = <<j, q[j]>>
      BY <3>1
    <3> QED
      BY <3>2
  <2>3. \A i \in 1 .. Len(q) : i \in 1 .. Len(p)
    <3> SUFFICES ASSUME NEW i \in 1 .. Len(q) PROVE i \in 1 .. Len(p)
      OBVIOUS
    <3>1. <<i, q[i]>> \in places(p)
      BY <1>7
    <3>2. PICK j \in 1 .. Len(p) : <<i, q[i]>> = <<j, p[j]>>
      BY <3>1
    <3> QED
      BY <3>2
  <2>4. Len(p) = Len(q)
    BY <2>1, <2>2, <2>3
  <2> QED
    BY <2>1, <2>2, <2>4, SeqEqual
<1>8. f \in Injection(P, SUBSET grid)
  <2>1. f \in [P -> SUBSET grid]
    BY <1>6
  <2>2. \A p, q \in P : f[p] = f[q] => p = q
    BY <1>7
  <2> HIDE DEF f, grid
  <2> QED
    BY <2>1, <2>2 DEF Injection, IsInjective
<1> QED
  BY <1>3, <1>8, FS_Injection

\* Paths in the order of their depth, and of their entities.
Sooner(p, q) ==
    \/ Len(p) < Len(q)
    \/ Len(p) = Len(q) /\ \E i \in 1 .. Len(p) : p[i] < q[i] /\ \A j \in 1 .. i - 1 : p[j] = q[j]

LEMMA SoonerOrders ==
  ASSUME NEW P \in SUBSET Seq(Nat)
  PROVE  StrictOrder(P, {x \in P \X P : Sooner(x[1], x[2])})
<1> DEFINE R == {x \in P \X P : Sooner(x[1], x[2])}
<1>1. \A p, q \in P : <<p, q>> \in R <=> Sooner(p, q)
  OBVIOUS
<1>2. \A p \in P : p \in Seq(Nat) /\ Len(p) \in Nat /\ \A i \in 1 .. Len(p) : p[i] \in Nat
  BY ElementOfSeq, LenProperties
<1>3. ASSUME NEW p \in P, NEW q \in P, p # q PROVE Sooner(p, q) \/ Sooner(q, p)
  <2>1. CASE Len(p) # Len(q)
    BY <1>2, <2>1 DEF Sooner
  <2>2. CASE Len(p) = Len(q)
    <3> DEFINE differ == {i \in 1 .. Len(p) : p[i] # q[i]}
    <3>1. differ # {}
      BY <1>2, <1>3, <2>2, SeqEqual
    <3>2. differ \subseteq Nat
      BY <1>2
    <3>3. PICK m \in differ : \A n \in differ : m <= n
      BY <3>1, <3>2, HasLeast
    <3>4. m \in 1 .. Len(p) /\ p[m] # q[m] /\ p[m] \in Nat /\ q[m] \in Nat
      BY <1>2, <2>2, <3>3
    <3>5. \A j \in 1 .. m - 1 : p[j] = q[j]
      <4> SUFFICES ASSUME NEW j \in 1 .. m - 1, p[j] # q[j] PROVE FALSE
        OBVIOUS
      <4>1. j \in differ
        BY <1>2, <3>4
      <4> QED
        BY <1>2, <3>3, <3>4, <4>1
    <3>6. p[m] < q[m] \/ q[m] < p[m]
      BY <3>4
    <3> QED
      BY <2>2, <3>4, <3>5, <3>6 DEF Sooner
  <2> QED
    BY <2>1, <2>2
<1>4. ASSUME NEW p \in P PROVE ~ Sooner(p, p)
  BY <1>2 DEF Sooner
<1>5. ASSUME NEW p \in P, NEW q \in P, NEW r \in P, Sooner(p, q), Sooner(q, r) PROVE Sooner(p, r)
  <2>1. Len(p) \in Nat /\ Len(q) \in Nat /\ Len(r) \in Nat
    BY <1>2
  <2>2. CASE Len(p) < Len(q) \/ Len(q) < Len(r)
    BY <1>5, <2>1, <2>2 DEF Sooner
  <2>3. CASE ~ (Len(p) < Len(q)) /\ ~ (Len(q) < Len(r))
    <3>1. Len(p) = Len(q) /\ Len(q) = Len(r)
      BY <1>5, <2>3 DEF Sooner
    <3>2. PICK i \in 1 .. Len(p) : p[i] < q[i] /\ \A j \in 1 .. i - 1 : p[j] = q[j]
      BY <1>5, <2>3 DEF Sooner
    <3>3. PICK k \in 1 .. Len(p) : q[k] < r[k] /\ \A j \in 1 .. k - 1 : q[j] = r[j]
      BY <1>5, <2>3, <3>1 DEF Sooner
    <3>4. \A j \in 1 .. Len(p) : p[j] \in Nat /\ q[j] \in Nat /\ r[j] \in Nat
      BY <1>2, <3>1
    <3>5. CASE i < k
      <4>1. q[i] = r[i] /\ \A j \in 1 .. i - 1 : q[j] = r[j]
        BY <2>1, <3>3, <3>5
      <4> QED
        BY <3>1, <3>2, <4>1 DEF Sooner
    <3>6. CASE ~ (i < k)
      <4>1. \A j \in 1 .. k - 1 : p[j] = q[j]
        BY <2>1, <3>2, <3>6
      <4>2. k = i \/ p[k] = q[k]
        BY <2>1, <3>2, <3>6
      <4>3. p[k] < r[k]
        <5>1. p[k] \in Nat /\ q[k] \in Nat /\ r[k] \in Nat /\ q[k] < r[k]
          BY <3>3, <3>4
        <5>2. p[k] < q[k] \/ p[k] = q[k]
          BY <3>2, <4>2, Zenon
        <5>3. \A a, b, c \in Nat : (a < b \/ a = b) /\ b < c => a < c
          OBVIOUS
        <5> QED
          BY <5>1, <5>2, <5>3, Zenon
      <4> QED
        BY <3>1, <3>3, <4>1, <4>3 DEF Sooner
    <3> QED
      BY <3>5, <3>6
  <2> QED
    BY <2>2, <2>3
<1> HIDE DEF R
<1>6. StrictOrder(P, R)
  BY <1>1, <1>3, <1>4, <1>5 DEF StrictOrder
<1> QED
  BY <1>6 DEF R

\* The chain that is taken is one of those there are, and none is shorter.
LEMMA ShortestIs ==
  ASSUME NEW E, NEW A, NEW X, NEW L, NEW C, NEW H \in Nat, NEW N, Given(E, C), NEW s,
         \E q : Chain(E, H, s, q)
  PROVE  Shortest(E, H, s, Impacts(E, A, X, L, C, H, N)!ShortestTo(s))
<1> DEFINE T == {q \in Impacts(E, A, X, L, C, H, N)!Transitive : q[Len(q)] = s}
           R == {x \in T \X T : Sooner(x[1], x[2])}
           p == Impacts(E, A, X, L, C, H, N)!ShortestTo(s)
<1>1. \A q : q \in T <=> Chain(E, H, s, q)
  BY TransitiveAre DEF Chain
<1>2. p = CHOOSE r \in T : \A q \in T \ {r} : Impacts(E, A, X, L, C, H, N)!Before(r, q)
  BY DEF Impacts!ShortestTo
<1> HIDE DEF T, p
<1>3. \A q \in T : Path(E, s1, s4, H, q) /\ q \in Seq(E) /\ DOMAIN q = 1 .. Len(q) /\ Len(q) \in Nat
  BY <1>1, LenProperties DEF Chain, Path
<1>4. IsFiniteSet(T) /\ T # {}
  BY <1>1, <1>3, PathsFinite
<1>5. T \in SUBSET Seq(Nat)
  <2> SUFFICES ASSUME NEW q \in T PROVE q \in Seq(Nat)
    OBVIOUS
  <2>1. E \subseteq Nat
    BY DEF Given
  <2>2. \A i \in 1 .. Len(q) : q[i] \in Nat
    BY <1>3, <2>1, ElementOfSeq
  <2>3. q = [i \in 1 .. Len(q) |-> q[i]] /\ Len(q) \in Nat
    BY <1>3
  <2>4. q \in [1 .. Len(q) -> Nat]
    BY <2>2, <2>3
  <2> QED
    BY <2>3, <2>4
<1>6. StrictOrder(T, R)
  BY <1>5, SoonerOrders
<1>7. \E r \in T : \A q \in T \ {r} : Sooner(r, q)
  <2>1. \A x, y \in T : <<x, y>> \in R <=> Sooner(x, y)
    OBVIOUS
  <2> HIDE DEF R
  <2>2. Cardinality(T) \in Nat /\ Cardinality(T) # 0
    BY <1>4, FS_CardinalityType, FS_EmptySet
  <2>3. 0 \in 0 .. Cardinality(T) - 1
    BY <2>2
  <2>4. PICK r \in T : Cardinality(Preceding(T, R, r)) = 0
    BY <1>4, <1>6, <2>3, RankOnto
  <2>5. Preceding(T, R, r) \subseteq T
    BY DEF Preceding
  <2>6. IsFiniteSet(Preceding(T, R, r))
    BY <1>4, <2>5, FS_Subset
  <2>7. Preceding(T, R, r) = {}
    BY <2>4, <2>6, FS_EmptySet
  <2> QED
    BY <1>6, <2>1, <2>7 DEF Preceding, StrictOrder
<1>8. \A r, q \in T : Impacts(E, A, X, L, C, H, N)!Before(r, q) <=> Sooner(r, q)
  BY <1>3 DEF Impacts!Before, Sooner
<1>9. p \in T /\ \A q \in T \ {p} : Sooner(p, q)
  <2>1. \E r \in T : \A q \in T \ {r} : Impacts(E, A, X, L, C, H, N)!Before(r, q)
    BY <1>7, <1>8
  <2> QED
    BY <1>2, <1>8, <2>1
<1>10. \A q \in T : Len(p) <= Len(q)
  BY <1>3, <1>9 DEF Sooner
<1> QED
  BY <1>1, <1>9, <1>10 DEF p, Shortest

\* A hop over a record has a strength.
LEMMA HopIs ==
  ASSUME NEW E, NEW A, NEW X, NEW L, NEW C, NEW H, NEW N, Given(E, C), NEW a, NEW b, Linked(s1, a, b)
  PROVE  Impacts(E, A, X, L, C, H, N)!HopStrength(a, b) \in Nat \ {0}
<1> DEFINE type == Impacts(E, A, X, L, C, H, N)!HopType(s1, a, b)
           g == [source |-> a, target |-> b, type |-> type]
<1>1. \E d \in s1 : d.source = a /\ d.target = b /\ d.type = type
  <2>1. PICK d \in s1 : d.source = a /\ d.target = b
    BY DEF Linked
  <2>2. d.type \in {"DEPENDS_ON", "BLOCKS"}
    BY DEF Given, DependencyRecords, Types
  <2>3. \A x : x \in Impacts(E, A, X, L, C, H, N)!HopTypes(s1, a, b)
                  <=> \E c \in s1 : c.source = a /\ c.target = b /\ c.type = x
    BY DEF Impacts!HopTypes
  <2>4. CASE "BLOCKS" \in Impacts(E, A, X, L, C, H, N)!HopTypes(s1, a, b)
    <3>1. type = "BLOCKS"
      BY <2>4 DEF Impacts!HopType
    <3> QED
      BY <2>3, <2>4, <3>1
  <2>5. CASE "BLOCKS" \notin Impacts(E, A, X, L, C, H, N)!HopTypes(s1, a, b)
    <3>1. type = "DEPENDS_ON"
      BY <2>5 DEF Impacts!HopType
    <3>2. d.type # "BLOCKS"
      BY <2>1, <2>3, <2>5
    <3> QED
      BY <2>1, <2>2, <3>1, <3>2
  <2> QED
    BY <2>4, <2>5
<1> HIDE DEF type
<1>2. PICK d \in s1 : g = [source |-> d.source, target |-> d.target, type |-> d.type]
  BY <1>1
<1>3. D!Strength(s1, g) \in Nat \ {0}
  BY <1>2, StrengthIs DEF Given
<1>4. Impacts(E, A, X, L, C, H, N)!HopStrength(a, b) = D!Strength(s1, g)
  BY DEF Impacts!HopStrength, Impacts!Strength, Impacts!Meetings, Impacts!Edge, Impacts!Cardinality,
         D!Strength, D!Meetings, D!Edge, D!Cardinality, type
<1> QED
  BY <1>3, <1>4

\* The impact along a chain.
LEMMA TransitiveIs ==
  ASSUME NEW E, NEW A, NEW X, NEW L, NEW C, NEW H \in Nat, NEW N, Given(E, C), NEW s,
         \E q : Chain(E, H, s, q)
  PROVE  IsChain(E, H, s, Impacts(E, A, X, L, C, H, N)!TransitiveImpact(s))
<1> DEFINE p == Impacts(E, A, X, L, C, H, N)!ShortestTo(s)
           strengths == {Impacts(E, A, X, L, C, H, N)!HopStrength(p[i], p[i + 1]) : i \in 1 .. Len(p) - 1}
           min == Impacts(E, A, X, L, C, H, N)!Min(strengths)
           level == IF Len(p) = 3 THEN "MEDIUM" ELSE "LOW"
           i == Impacts(E, A, X, L, C, H, N)!TransitiveImpact(s)
<1>1. Shortest(E, H, s, p)
  BY ShortestIs
<1>2. i = [level |-> level, signals |-> {"BLOCKED_ENTITY", "TRANSITIVE_DEPENDENCY"},
           strength |-> min, depth |-> Len(p) - 1, path |-> p]
  BY DEF Impacts!TransitiveImpact
<1> HIDE DEF p
<1>3. Len(p) \in Nat /\ Len(p) > 2 /\ \A k \in 1 .. Len(p) - 1 : Linked(s1, p[k], p[k + 1])
  BY <1>1 DEF Shortest, Chain, Path
<1>4. strengths \subseteq Nat \ {0} /\ strengths # {}
  <2>1. \A k \in 1 .. Len(p) - 1 : Impacts(E, A, X, L, C, H, N)!HopStrength(p[k], p[k + 1]) \in Nat \ {0}
    BY <1>3, HopIs
  <2>2. 1 \in 1 .. Len(p) - 1
    BY <1>3
  <2> QED
    BY <2>1, <2>2
<1> HIDE DEF strengths
<1>5. min \in Nat \ {0}
  <2>1. \E m \in strengths : \A n \in strengths : m <= n
    <3>1. strengths \in SUBSET Nat
      BY <1>4
    <3> QED
      BY <1>4, <3>1, HasLeast
  <2>2. min \in strengths
    BY <2>1 DEF Impacts!Min
  <2> QED
    BY <1>4, <2>2
<1>6. level \in LevelNames
  BY DEF LevelNames
<1> HIDE DEF min, level
<1> QED
  BY <1>1, <1>2, <1>5, <1>6 DEF IsChain, IsImpact, AlongChain

\* A walk of k records.
Walk(E, k, w, s) ==
    /\ w \in [1 .. k + 1 -> E] /\ w[1] = s4 /\ w[k + 1] = s
    /\ \A i \in 1 .. k : Linked(s1, w[i], w[i + 1])

\* A walk that comes to an entity twice has a shorter one.
LEMMA ShorterWalk ==
  ASSUME NEW E, NEW k \in Nat, NEW w, NEW s, Walk(E, k, w, s),
         NEW i \in 1 .. k + 1, NEW j \in 1 .. k + 1, i < j, w[i] = w[j]
  PROVE  \E m \in 0 .. k - 1 : \E v : Walk(E, m, v, s)
<1> DEFINE n == j - i
           m == k - n
           v == [x \in 1 .. m + 1 |-> IF x <= i THEN w[x] ELSE w[x + n]]
<1>1. /\ n \in Nat \ {0} /\ m \in 0 .. k - 1 /\ i <= m + 1 /\ m + n = k /\ j = i + n
      /\ i \in Nat /\ i >= 1 /\ m \in Nat
  OBVIOUS
<1>2. /\ w \in [1 .. k + 1 -> E] /\ w[1] = s4 /\ w[k + 1] = s
      /\ \A x \in 1 .. k : Linked(s1, w[x], w[x + 1])
  BY DEF Walk
<1> HIDE DEF n, m
<1>3. \A x \in 1 .. m + 1 : x \in 1 .. k + 1 /\ x + n \in 1 .. k + 1
  BY <1>1
<1>4. v \in [1 .. m + 1 -> E] /\ \A x \in 1 .. m + 1 : v[x] = IF x <= i THEN w[x] ELSE w[x + n]
  BY <1>2, <1>3
<1> HIDE DEF v
<1>5. v[1] = s4
  <2>1. 1 \in 1 .. m + 1 /\ 1 <= i
    BY <1>1
  <2> QED
    BY <1>2, <1>4, <2>1
<1>6. v[m + 1] = s
  <2>1. m + 1 \in 1 .. m + 1 /\ (m + 1) + n = k + 1
    BY <1>1
  <2>2. CASE m + 1 <= i
    <3>1. m + 1 = i /\ j = k + 1
      BY <1>1, <2>2
    <3> QED
      BY <1>2, <1>4, <2>1, <3>1
  <2>3. CASE ~ (m + 1 <= i)
    <3>1. v[m + 1] = w[(m + 1) + n]
      BY <1>4, <2>1, <2>3
    <3> QED
      BY <1>2, <2>1, <3>1, Zenon
  <2> QED
    BY <2>2, <2>3
<1>7. ASSUME NEW x \in 1 .. m PROVE Linked(s1, v[x], v[x + 1])
  <2>1. x \in 1 .. m + 1 /\ x + 1 \in 1 .. m + 1 /\ x \in 1 .. k /\ x + n \in 1 .. k
    BY <1>1
  <2>2. CASE x < i
    <3>1. x <= i /\ x + 1 <= i
      BY <1>1, <2>2
    <3> QED
      BY <1>2, <1>4, <2>1, <3>1
  <2>3. CASE x = i
    <3>1. x <= i /\ ~ (x + 1 <= i) /\ (x + 1) + n = j + 1 /\ j \in 1 .. k
      BY <1>1, <2>1, <2>3
    <3>2. v[x] = w[j] /\ v[x + 1] = w[j + 1]
      BY <1>4, <2>1, <2>3, <3>1
    <3> QED
      BY <1>2, <3>1, <3>2
  <2>4. CASE x > i
    <3>1. ~ (x <= i) /\ ~ (x + 1 <= i) /\ (x + 1) + n = (x + n) + 1
      BY <1>1, <2>4
    <3>2. v[x] = w[x + n] /\ v[x + 1] = w[(x + n) + 1]
      BY <1>4, <2>1, <3>1
    <3> QED
      BY <1>2, <2>1, <3>2
  <2> QED
    BY <1>1, <2>2, <2>3, <2>4
<1>8. Walk(E, m, v, s)
  BY <1>4, <1>5, <1>6, <1>7 DEF Walk
<1> QED
  BY <1>1, <1>8

\* Where a walk leads, a path does.
LEMMA WithinIs ==
  ASSUME NEW E, NEW A, NEW X, NEW L, NEW C, NEW H \in Nat, NEW N, Given(E, C), NEW s \in Others(E)
  PROVE  s \in Impacts(E, A, X, L, C, H, N)!Within(H)
            <=> \E q : Path(E, s1, s4, H, q) /\ q[Len(q)] = s
<1>1. s \in E /\ s # s4
  BY DEF Others
<1>2. s \in Impacts(E, A, X, L, C, H, N)!Within(H) <=> \E k \in 0 .. H : \E w : Walk(E, k, w, s)
  <2> DEFINE leads(k, w, x) == w[1] = s4 /\ w[k + 1] = x /\ \A i \in 1 .. k : Linked(s1, w[i], w[i + 1])
  <2>1. Impacts(E, A, X, L, C, H, N)!Within(H) =
          {x \in E : \E k \in 0 .. H : \E w \in [1 .. k + 1 -> E] : leads(k, w, x)}
    BY DEF Impacts!Within, Linked
  <2>2. \A k, w, x : Walk(E, k, w, x) <=> w \in [1 .. k + 1 -> E] /\ leads(k, w, x)
    BY DEF Walk
  <2> HIDE DEF leads
  <2> QED
    BY <1>1, <2>1, <2>2, Zenon
<1>3. ASSUME NEW q, Path(E, s1, s4, H, q), q[Len(q)] = s PROVE \E k \in 0 .. H : \E w : Walk(E, k, w, s)
  <2>1. /\ q \in Seq(E) /\ Len(q) \in 2 .. H + 1 /\ q[1] = s4
        /\ \A i \in 1 .. Len(q) - 1 : Linked(s1, q[i], q[i + 1])
    BY <1>3 DEF Path
  <2> DEFINE k == Len(q) - 1
  <2>2. k \in 0 .. H /\ k + 1 = Len(q)
    BY <2>1
  <2>3. q \in [1 .. Len(q) -> E]
    BY <2>1
  <2> HIDE DEF k
  <2>4. q \in [1 .. k + 1 -> E] /\ q[k + 1] = s /\ \A i \in 1 .. k : Linked(s1, q[i], q[i + 1])
    <3>1. k = Len(q) - 1
      BY DEF k
    <3> QED
      BY <1>3, <2>1, <2>2, <2>3, <3>1
  <2> QED
    BY <2>1, <2>2, <2>4 DEF Walk
<1>4. ASSUME NEW h \in 0 .. H, \E w : Walk(E, h, w, s)
      PROVE  \E q : Path(E, s1, s4, H, q) /\ q[Len(q)] = s
  <2> DEFINE lengths == {k \in 0 .. H : \E w : Walk(E, k, w, s)}
  <2>1. lengths \in SUBSET Nat /\ lengths # {}
    BY <1>4
  <2>2. PICK k \in lengths : \A m \in lengths : k <= m
    BY <2>1, HasLeast
  <2>3. k \in 0 .. H /\ k \in Nat
    BY <2>2
  <2>4. PICK w : Walk(E, k, w, s)
    BY <2>2
  <2>5. \A i, j \in 1 .. k + 1 : w[i] = w[j] => ~ (i < j)
    <3> SUFFICES ASSUME NEW i \in 1 .. k + 1, NEW j \in 1 .. k + 1, w[i] = w[j], i < j PROVE FALSE
      OBVIOUS
    <3>1. PICK m \in 0 .. k - 1 : \E v : Walk(E, m, v, s)
      BY <2>3, <2>4, ShorterWalk
    <3>2. m \in lengths /\ ~ (k <= m)
      BY <2>3, <3>1
    <3> QED
      BY <2>2, <3>2
  <2>6. /\ w \in [1 .. k + 1 -> E] /\ w[1] = s4 /\ w[k + 1] = s
        /\ \A i \in 1 .. k : Linked(s1, w[i], w[i + 1])
    BY <2>4 DEF Walk
  <2>7. k # 0
    BY <1>1, <2>6
  <2>8. k + 1 \in 2 .. H + 1 /\ (k + 1) - 1 = k /\ k + 1 \in Nat
    BY <2>3, <2>7
  <2>9. w \in Seq(E) /\ Len(w) = k + 1
    BY <2>6, <2>8
  <2>10. \A i, j \in 1 .. k + 1 : w[i] = w[j] => i = j
    BY <2>3, <2>5
  <2>11. Path(E, s1, s4, H, w)
    BY <2>6, <2>8, <2>9, <2>10 DEF Path
  <2> QED
    BY <2>6, <2>9, <2>11
<1> QED
  BY <1>2, <1>3, <1>4

LEMMA ChainedIs ==
  ASSUME NEW E, NEW A, NEW X, NEW L, NEW C, NEW H \in Nat, NEW N, Given(E, C), NEW s
  PROVE  s \in Impacts(E, A, X, L, C, H, N)!Chained <=> s \in Others(E) /\ InChain(E, H, s)
<1>1. \A q : q \in Impacts(E, A, X, L, C, H, N)!Transitive /\ q[Len(q)] = s <=> Chain(E, H, s, q)
  BY TransitiveAre DEF Chain
<1>2. s \in Impacts(E, A, X, L, C, H, N)!Chained
        <=> /\ s \in Others(E) /\ s3[s].blocked
            /\ \E q \in Impacts(E, A, X, L, C, H, N)!Transitive : q[Len(q)] = s
  BY DEF Impacts!Chained, Impacts!Others, Others
<1> QED
  BY <1>1, <1>2 DEF InChain

\* An impact of both kinds is as high as the direct one, and says what it says.
LEMMA MergeIs ==
  ASSUME NEW E, NEW A, NEW X, NEW L, NEW C, NEW H, NEW N, NEW s,
         NEW old, IsDirect(s, old), NEW new, IsChain(E, H, s, new)
  PROVE  LET m == Impacts(E, A, X, L, C, H, N)!Merge(old, new) IN
         /\ Reported(E, H, s, m) /\ Value(m.level) >= Value(old.level)
         /\ "BLOCKED_ENTITY" \in old.signals => "BLOCKED_ENTITY" \in m.signals
<1> DEFINE m == Impacts(E, A, X, L, C, H, N)!Merge(old, new)
<1>1. /\ old = [level |-> old.level, signals |-> old.signals, strength |-> old.strength,
                depth |-> old.depth, path |-> old.path]
      /\ old.level \in LevelNames /\ old.strength \in Nat \ {0}
      /\ \/ old.depth = 0 /\ old.path = <<>>
         \/ old.depth = 1 /\ old.path = <<s4, s>>
  BY DEF IsDirect, IsImpact
<1>2. IsImpact(new) /\ "BLOCKED_ENTITY" \in new.signals /\ AlongChain(E, H, s, new) /\ new.level \in LevelNames
  BY DEF IsChain, IsImpact
<1>3. /\ Impacts(E, A, X, L, C, H, N)!Rank(old.level) = Value(old.level) /\ Value(old.level) \in Nat
      /\ Impacts(E, A, X, L, C, H, N)!Rank(new.level) = Value(new.level) /\ Value(new.level) \in Nat
  BY <1>1, <1>2, RanksAre
<1>4. CASE Value(new.level) > Value(old.level)
  <2>1. m = new
    BY <1>3, <1>4 DEF Impacts!Merge
  <2>2. Value(new.level) >= Value(old.level)
    BY <1>3, <1>4
  <2> QED
    BY <1>2, <2>1, <2>2 DEF Reported
<1>5. CASE ~ (Value(new.level) > Value(old.level))
  <2> DEFINE depth == IF old.depth = 0 THEN new.depth ELSE old.depth
             path == IF old.depth = 0 THEN new.path ELSE old.path
             signals == old.signals \cup {"TRANSITIVE_DEPENDENCY"}
  <2>1. m = [old EXCEPT !.signals = old.signals \cup {"TRANSITIVE_DEPENDENCY"}, !.depth = depth, !.path = path]
    BY <1>3, <1>5 DEF Impacts!Merge, Impacts!None
  <2>2. m = [level |-> old.level, signals |-> signals, strength |-> old.strength,
             depth |-> depth, path |-> path]
    <3> HIDE DEF depth, path
    <3> QED
      BY <1>1, <2>1
  <2>3. \/ depth = 1 /\ path = <<s4, s>>
        \/ depth = new.depth /\ path = new.path
    BY <1>1
  <2> HIDE DEF depth, path, m
  <2>4. /\ m.level = old.level /\ m.signals = signals /\ m.strength = old.strength
        /\ m.depth = depth /\ m.path = path
    BY <2>2
  <2>5. IsImpact(m)
    BY <1>1, <2>2, <2>4 DEF IsImpact
  <2>6. depth = new.depth /\ path = new.path => AlongChain(E, H, s, m)
    BY <1>2, <2>4 DEF AlongChain
  <2>7. Reported(E, H, s, m)
    BY <2>3, <2>4, <2>5, <2>6 DEF Reported
  <2>8. Value(m.level) >= Value(old.level)
    BY <1>3, <2>4
  <2> QED
    BY <2>4, <2>7, <2>8 DEF m
<1> QED
  BY <1>4, <1>5

\* What is reported combines the two.
LEMMA MergedIs ==
  ASSUME NEW E, NEW A, NEW X, NEW L, NEW C, NEW H \in Nat, NEW N, Given(E, C), DirectTyped(E, s6),
         NEW r, r = [s \in DOMAIN s6 \cup Impacts(E, A, X, L, C, H, N)!Chained |->
                        Impacts(E, A, X, L, C, H, N)!Merged(s)]
  PROVE  Combined(E, H, s6, r)
<1> DEFINE merged(s) == Impacts(E, A, X, L, C, H, N)!Merged(s)
           chained == Impacts(E, A, X, L, C, H, N)!Chained
<1>1. \A s : s \in chained <=> s \in Others(E) /\ InChain(E, H, s)
  BY ChainedIs
<1>2. DOMAIN s6 \subseteq Others(E) /\ \A s \in DOMAIN s6 : IsDirect(s, s6[s])
  BY DEF DirectTyped
<1>3. \A s \in chained : IsChain(E, H, s, Impacts(E, A, X, L, C, H, N)!TransitiveImpact(s))
  BY <1>1, TransitiveIs DEF InChain
<1>4. ASSUME NEW s \in DOMAIN s6, s \notin chained PROVE merged(s) = s6[s]
  BY <1>4 DEF Impacts!Merged
<1>5. ASSUME NEW s \in chained, s \notin DOMAIN s6
      PROVE  Reported(E, H, s, merged(s)) /\ "BLOCKED_ENTITY" \in merged(s).signals
  <2>1. merged(s) = Impacts(E, A, X, L, C, H, N)!TransitiveImpact(s)
    BY <1>5 DEF Impacts!Merged
  <2> QED
    BY <1>3, <2>1 DEF IsChain, Reported
<1>6. ASSUME NEW s \in chained, s \in DOMAIN s6
      PROVE  /\ Reported(E, H, s, merged(s)) /\ Value(merged(s).level) >= Value(s6[s].level)
             /\ "BLOCKED_ENTITY" \in s6[s].signals => "BLOCKED_ENTITY" \in merged(s).signals
  <2>1. merged(s) = Impacts(E, A, X, L, C, H, N)!Merge(s6[s],
                        Impacts(E, A, X, L, C, H, N)!TransitiveImpact(s))
    BY <1>6 DEF Impacts!Merged
  <2> QED
    BY <1>2, <1>3, <1>6, <2>1, MergeIs
<1>7. ASSUME NEW s \in DOMAIN s6 PROVE Reported(E, H, s, s6[s]) /\ Value(s6[s].level) >= Value(s6[s].level)
  <2>1. IsDirect(s, s6[s])
    BY <1>2
  <2>2. Value(s6[s].level) \in Nat
    BY DEF Value
  <2> QED
    BY <2>1, <2>2 DEF IsDirect, Reported
<1>8. DOMAIN r = DOMAIN s6 \cup chained /\ \A s \in DOMAIN r : r[s] = merged(s)
  OBVIOUS
<1> HIDE DEF merged, chained
<1>9. DOMAIN r \subseteq Others(E) /\ \A s \in DOMAIN r : Reported(E, H, s, r[s])
  BY <1>1, <1>2, <1>4, <1>5, <1>6, <1>7, <1>8
<1>10. \A s \in DOMAIN s6 : /\ Value(r[s].level) >= Value(s6[s].level)
                            /\ "BLOCKED_ENTITY" \in s6[s].signals => "BLOCKED_ENTITY" \in r[s].signals
                            /\ ~ InChain(E, H, s) => r[s] = s6[s]
  BY <1>1, <1>2, <1>4, <1>6, <1>7, <1>8
<1> QED
  BY <1>1, <1>2, <1>5, <1>8, <1>9, <1>10 DEF Combined

-----------------------------------------------------------------------------
(* The steps.                                                              *)

\* What is said of impacts is said of the records and the entity asked about.
LEMMA SameImpacts ==
  ASSUME s1' = s1, s2' = s2, s4' = s4
  PROVE  /\ \A E, b : DirectTyped(E, b)' <=> DirectTyped(E, b)
         /\ s3' = s3 => \A E, b : DirectComplete(E, b)' <=> DirectComplete(E, b)
         /\ s3' = s3 => \A E, H, b, r : Combined(E, H, b, r)' <=> Combined(E, H, b, r)
<1>1. \A s : Related(s)' <=> Related(s)
  BY DEF Related, Adjoins
<1>2. \A E : Others(E)' = Others(E)
  BY DEF Others
<1>3. \A s, i : IsDirect(s, i)' <=> IsDirect(s, i)
  BY DEF IsDirect
<1>4. \A E, H, s, q : Chain(E, H, s, q)' <=> Chain(E, H, s, q)
  BY DEF Chain, Path, Linked
<1>5. \A E, H, s, i : Reported(E, H, s, i)' <=> Reported(E, H, s, i)
  BY <1>4 DEF Reported, AlongChain, Shortest
<1>6. s3' = s3 => \A E, H, s : InChain(E, H, s)' <=> InChain(E, H, s)
  BY <1>4 DEF InChain
<1>7. \A E, b : DirectTyped(E, b)' <=> DirectTyped(E, b)
  BY <1>1, <1>2, <1>3 DEF DirectTyped
<1>8. ASSUME s3' = s3 PROVE \A E, b : DirectComplete(E, b)' <=> DirectComplete(E, b)
  BY <1>1, <1>2, <1>8 DEF DirectComplete
<1>9. ASSUME s3' = s3 PROVE \A E, H, b, r : Combined(E, H, b, r)' <=> Combined(E, H, b, r)
  BY <1>2, <1>5, <1>6, <1>9 DEF Combined
<1> QED
  BY <1>7, <1>8, <1>9

LEMMA Asks ==
  ASSUME NEW E, NEW A, NEW X, NEW L, NEW C, NothingMistaken(C), NEW H \in Nat, NEW N,
         ImpactInv(E, C, H), Impacts(E, A, X, L, C, H, N)!Ask
  PROVE  ImpactInv(E, C, H)'
<1> DEFINE related == Impacts(E, A, X, L, C, H, N)!Related
           signals(s) == Impacts(E, A, X, L, C, H, N)!Signals(s)
           direct(s) == Impacts(E, A, X, L, C, H, N)!DirectImpact(s)
           b == [s \in {r \in related : signals(r) # {}} |-> direct(s)]
<1>1. /\ s5 = "ask" /\ s6' = b /\ s5' = "propagate"
      /\ s1' = s1 /\ s2' = s2 /\ s3' = s3 /\ s4' = s4 /\ s7' = s7 /\ s8' = s8
  BY DEF Impacts!Ask
<1>2. Given(E, C) /\ s7 = <<>> /\ s8 = 0
  BY <1>1 DEF ImpactInv
<1>3. \A s : s \in related => s \in Others(E)
  BY DEF Impacts!Related, Impacts!Others, Others
<1>4. \A s \in Others(E) : s \in related <=> Related(s)
  BY <1>2, RelationIs
<1>5. \A s \in Others(E) : "BLOCKED_ENTITY" \in signals(s) <=> s3[s].blocked
  BY <1>2, SignalsAre
<1>6. \A s \in Others(E) : Related(s) /\ signals(s) # {} =>
          /\ IsDirect(s, direct(s))
          /\ "BLOCKED_ENTITY" \in direct(s).signals <=> s3[s].blocked
          /\ s3[s].blocked => direct(s).level \in {"HIGH", "CRITICAL"}
  BY <1>2, DirectIs
<1> HIDE DEF related, signals, direct
<1>7. DOMAIN b = {r \in related : signals(r) # {}} /\ \A s \in DOMAIN b : b[s] = direct(s)
  OBVIOUS
<1> HIDE DEF b
<1>8. DirectTyped(E, b)
  BY <1>3, <1>4, <1>6, <1>7 DEF DirectTyped
<1>9. DirectComplete(E, b)
  <2> SUFFICES ASSUME NEW s \in Others(E)
               PROVE  /\ s3[s].blocked /\ Related(s) <=> s \in DOMAIN b /\ "BLOCKED_ENTITY" \in b[s].signals
                      /\ s3[s].blocked /\ Related(s) => b[s].level \in {"HIGH", "CRITICAL"}
    BY DEF DirectComplete
  <2>1. s3[s].blocked => signals(s) # {}
    BY <1>5
  <2> QED
    BY <1>3, <1>4, <1>6, <1>7, <2>1
<1>10. DirectTyped(E, s6)' /\ DirectComplete(E, s6)'
  BY <1>1, <1>8, <1>9, SameImpacts
<1>11. Given(E, C)'
  BY <1>1, <1>2 DEF Given, Others
<1> QED
  BY <1>1, <1>2, <1>10, <1>11 DEF ImpactInv

LEMMA Propagates ==
  ASSUME NEW E, NEW A, NEW X, NEW L, NEW C, NEW H \in Nat, NEW N,
         ImpactInv(E, C, H), Impacts(E, A, X, L, C, H, N)!Propagate
  PROVE  ImpactInv(E, C, H)'
<1> DEFINE r == [s \in DOMAIN s6 \cup Impacts(E, A, X, L, C, H, N)!Chained |->
                    Impacts(E, A, X, L, C, H, N)!Merged(s)]
<1>1. /\ s5 = "propagate" /\ s7' = r /\ s5' = "done"
      /\ s1' = s1 /\ s2' = s2 /\ s3' = s3 /\ s4' = s4 /\ s6' = s6 /\ s8' = s8
  BY DEF Impacts!Propagate
<1>2. Given(E, C) /\ s8 \in Nat /\ DirectTyped(E, s6) /\ (s8 = 0 => DirectComplete(E, s6))
  BY <1>1 DEF ImpactInv
<1>3. Combined(E, H, s6, r)
  BY <1>2, MergedIs
<1> HIDE DEF r
<1>4. DirectTyped(E, s6)' /\ (s8' = 0 => DirectComplete(E, s6)')
  BY <1>1, <1>2, SameImpacts
<1>5. Combined(E, H, s6, s7)'
  BY <1>1, <1>3, SameImpacts
<1>6. Given(E, C)'
  BY <1>1, <1>2 DEF Given, Others
<1> QED
  BY <1>1, <1>2, <1>4, <1>5, <1>6 DEF ImpactInv

LEMMA ImpactChanges ==
  ASSUME NEW E, NEW A, NEW X, NEW L, NEW C, NEW H \in Nat, NEW N,
         ImpactInv(E, C, H), Impacts(E, A, X, L, C, H, N)!Change
  PROVE  ImpactInv(E, C, H)'
<1>1. PICK s \in Others(E), c \in C : s3' = [s3 EXCEPT ![s] = c]
  BY DEF Impacts!Change, Impacts!Others, Others
<1>2. /\ s5 = "propagate" /\ s8' = s8 + 1 /\ s5' = s5
      /\ s1' = s1 /\ s2' = s2 /\ s4' = s4 /\ s6' = s6 /\ s7' = s7
  BY DEF Impacts!Change
<1>3. Given(E, C) /\ s8 \in Nat /\ DirectTyped(E, s6) /\ s7 = <<>>
  BY <1>2 DEF ImpactInv
<1>4. DirectTyped(E, s6)'
  BY <1>2, <1>3, SameImpacts
<1>5. s3' \in [Others(E) -> C]
  BY <1>1, <1>3 DEF Given
<1>6. Given(E, C)'
  BY <1>2, <1>3, <1>5 DEF Given, Others
<1>7. s8' \in Nat /\ s8' # 0
  BY <1>2, <1>3
<1> QED
  BY <1>2, <1>3, <1>4, <1>6, <1>7 DEF ImpactInv

LEMMA ImpactStarts ==
  ASSUME NEW E \in SUBSET Nat, NEW A \in SUBSET E, NEW X \in SUBSET Nat, NEW L, NEW C, NEW H, NEW N,
         Impacts(E, A, X, L, C, H, N)!Init,
         \A S \in L : /\ S \subseteq DependencyRecords /\ IsFiniteSet(S)
                      /\ \A d \in S : d.source \in E /\ d.target \in E
  PROVE  ImpactInv(E, C, H)
<1>1. /\ s1 \in L /\ s4 \in A /\ s2 \in [Others(E) -> X] /\ s3 \in [Others(E) -> C]
      /\ s5 = "ask" /\ s6 = <<>> /\ s7 = <<>> /\ s8 = 0
  BY DEF Impacts!Init, Others
<1>2. s2 \in [Others(E) -> Nat]
  BY <1>1
<1> QED
  BY <1>1, <1>2 DEF ImpactInv, Given

-----------------------------------------------------------------------------
(* What the invariant says of the impacts.                                 *)

\* A depth goes with a path from the entity asked about, of as many records.
LEMMA ReportedIs ==
  ASSUME NEW E, NEW H, NEW s, NEW i, Reported(E, H, s, i)
  PROVE  /\ i.signals # {} /\ i.strength > 0
         /\ (i.depth = 0) <=> (i.path = <<>>)
         /\ i.path # <<>> => i.path[1] = s4 /\ i.path[Len(i.path)] = s /\ Len(i.path) = i.depth + 1
<1>1. i.signals # {} /\ i.strength > 0
  BY DEF Reported, IsImpact
<1>2. CASE i.depth = 0 /\ i.path = <<>>
  BY <1>1, <1>2
<1>3. CASE i.depth = 1 /\ i.path = <<s4, s>>
  <2>1. Len(<<s4, s>>) = 2 /\ <<s4, s>>[1] = s4 /\ <<s4, s>>[2] = s /\ <<s4, s>> # <<>>
    OBVIOUS
  <2> QED
    BY <1>1, <1>3, <2>1
<1>4. CASE AlongChain(E, H, s, i)
  <2>1. /\ i.path \in Seq(E) /\ Len(i.path) \in Nat /\ Len(i.path) > 2 /\ i.path[1] = s4
        /\ i.path[Len(i.path)] = s /\ i.depth = Len(i.path) - 1
    BY <1>4, LenProperties DEF AlongChain, Shortest, Chain, Path
  <2>2. i.path # <<>>
    BY <2>1, EmptySeq
  <2>3. i.depth # 0 /\ Len(i.path) = i.depth + 1
    BY <2>1
  <2> QED
    BY <1>1, <2>1, <2>2, <2>3
<1> QED
  BY <1>2, <1>3, <1>4 DEF Reported

\* The impacts are typed, and the chains that are reported are shortest ones.
LEMMA ImpactsTyped ==
  ASSUME NEW E, NEW A, NEW X, NEW L, NEW C, NEW H \in Nat, NEW N, ImpactInv(E, C, H)
  PROVE  Impacts(E, A, X, L, C, H, N)!TypeOK /\ Impacts(E, A, X, L, C, H, N)!ShortestChain
<1>1. \A s \in DOMAIN s7 : s \in Others(E) /\ Reported(E, H, s, s7[s])
  <2>1. CASE s5 = "done"
    BY <2>1 DEF ImpactInv, Combined
  <2>2. CASE s5 # "done"
    <3>1. s7 = <<>>
      BY <2>2 DEF ImpactInv
    <3> QED
      BY <3>1
  <2> QED
    BY <2>1, <2>2
<1>2. ASSUME NEW s \in DOMAIN s7
      PROVE  LET i == s7[s] IN
             /\ s \in E \ {s4} /\ i.signals # {} /\ i.strength > 0
             /\ (i.depth = 0) <=> (i.path = <<>>)
             /\ i.path # <<>> => i.path[1] = s4 /\ i.path[Len(i.path)] = s /\ Len(i.path) = i.depth + 1
  BY <1>1, ReportedIs DEF Others
<1>3. Impacts(E, A, X, L, C, H, N)!TypeOK
  BY <1>2 DEF Impacts!TypeOK, Impacts!Others, Impacts!None
<1>4. ASSUME NEW s \in DOMAIN s7, s7[s].depth > 1, NEW k \in 2 .. s7[s].depth - 1,
             NEW p \in Impacts(E, A, X, L, C, H, N)!SimplePaths(s1, s4, k),
             Len(p) = k + 1, p[k + 1] = s
      PROVE  FALSE
  <2> DEFINE i == s7[s]
  <2>1. Reported(E, H, s, i)
    BY <1>1
  <2>2. i.depth > 1 /\ k \in 2 .. i.depth - 1
    BY <1>4
  <2> HIDE DEF i
  <2>3. AlongChain(E, H, s, i)
    BY <2>1, <2>2 DEF Reported
  <2>4. /\ i.depth = Len(i.path) - 1 /\ Len(i.path) \in 2 .. H + 1
        /\ \A q : Chain(E, H, s, q) => Len(i.path) <= Len(q)
    BY <2>3 DEF AlongChain, Shortest, Chain, Path
  <2>5. k \in Nat /\ k >= 2 /\ k + 1 < Len(i.path) /\ k + 1 \in 2 .. H + 1 /\ k + 1 > 2
    BY <2>2, <2>4
  <2>6. Path(E, s1, s4, k, p)
    BY <2>5, TransitiveAre DEF ImpactInv
  <2>7. Path(E, s1, s4, H, p)
    BY <1>4, <2>5, <2>6 DEF Path
  <2>8. Chain(E, H, s, p)
    BY <1>4, <2>5, <2>7 DEF Chain
  <2>9. Len(i.path) <= k + 1
    BY <1>4, <2>4, <2>8
  <2> QED
    BY <2>4, <2>5, <2>9
<1>5. Impacts(E, A, X, L, C, H, N)!ShortestChain
  BY <1>4 DEF Impacts!ShortestChain
<1> QED
  BY <1>3, <1>5

\* The chains lower no direct impact.
LEMMA ImpactsKept ==
  ASSUME NEW E, NEW A, NEW X, NEW L, NEW C, NEW H, NEW N, ImpactInv(E, C, H)
  PROVE  Impacts(E, A, X, L, C, H, N)!LevelsKept
<1> SUFFICES ASSUME s5 = "done", NEW s \in DOMAIN s6
             PROVE  /\ s \in DOMAIN s7
                    /\ Impacts(E, A, X, L, C, H, N)!Rank(s7[s].level)
                          >= Impacts(E, A, X, L, C, H, N)!Rank(s6[s].level)
  BY DEF Impacts!LevelsKept
<1>1. DirectTyped(E, s6) /\ Combined(E, H, s6, s7)
  BY DEF ImpactInv
<1>2. s \in DOMAIN s7 /\ Value(s7[s].level) >= Value(s6[s].level)
  BY <1>1 DEF Combined, DirectTyped
<1>3. s7[s].level \in LevelNames /\ s6[s].level \in LevelNames
  BY <1>1, <1>2 DEF Combined, DirectTyped, Reported, IsDirect, IsImpact
<1> QED
  BY <1>2, <1>3, RanksAre

\* Undisturbed, who is BLOCKED, and related or in reach, is reported.
LEMMA BlockedKnown ==
  ASSUME NEW E, NEW A, NEW X, NEW L, NEW C, NEW H \in Nat, NEW N, ImpactInv(E, C, H)
  PROVE  Impacts(E, A, X, L, C, H, N)!BlockedReported
<1> SUFFICES ASSUME s5 = "done", s8 = 0 PROVE Impacts(E, A, X, L, C, H, N)!BlockedReported
  BY DEF Impacts!BlockedReported
<1> DEFINE linked == {s \in Others(E) : Related(s)}
           within == Impacts(E, A, X, L, C, H, N)!Within(H)
           rank(l) == Impacts(E, A, X, L, C, H, N)!Rank(l)
<1>1. Given(E, C) /\ DirectTyped(E, s6) /\ DirectComplete(E, s6) /\ Combined(E, H, s6, s7)
  BY DEF ImpactInv
<1>2. \A s \in Others(E) : s \in within <=> \E q : Path(E, s1, s4, H, q) /\ q[Len(q)] = s
  BY <1>1, WithinIs
<1>3. \A q : Path(E, s1, s4, H, q) => Len(q) \in Nat /\ Len(q) >= 2
  BY DEF Path
<1>4. ASSUME NEW s \in Others(E), NEW q, Path(E, s1, s4, H, q), q[Len(q)] = s
      PROVE  Related(s) \/ Chain(E, H, s, q)
  <2>1. CASE Len(q) > 2
    BY <1>4, <2>1 DEF Chain
  <2>2. CASE Len(q) = 2
    <3>1. q[1] = s4 /\ 1 \in 1 .. Len(q) - 1 /\ 1 + 1 = 2
      BY <1>4, <2>2 DEF Path
    <3>2. Linked(s1, q[1], q[1 + 1])
      BY <1>4, <3>1 DEF Path
    <3>3. \E d \in s1 : d.source = s4 /\ d.target = s
      BY <1>4, <2>2, <3>1, <3>2 DEF Linked
    <3> QED
      BY <3>3 DEF Related, Adjoins
  <2>3. Len(q) \in Nat /\ Len(q) >= 2
    BY <1>3, <1>4
  <2>4. Len(q) > 2 \/ Len(q) = 2
    <3>1. \A m \in Nat : m >= 2 => m > 2 \/ m = 2
      OBVIOUS
    <3> QED
      BY <2>3, <3>1, Zenon
  <2> QED
    BY <2>1, <2>2, <2>4
<1>5. \A s \in Others(E) : InChain(E, H, s) => s \in within /\ s3[s].blocked
  BY <1>2 DEF InChain, Chain
<1>6. \A s \in Others(E) : s3[s].blocked /\ s \in within => Related(s) \/ InChain(E, H, s)
  BY <1>2, <1>4 DEF InChain
<1> HIDE DEF within
<1>7. ASSUME NEW s \in Others(E), s3[s].blocked, s \in linked \cup within
      PROVE  s \in DOMAIN s7 /\ "BLOCKED_ENTITY" \in s7[s].signals
  <2>1. CASE Related(s)
    <3>1. s \in DOMAIN s6 /\ "BLOCKED_ENTITY" \in s6[s].signals
      BY <1>1, <1>7, <2>1 DEF DirectComplete
    <3> QED
      BY <1>1, <3>1 DEF Combined
  <2>2. CASE ~ Related(s)
    <3>1. InChain(E, H, s)
      BY <1>6, <1>7, <2>2
    <3>2. s \notin DOMAIN s6
      BY <1>1, <2>2 DEF DirectTyped
    <3> QED
      BY <1>1, <3>1, <3>2 DEF Combined
  <2> QED
    BY <2>1, <2>2
<1>8. ASSUME NEW s \in Others(E), s \in DOMAIN s7, "BLOCKED_ENTITY" \in s7[s].signals
      PROVE  s3[s].blocked /\ s \in linked \cup within
  <2>1. CASE InChain(E, H, s)
    BY <1>5, <2>1
  <2>2. CASE ~ InChain(E, H, s)
    <3>1. s \in DOMAIN s6 /\ s7[s] = s6[s]
      BY <1>1, <1>8, <2>2 DEF Combined
    <3> QED
      BY <1>1, <1>8, <3>1 DEF DirectComplete
  <2> QED
    BY <2>1, <2>2
<1>9. ASSUME NEW s \in linked, s3[s].blocked PROVE rank(s7[s].level) >= rank("HIGH")
  <2>1. s \in DOMAIN s6 /\ s6[s].level \in {"HIGH", "CRITICAL"}
    BY <1>1, <1>9 DEF DirectComplete
  <2>2. s \in DOMAIN s7 /\ Value(s7[s].level) >= Value(s6[s].level)
    BY <1>1, <1>9, <2>1 DEF Combined
  <2>3. s7[s].level \in LevelNames
    BY <1>1, <2>2 DEF Combined, Reported, IsImpact
  <2>4. "HIGH" \in LevelNames
    BY DEF LevelNames
  <2>5. rank(s7[s].level) = Value(s7[s].level) /\ rank("HIGH") = Value("HIGH")
    BY <2>3, <2>4, RanksAre
  <2>6. Value(s7[s].level) >= 3 /\ Value("HIGH") = 3
    BY <2>1, <2>2, <2>3 DEF Value, LevelNames
  <2> QED
    BY <2>5, <2>6
<1>10. linked = {s \in E \ {s4} : s2[s] > 0 \/ \E d \in s1 : {d.source, d.target} = {s4, s}}
  BY DEF Related, Adjoins, Others
<1> QED
  BY <1>7, <1>8, <1>9, <1>10 DEF Impacts!BlockedReported, Impacts!Others, Others, within

-----------------------------------------------------------------------------
(* The two parts about the impacts.                                        *)
ImpactsInv ==
    /\ part = "direct" => ImpactInv(Listed, MoreConditions, FewHops)
    /\ part = "chains" => ImpactInv(Nodes, Conditions, Hops)

LEMMA ConditionsOK == NothingMistaken(Conditions) /\ NothingMistaken(MoreConditions)
BY DEF NothingMistaken, Conditions, MoreConditions, Condition

\* The records of the two parts.
LEMMA RecordsOK ==
  /\ \A S \in UpToThree : /\ S \subseteq DependencyRecords /\ IsFiniteSet(S)
                          /\ \A d \in S : d.source \in Listed /\ d.target \in Listed
  /\ \A S \in FourChains : /\ S \subseteq DependencyRecords /\ IsFiniteSet(S)
                           /\ \A d \in S : d.source \in Nodes /\ d.target \in Nodes
<1>1. \A m \in {FirstMeeting, SecondMeeting} : \A d \in Said(m) :
         d \in DependencyRecords /\ d.source \in Listed /\ d.target \in Listed
  <2> SUFFICES ASSUME NEW m \in {FirstMeeting, SecondMeeting}, NEW d \in Said(m)
               PROVE  d \in DependencyRecords /\ d.source \in Listed /\ d.target \in Listed
    OBVIOUS
  <2>1. d \in [source : Listed, target : Listed, type : Types, meeting : {m}, revision : {1}]
    BY DEF Said, D!Records, D!Types, Types
  <2>2. Listed \subseteq Nodes
    BY SearchAssumption
  <2> QED
    BY <2>1, <2>2 DEF DependencyRecords
<1>2. \A d \in Depends : d \in DependencyRecords /\ d.source \in Nodes /\ d.target \in Nodes
  BY DEF Depends, Stated, D!Records, D!Types, DependencyRecords, Types
<1>3. ASSUME NEW S \in UpToThree
      PROVE  /\ S \subseteq DependencyRecords /\ IsFiniteSet(S)
             /\ \A d \in S : d.source \in Listed /\ d.target \in Listed
  <2>1. CASE S = {}
    BY <2>1, FS_EmptySet
  <2>2. \/ S = {}
        \/ \E a, b \in Said(FirstMeeting), c \in Said(FirstMeeting) \cup Said(SecondMeeting) :
              S = {a, b, c, c}
    <3>1. \A a : {a} = {a, a, a, a}
      OBVIOUS
    <3>2. \A a, b, c : {a, b, c} = {a, b, c, c}
      OBVIOUS
    <3> QED
      BY <3>1, <3>2 DEF UpToThree
  <2>3. ASSUME NEW a \in Said(FirstMeeting), NEW b \in Said(FirstMeeting),
               NEW c \in Said(FirstMeeting) \cup Said(SecondMeeting), S = {a, b, c, c}
        PROVE  /\ S \subseteq DependencyRecords /\ IsFiniteSet(S)
               /\ \A d \in S : d.source \in Listed /\ d.target \in Listed
    BY <1>1, <2>3, FewFinite
  <2> QED
    BY <2>1, <2>2, <2>3
<1>4. ASSUME NEW S \in FourChains
      PROVE  /\ S \subseteq DependencyRecords /\ IsFiniteSet(S)
             /\ \A d \in S : d.source \in Nodes /\ d.target \in Nodes
  <2>1. PICK a \in Depends, b \in Depends, c \in Depends, d \in Depends : S = {a, b, c, d}
    BY <1>4 DEF FourChains
  <2> QED
    BY <1>2, <2>1, FewFinite
<1> QED
  BY <1>3, <1>4

LEMMA ImpactsInit == Init => ImpactsInv
<1> SUFFICES ASSUME Init PROVE ImpactsInv
  OBVIOUS
<1>1. /\ Listed \in SUBSET Nat /\ Nodes \in SUBSET Nat /\ Subjects \in SUBSET Listed
      /\ {Subject} \in SUBSET Nodes /\ Counts \in SUBSET Nat /\ {0} \in SUBSET Nat
  BY SearchAssumption, ImpactAssumption
<1>2. CASE part = "direct"
  <2>1. Impacts(Listed, Subjects, Counts, UpToThree, MoreConditions, FewHops, 0)!Init
    BY <1>2 DEF Init
  <2>2. ImpactInv(Listed, MoreConditions, FewHops)
    BY <1>1, <2>1, RecordsOK, ImpactStarts
  <2> QED
    BY <1>2, <2>2 DEF ImpactsInv
<1>3. CASE part = "chains"
  <2>1. Impacts(Nodes, {Subject}, {0}, FourChains, Conditions, Hops, MaxWrites)!Init
    BY <1>3 DEF Init
  <2>2. ImpactInv(Nodes, Conditions, Hops)
    BY <1>1, <2>1, RecordsOK, ImpactStarts
  <2> QED
    BY <1>3, <2>2 DEF ImpactsInv
<1>4. CASE part \notin {"direct", "chains"}
  BY <1>4 DEF ImpactsInv
<1> QED
  BY <1>2, <1>3, <1>4

LEMMA ImpactStep ==
  ASSUME NEW E, NEW A, NEW X, NEW L, NEW C, NothingMistaken(C), NEW H \in Nat, NEW N,
         ImpactInv(E, C, H), Impacts(E, A, X, L, C, H, N)!Next
  PROVE  ImpactInv(E, C, H)'
<1>1. CASE Impacts(E, A, X, L, C, H, N)!Ask
  BY <1>1, Asks
<1>2. CASE Impacts(E, A, X, L, C, H, N)!Propagate
  BY <1>2, Propagates
<1>3. CASE Impacts(E, A, X, L, C, H, N)!Change
  BY <1>3, ImpactChanges
<1> QED
  BY <1>1, <1>2, <1>3 DEF Impacts!Next

LEMMA ImpactsStep == ImpactsInv /\ [Next]_vars => ImpactsInv'
<1> SUFFICES ASSUME ImpactsInv, [Next]_vars PROVE ImpactsInv'
  OBVIOUS
<1>1. part' = part
  BY DEF Next, vars, Rest6, Rest7, Rest8
<1>2. FewHops \in Nat /\ Hops \in Nat
  BY SearchAssumption
<1>3. CASE UNCHANGED vars
  <2>1. UNCHANGED <<part, s1, s2, s3, s4, s5, s6, s7, s8, s9, s10>>
    BY <1>3 DEF vars
  <2>2. \A E, C : Given(E, C)' <=> Given(E, C)
    BY <2>1 DEF Given, Others
  <2>3. \A E, C, H : ImpactInv(E, C, H)' <=> ImpactInv(E, C, H)
    BY <2>1, <2>2, SameImpacts DEF ImpactInv
  <2> QED
    BY <1>1, <2>3 DEF ImpactsInv
<1>4. CASE Next /\ part = "direct"
  <2>1. Impacts(Listed, Subjects, Counts, UpToThree, MoreConditions, FewHops, 0)!Next
    BY <1>4 DEF Next
  <2>2. ImpactInv(Listed, MoreConditions, FewHops)'
    BY <1>2, <1>4, <2>1, ConditionsOK, ImpactStep DEF ImpactsInv
  <2> QED
    BY <1>1, <1>4, <2>2 DEF ImpactsInv
<1>5. CASE Next /\ part = "chains"
  <2>1. Impacts(Nodes, {Subject}, {0}, FourChains, Conditions, Hops, MaxWrites)!Next
    BY <1>5 DEF Next
  <2>2. ImpactInv(Nodes, Conditions, Hops)'
    BY <1>2, <1>5, <2>1, ConditionsOK, ImpactStep DEF ImpactsInv
  <2> QED
    BY <1>1, <1>5, <2>2 DEF ImpactsInv
<1>6. CASE part \notin {"direct", "chains"}
  BY <1>1, <1>6 DEF ImpactsInv
<1> QED
  BY <1>3, <1>4, <1>5, <1>6

\* The impacts, for any entities, depth, number of shared meetings and of changes:
\* undisturbed, an entity that is BLOCKED and related, or within reach of the depth over
\* the records, is reported, and nobody else as BLOCKED; the chains lower no direct
\* impact, and a chain that is reported is a shortest one, also when entities change
\* between the reads.
THEOREM ImpactsAreComplete == Spec => []ImpactsComplete
<1>1. ImpactsInv => ImpactsComplete
  <2> SUFFICES ASSUME ImpactsInv PROVE ImpactsComplete
    OBVIOUS
  <2>1. FewHops \in Nat /\ Hops \in Nat
    BY SearchAssumption
  <2>2. CASE part = "direct"
    <3>1. ImpactInv(Listed, MoreConditions, FewHops)
      BY <2>2 DEF ImpactsInv
    <3> QED
      BY <2>1, <2>2, <3>1, ImpactsTyped, BlockedKnown DEF ImpactsComplete
  <2>3. CASE part = "chains"
    <3>1. ImpactInv(Nodes, Conditions, Hops)
      BY <2>3 DEF ImpactsInv
    <3> QED
      BY <2>1, <2>3, <3>1, ImpactsTyped, ImpactsKept DEF ImpactsComplete
  <2>4. CASE part \notin {"direct", "chains"}
    BY <2>4 DEF ImpactsComplete
  <2> QED
    BY <2>2, <2>3, <2>4
<1> QED
  BY <1>1, ImpactsInit, ImpactsStep, PTL DEF Spec

=============================================================================
