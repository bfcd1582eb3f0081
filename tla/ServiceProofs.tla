---------------------------- MODULE ServiceProofs ----------------------------
(***************************************************************************)
(* Five properties of the run on what surrounds the processing:            *)
(* memberships are kept, for any users, organisations and clients, from    *)
(* the theorems of MembershipProofs; scans report once, for any signals,   *)
(* number of buckets and attempts, and limits of the lists; guesses are    *)
(* bounded and disabling ends sessions, for any logins, sessions, limit,   *)
(* window and life of a session; the quota is kept, for any keys,          *)
(* threads, quota, window and number of keys tracked; and answers are      *)
(* grounded, for any entities, meetings, requests, reports and limits.     *)
(***************************************************************************)
EXTENDS MCService, FiniteSetTheorems, SequenceTheorems, WellFoundedInduction, TLAPS

-----------------------------------------------------------------------------
(* The scans.  Their variables are s1, the bucket it is, s2, the signals,  *)
(* s3, the jobs, s4, those that succeeded, and s5, the worker.             *)

Buckets  == 1 .. MaxBucket
Statuses == {"NONE", "PENDING", "RUNNING", "RETRY_WAITING", "FAILED", "SUCCEEDED", "CANCELLED"}
Job      == [status : Statuses, owner : SUBSET {Worker}, attempts : Nat,
             ids : Scans!Lists(MaxSignals), new : Scans!Lists(MaxNew)]

\* What a scan of the ids reports when those of list have succeeded.
NewOf(ids, list, jobs) ==
    IF list = <<>> THEN {} ELSE Scans!FirstOf(ids \ jobs[list[Len(list)]].ids, MaxNew)

\* A job has what its status says; none is of a bucket to come.
JobOK(b) ==
    /\ s3[b].attempts <= MaxAttempts
    /\ s3[b].status = "PENDING" => s3[b].attempts = 0
    /\ s3[b].status = "RETRY_WAITING" => s3[b].attempts < MaxAttempts
    /\ s3[b].new \subseteq s3[b].ids
    /\ s3[b].status = "NONE" => s3[b] = Scans!NoJob
    /\ s3[b].status = "SUCCEEDED" <=> \E i \in DOMAIN s4 : s4[i] = b
    /\ b > s1 => s3[b].status = "NONE"

\* The locals of the worker, by its step.
Locals ==
    {[pc |-> "tick"], [pc |-> "claim"]}
    \cup [pc : {"enqueue", "collect", "succeed"}, bucket : Buckets]
    \cup [pc : {"compare"}, bucket : Buckets, ids : Scans!Lists(MaxSignals)]
    \cup [pc : {"record"}, bucket : Buckets, ids : Scans!Lists(MaxSignals), new : Scans!Lists(MaxNew)]

\* What it saw still holds: nothing is outstanding when it is about to enqueue, and
\* what is new was not in the scan before.
LocalOK(l) ==
    /\ l.pc = "enqueue" =>
          \A b \in Buckets : /\ s3[b].status \notin Scans!Outstanding
                             /\ b > l.bucket => s3[b].status = "NONE"
                             /\ l.bucket <= s1
    /\ l.pc = "record" => l.new = NewOf(l.ids, s4, s3) /\ l.new \subseteq l.ids
    /\ l.pc = "succeed" => s3[l.bucket].new = NewOf(s3[l.bucket].ids, s4, s3)

\* The inductive invariant.
ScansInv ==
    /\ s1 \in Buckets /\ s2 \subseteq SignalIds
    /\ s3 \in [Buckets -> Job] /\ s4 \in Seq(Buckets)
    /\ \A b \in Buckets : JobOK(b)
    /\ Scans!OneOutstanding
    /\ Scans!NewIsDifference
    /\ DOMAIN s5 = {Worker} /\ s5[Worker] \in Locals /\ LocalOK(s5[Worker])

\* What the worker's step says of its locals.
LEMMA LocalSays ==
  ASSUME NEW l \in Locals
  PROVE  /\ l.pc \in {"enqueue", "collect", "succeed", "compare", "record"} => l.bucket \in Buckets
         /\ l.pc = "collect" => l = [pc |-> "collect", bucket |-> l.bucket]
         /\ l.pc = "compare" => l = [pc |-> "compare", bucket |-> l.bucket, ids |-> l.ids]
         /\ l.pc \in {"compare", "record"} => l.ids \in Scans!Lists(MaxSignals)
         /\ l.pc = "record" => l.new \in Scans!Lists(MaxNew)
BY DEF Locals

\* Facts about lists of ids: those cut are lists, and none is empty of signals
\* the whole had not.
LEMMA ListsCut ==
  /\ \A set \in SUBSET SignalIds : Scans!FirstOf(set, MaxSignals) \in Scans!Lists(MaxSignals)
  /\ \A set \in SUBSET SignalIds : Scans!FirstOf(set, MaxNew) \in Scans!Lists(MaxNew)
  /\ \A set, n : Scans!FirstOf(set, n) \subseteq set
  /\ {} \in Scans!Lists(MaxSignals) /\ {} \in Scans!Lists(MaxNew)
  /\ \A n : \A list \in Scans!Lists(n) : list \subseteq SignalIds
<1>1. \A n : \A set \in SUBSET SignalIds : Scans!FirstOf(set, n) \in Scans!Lists(n)
  BY DEF Scans!Lists
<1>2. \A set, n : Scans!FirstOf(set, n) \subseteq set
  BY DEF Scans!FirstOf
<1>3. \A n : Scans!FirstOf({}, n) = {}
  BY <1>2
<1>4. \A n : {} \in Scans!Lists(n)
  BY <1>1, <1>3
<1>5. \A n : \A list \in Scans!Lists(n) : list \subseteq SignalIds
  BY <1>2 DEF Scans!Lists
<1> QED
  BY <1>1, <1>2, <1>4, <1>5

\* The worker becomes l, the others being none.
LEMMA WorkerBecomes ==
  ASSUME ScansInv, NEW l, Scans!Become(Worker, l)
  PROVE  DOMAIN s5' = {Worker} /\ s5'[Worker] = l
BY DEF ScansInv, Scans!Become

\* Job b becomes x.
LEMMA JobBecomes ==
  ASSUME ScansInv, NEW b \in Buckets, NEW x \in Job, s3' = [s3 EXCEPT ![b] = x]
  PROVE  /\ s3' \in [Buckets -> Job] /\ s3'[b] = x
         /\ \A c \in Buckets : c # b => s3'[c] = s3[c]
BY DEF ScansInv

\* First states.
LEMMA ScansInit == Scans!Init => ScansInv
<1> SUFFICES ASSUME Scans!Init PROVE ScansInv
  OBVIOUS
<1>1. 1 \in Buckets /\ Scans!NoJob \in Job /\ Scans!NoJob.status = "NONE"
      /\ Scans!NoJob.attempts = 0 /\ Scans!NoJob.new \subseteq Scans!NoJob.ids
  BY ScansAssumption, ListsCut DEF Buckets, Scans!NoJob, Job, Statuses
<1>2. s3 \in [Buckets -> Job] /\ \A b \in Buckets : s3[b] = Scans!NoJob
  BY <1>1 DEF Scans!Init, Buckets
<1>3. s4 \in Seq(Buckets) /\ DOMAIN s4 = {}
  BY DEF Scans!Init
<1>4. \A b \in Buckets : JobOK(b)
  BY <1>1, <1>2, <1>3, ScansAssumption DEF JobOK
<1>5. Scans!OneOutstanding
  BY <1>1, <1>2 DEF Scans!OneOutstanding, Scans!Outstanding
<1>6. Scans!NewIsDifference
  BY <1>3 DEF Scans!NewIsDifference
<1>7. DOMAIN s5 = {Worker} /\ s5[Worker] = [pc |-> "tick"]
  BY DEF Scans!Init, Scans!Idle
<1>8. s5[Worker] \in Locals /\ LocalOK(s5[Worker])
  BY <1>7 DEF Locals, LocalOK
<1> QED
  BY <1>1, <1>2, <1>3, <1>4, <1>5, <1>6, <1>7, <1>8 DEF Scans!Init, ScansInv

-----------------------------------------------------------------------------
(* The steps of the scans.                                                 *)

\* A step that leaves the jobs alone, and whose worker knows what it says it knows.
LEMMA JobsStay ==
  ASSUME ScansInv, s3' = s3, s4' = s4, s1' \in Buckets, s1' >= s1, s2' \subseteq SignalIds,
         DOMAIN s5' = {Worker}, s5'[Worker] \in Locals, LocalOK(s5[Worker])'
  PROVE  ScansInv'
<1>1. \A b \in Buckets : JobOK(b)'
  BY DEF ScansInv, JobOK, Scans!NoJob, Buckets
<1>2. Scans!OneOutstanding' /\ Scans!NewIsDifference'
  BY DEF ScansInv, Scans!OneOutstanding, Scans!NewIsDifference
<1> QED
  BY <1>1, <1>2 DEF ScansInv, Buckets, Job, Statuses, Scans!Lists, Locals

\* What a worker that keeps its locals knows, when the jobs stay.
LEMMA LocalStays ==
  ASSUME s3' = s3, s4' = s4, s1 \in Nat, s1' \in Nat, s1' >= s1,
         NEW l \in Locals, LocalOK(l)
  PROVE  LocalOK(l)'
<1>1. l.pc = "enqueue" => l.bucket \in Nat
  BY LocalSays DEF Buckets
<1> QED
  BY <1>1 DEF LocalOK, NewOf, Buckets

\* An outstanding job b becomes x, and has not succeeded.
LEMMA JobMoves ==
  ASSUME ScansInv, s1' = s1, s2' = s2, s4' = s4, s3' \in [Buckets -> Job],
         NEW b \in Buckets, NEW x \in Job, s3'[b] = x,
         \A c \in Buckets : c # b => s3'[c] = s3[c],
         s3[b].status \in Scans!Outstanding,
         x.status \notin {"NONE", "SUCCEEDED"}, x.attempts <= MaxAttempts,
         x.status # "PENDING",
         x.status = "RETRY_WAITING" => x.attempts < MaxAttempts,
         x.new \subseteq x.ids
  PROVE  /\ \A c \in Buckets : JobOK(c)'
         /\ Scans!OneOutstanding' /\ Scans!NewIsDifference'
         /\ \A i \in DOMAIN s4 : s4[i] \in Buckets /\ s4[i] # b
         /\ \A ids : NewOf(ids, s4, s3') = NewOf(ids, s4, s3)
<1>1. /\ s1 \in Buckets /\ DOMAIN s3 = Buckets /\ DOMAIN s3' = Buckets
      /\ s4 \in Seq(Buckets)
  BY DEF ScansInv
<1>2. /\ b <= s1
      /\ s3[b].status # "SUCCEEDED"
      /\ \A i \in DOMAIN s4 : s4[i] \in Buckets /\ s4[i] # b
  <2>1. JobOK(b)
    BY DEF ScansInv
  <2>2. s3[b].status # "SUCCEEDED" /\ s3[b].status # "NONE"
    BY DEF Scans!Outstanding
  <2>3. b \in Nat /\ s1 \in Nat
    BY <1>1, ScansAssumption DEF Buckets
  <2>4. \A i \in DOMAIN s4 : s4[i] \in Buckets
    BY <1>1, ElementOfSeq
  <2>5. b <= s1
    BY <2>1, <2>2, <2>3 DEF JobOK
  <2>6. \A i \in DOMAIN s4 : s4[i] # b
    BY <2>1, <2>2 DEF JobOK
  <2> QED
    BY <2>2, <2>4, <2>5, <2>6
<1>3. \A c \in Buckets : JobOK(c)'
  <2> TAKE c \in Buckets
  <2>1. JobOK(c)
    BY DEF ScansInv
  <2>2. CASE c = b
    <3>1. b \in Nat /\ s1 \in Nat
      BY <1>1, ScansAssumption DEF Buckets
    <3>2. ~ (b > s1)
      BY <1>2, <3>1
    <3> QED
      BY <1>2, <2>2, <3>2 DEF JobOK
  <2>3. CASE c # b
    BY <1>1, <2>1, <2>3 DEF JobOK, Scans!NoJob
  <2> QED
    BY <2>2, <2>3
<1>4. Scans!OneOutstanding'
  <2> SUFFICES ASSUME NEW c \in Buckets, NEW d \in Buckets,
                      s3'[c].status \in Scans!Outstanding, c < d
               PROVE  s3'[d].status = "NONE"
    BY <1>1 DEF Scans!OneOutstanding, Scans!Outstanding
  <2>1. \A y, z \in Buckets : s3[y].status \in Scans!Outstanding /\ y < z
                              => s3[z].status = "NONE"
    BY <1>1 DEF ScansInv, Scans!OneOutstanding
  <2>2. s3[c].status \in Scans!Outstanding
    <3>1. c = b \/ c # b
      OBVIOUS
    <3> QED
      BY <3>1
  <2>3. s3[d].status = "NONE"
    BY <2>1, <2>2
  <2>4. d # b
    BY <2>3 DEF Scans!Outstanding
  <2> QED
    BY <2>3, <2>4
<1>5. Scans!NewIsDifference'
  <2>1. \A i \in DOMAIN s4 : s3'[s4[i]] = s3[s4[i]]
    BY <1>2
  <2>2. \A i \in DOMAIN s4 : i # 1 => i - 1 \in DOMAIN s4
    BY <1>1, LenProperties
  <2> QED
    BY <2>1, <2>2 DEF ScansInv, Scans!NewIsDifference
<1>6. \A ids : NewOf(ids, s4, s3') = NewOf(ids, s4, s3)
  <2>1. s4 # <<>> => Len(s4) \in DOMAIN s4
    BY <1>1, EmptySeq, LenProperties
  <2>2. s4 # <<>> => s3'[s4[Len(s4)]] = s3[s4[Len(s4)]]
    BY <1>2, <2>1
  <2> QED
    BY <2>2 DEF NewOf
<1> QED
  BY <1>2, <1>3, <1>4, <1>5, <1>6

\* The steps that leave the jobs alone.
LEMMA QuietStep ==
  ASSUME ScansInv,
         \/ Scans!Tick(Worker) \/ Scans!Skip(Worker) \/ Scans!Collect(Worker)
         \/ Scans!Compare(Worker) \/ Scans!Stop(Worker) \/ Scans!Advance \/ Scans!Change
  PROVE  ScansInv'
<1>1. /\ s1 \in Nat /\ s1 \in Buckets /\ s1 >= s1 /\ s2 \subseteq SignalIds
      /\ DOMAIN s3 = Buckets /\ s4 \in Seq(Buckets)
      /\ DOMAIN s5 = {Worker} /\ s5[Worker] \in Locals /\ LocalOK(s5[Worker])
  BY ScansAssumption DEF ScansInv, Buckets
<1>2. CASE Scans!Tick(Worker)
  <2>1. s1' = s1 /\ s2' = s2 /\ s3' = s3 /\ s4' = s4
    BY <1>2 DEF Scans!Tick
  <2>2. CASE Scans!Due
    <3> DEFINE l == [pc |-> "enqueue", bucket |-> s1]
    <3>1. DOMAIN s5' = {Worker} /\ s5'[Worker] = l
      BY <1>2, <2>2, WorkerBecomes DEF Scans!Tick
    <3>2. l \in Locals
      BY <1>1 DEF Locals
    <3>3. \A b \in Buckets : s3[b].status \notin Scans!Outstanding
      BY <1>1, <2>2 DEF Scans!Due
    <3>4. \A b \in Buckets : b > s1 => s3[b].status = "NONE"
      BY DEF ScansInv, JobOK
    <3>5. LocalOK(l)
      BY <1>1, <3>3, <3>4 DEF LocalOK
    <3> HIDE DEF l
    <3>6. LocalOK(s5[Worker])'
      BY <1>1, <2>1, <3>1, <3>2, <3>5, LocalStays
    <3> QED
      BY <1>1, <2>1, <3>1, <3>2, <3>6, JobsStay
  <2>3. CASE ~ Scans!Due
    <3>1. DOMAIN s5' = {Worker} /\ s5'[Worker] = [pc |-> "claim"]
      BY <1>2, <2>3, WorkerBecomes DEF Scans!Tick
    <3>2. s5'[Worker] \in Locals /\ LocalOK(s5[Worker])'
      BY <3>1 DEF Locals, LocalOK
    <3> QED
      BY <1>1, <2>1, <3>1, <3>2, JobsStay
  <2> QED
    BY <2>2, <2>3
<1>3. CASE Scans!Skip(Worker) \/ Scans!Stop(Worker)
  <2>1. s1' = s1 /\ s2' = s2 /\ s3' = s3 /\ s4' = s4
    BY <1>3 DEF Scans!Skip, Scans!Stop
  <2>2. DOMAIN s5' = {Worker} /\ s5'[Worker] \in {[pc |-> "claim"], [pc |-> "tick"]}
    BY <1>3, WorkerBecomes DEF Scans!Skip, Scans!Stop, Scans!Idle
  <2>3. s5'[Worker] \in Locals /\ LocalOK(s5[Worker])'
    BY <2>2 DEF Locals, LocalOK
  <2> QED
    BY <1>1, <2>1, <2>2, <2>3, JobsStay
<1>4. CASE Scans!Collect(Worker)
  <2> DEFINE ids == Scans!FirstOf(s2, MaxSignals)
             l == [pc |-> "compare", bucket |-> s5[Worker].bucket, ids |-> ids]
  <2>1. s1' = s1 /\ s2' = s2 /\ s3' = s3 /\ s4' = s4
    BY <1>4 DEF Scans!Collect
  <2>2. DOMAIN s5' = {Worker} /\ s5'[Worker] = l
    BY <1>4, WorkerBecomes DEF Scans!Collect
  <2>3. ids \in Scans!Lists(MaxSignals)
    BY <1>1, ListsCut
  <2>4. s5[Worker].bucket \in Buckets
    BY <1>1, <1>4, LocalSays DEF Scans!Collect, Scans!At
  <2> HIDE DEF ids
  <2>5. l \in Locals
    BY <2>3, <2>4 DEF Locals
  <2>6. s5'[Worker] \in Locals /\ LocalOK(s5[Worker])'
    BY <2>2, <2>5 DEF LocalOK
  <2> QED
    BY <1>1, <2>1, <2>2, <2>6, JobsStay
<1>5. CASE Scans!Compare(Worker)
  <2> DEFINE b == s5[Worker].bucket
             ids == s5[Worker].ids
             new == NewOf(ids, s4, s3)
             l == [pc |-> "record", bucket |-> b, ids |-> ids, new |-> new]
  <2>1. s1' = s1 /\ s2' = s2 /\ s3' = s3 /\ s4' = s4
    BY <1>5 DEF Scans!Compare
  <2>2. b \in Buckets /\ ids \in Scans!Lists(MaxSignals)
    BY <1>1, <1>5, LocalSays DEF Scans!Compare, Scans!At
  <2>3. (IF Scans!Previous(b) = {} THEN {}
         ELSE Scans!FirstOf(ids \ UNION Scans!Previous(b), MaxNew)) = new
    <3>1. CASE s4 = <<>>
      BY <3>1 DEF Scans!Previous, NewOf
    <3>2. CASE s4 # <<>>
      <4>1. Scans!Previous(b) = {s3[s4[Len(s4)]].ids}
        BY <3>2 DEF Scans!Previous, Scans!Last
      <4>2. UNION Scans!Previous(b) = s3[s4[Len(s4)]].ids /\ Scans!Previous(b) # {}
        BY <4>1
      <4> QED
        BY <3>2, <4>2 DEF NewOf
    <3> QED
      BY <3>1, <3>2
  <2>4. DOMAIN s5' = {Worker} /\ s5'[Worker] = l
    BY <1>5, <2>3, WorkerBecomes DEF Scans!Compare
  <2>5. new \subseteq ids /\ new \in Scans!Lists(MaxNew)
    BY <2>2, ListsCut DEF NewOf
  <2> HIDE DEF b, ids, new
  <2>6. l \in Locals
    BY <2>2, <2>5 DEF Locals
  <2>7. new = NewOf(ids, s4, s3)
    BY DEF new
  <2>8. LocalOK(l)
    BY <2>5, <2>7 DEF LocalOK
  <2> HIDE DEF l
  <2>9. LocalOK(s5[Worker])'
    BY <1>1, <2>1, <2>4, <2>6, <2>8, LocalStays
  <2> QED
    BY <1>1, <2>1, <2>4, <2>6, <2>9, JobsStay
<1>6. CASE Scans!Advance \/ Scans!Change
  <2>1. s1' \in Buckets /\ s1' >= s1 /\ s1' \in Nat /\ s2' \subseteq SignalIds
    BY <1>1, <1>6, ScansAssumption DEF Scans!Advance, Scans!Change, Buckets
  <2>2. s3' = s3 /\ s4' = s4 /\ s5' = s5
    BY <1>6 DEF Scans!Advance, Scans!Change
  <2>3. LocalOK(s5[Worker])'
    BY <1>1, <2>1, <2>2, LocalStays
  <2> QED
    BY <1>1, <2>1, <2>2, <2>3, JobsStay
<1> QED
  BY <1>2, <1>3, <1>4, <1>5, <1>6

\* A worker that starts a step that needs no knowledge of the jobs, or has none.
LEMMA WorkerForgets ==
  ASSUME DOMAIN s5' = {Worker}, s5'[Worker] \in Locals, s5'[Worker].pc \in {"claim", "collect", "tick"}
  PROVE  LocalOK(s5[Worker])'
BY DEF LocalOK

\* The worker enqueues the job of the bucket it looked at.
LEMMA EnqueueStep == ScansInv /\ Scans!Enqueue(Worker) => ScansInv'
<1> SUFFICES ASSUME ScansInv, Scans!Enqueue(Worker) PROVE ScansInv'
  OBVIOUS
<1> DEFINE b == s5[Worker].bucket
<1>1. /\ s1 \in Nat /\ s1 \in Buckets /\ s2 \subseteq SignalIds
      /\ s3 \in [Buckets -> Job] /\ s4 \in Seq(Buckets)
      /\ s5[Worker] \in Locals /\ LocalOK(s5[Worker])
  BY ScansAssumption DEF ScansInv, Buckets
<1>2. s5[Worker].pc = "enqueue" /\ b \in Buckets
  BY <1>1, LocalSays DEF Scans!Enqueue, Scans!At
<1>3. s1' = s1 /\ s2' = s2 /\ s4' = s4
  BY DEF Scans!Enqueue
<1>4. DOMAIN s5' = {Worker} /\ s5'[Worker] = [pc |-> "claim"]
  BY WorkerBecomes DEF Scans!Enqueue
<1>5. s5'[Worker] \in Locals /\ LocalOK(s5[Worker])'
  BY <1>4, WorkerForgets DEF Locals
<1>6. CASE s3[b].status # "NONE"
  <2>1. s3' = s3
    BY <1>6 DEF Scans!Enqueue
  <2> QED
    BY <1>1, <1>3, <1>4, <1>5, <2>1, JobsStay
<1>7. CASE s3[b].status = "NONE"
  <2> DEFINE x == [Scans!NoJob EXCEPT !.status = "PENDING"]
  <2>1. x = [status |-> "PENDING", owner |-> {}, attempts |-> 0, ids |-> {}, new |-> {}]
    BY DEF Scans!NoJob
  <2>2. x \in Job
    <3>1. {} \in Scans!Lists(MaxSignals) /\ {} \in Scans!Lists(MaxNew)
      BY ListsCut
    <3> HIDE DEF x
    <3> QED
      BY <2>1, <3>1 DEF Job, Statuses
  <2>3. s3[b] = Scans!NoJob
    BY <1>2, <1>7 DEF ScansInv, JobOK
  <2>4. s3' = [s3 EXCEPT ![b] = x]
    BY <1>7, <2>3 DEF Scans!Enqueue
  <2> HIDE DEF b, x
  <2>5. s3' \in [Buckets -> Job] /\ s3'[b] = x /\ \A c \in Buckets : c # b => s3'[c] = s3[c]
    BY <1>1, <1>2, <2>2, <2>4
  <2>6. /\ \A c \in Buckets : s3[c].status \notin Scans!Outstanding
        /\ \A c \in Buckets : c > b => s3[c].status = "NONE"
        /\ b <= s1
    BY <1>1, <1>2 DEF LocalOK, b
  <2>7. \A c \in Buckets : JobOK(c)'
    <3> TAKE c \in Buckets
    <3>1. JobOK(c)
      BY DEF ScansInv
    <3>2. CASE c = b
      <4>1. \A i \in DOMAIN s4 : s4[i] # b
        BY <1>7, <3>1, <3>2 DEF JobOK, b
      <4>2. ~ (b > s1)
        BY <1>1, <1>2, <2>6, ScansAssumption DEF Buckets
      <4> QED
        BY <1>3, <2>1, <2>5, <3>2, <4>1, <4>2, ScansAssumption DEF JobOK
    <3>3. CASE c # b
      BY <1>3, <2>5, <3>1, <3>3 DEF JobOK, Scans!NoJob
    <3> QED
      BY <3>2, <3>3
  <2>8. Scans!OneOutstanding'
    <3> SUFFICES ASSUME NEW c \in Buckets, NEW d \in Buckets,
                        s3'[c].status \in Scans!Outstanding, c < d
                 PROVE  s3'[d].status = "NONE"
      BY <2>5 DEF Scans!OneOutstanding, Scans!Outstanding
    <3>1. c = b
      BY <2>5, <2>6
    <3>2. d > b /\ d # b
      BY <3>1, ScansAssumption DEF Buckets
    <3> QED
      BY <2>5, <2>6, <3>2
  <2>9. Scans!NewIsDifference'
    <3>1. \A i \in DOMAIN s4 : s3'[s4[i]] = s3[s4[i]]
      <4> TAKE i \in DOMAIN s4
      <4>1. s4[i] \in Buckets
        BY <1>1, ElementOfSeq
      <4>2. s4[i] # b
        BY <1>2, <1>7 DEF ScansInv, JobOK, b
      <4> QED
        BY <2>5, <4>1, <4>2
    <3>2. \A i \in DOMAIN s4 : i # 1 => i - 1 \in DOMAIN s4
      BY <1>1, LenProperties
    <3> QED
      BY <1>3, <3>1, <3>2 DEF ScansInv, Scans!NewIsDifference
  <2> QED
    BY <1>1, <1>3, <1>4, <1>5, <2>5, <2>7, <2>8, <2>9
       DEF ScansInv, Buckets, Job, Statuses, Scans!Lists, Locals
<1> QED
  BY <1>6, <1>7

\* The worker claims a job, if one is due.
LEMMA ClaimStep == ScansInv /\ Scans!Claim(Worker) => ScansInv'
<1> SUFFICES ASSUME ScansInv, Scans!Claim(Worker) PROVE ScansInv'
  OBVIOUS
<1>1. /\ s1 \in Nat /\ s1 \in Buckets /\ s1 >= s1 /\ s2 \subseteq SignalIds
      /\ s3 \in [Buckets -> Job] /\ s4 \in Seq(Buckets)
  BY ScansAssumption DEF ScansInv, Buckets
<1>2. s1' = s1 /\ s2' = s2 /\ s4' = s4
  BY Zenon DEF Scans!Claim
<1>3. CASE Scans!Become(Worker, Scans!Idle) /\ UNCHANGED s3
  <2>1. DOMAIN s5' = {Worker} /\ s5'[Worker] = [pc |-> "tick"] /\ s3' = s3
    BY <1>3, WorkerBecomes DEF Scans!Idle
  <2>2. s5'[Worker] \in Locals /\ LocalOK(s5[Worker])'
    BY <2>1, WorkerForgets DEF Locals
  <2> QED
    BY <1>1, <1>2, <2>1, <2>2, JobsStay
<1>4. CASE \E b \in DOMAIN s3 :
             /\ s3[b].status \in {"PENDING", "RETRY_WAITING"}
             /\ s3' = [s3 EXCEPT ![b].status = "RUNNING", ![b].owner = {Worker},
                                 ![b].attempts = @ + 1]
             /\ Scans!Become(Worker, [pc |-> "collect", bucket |-> b])
  <2>1. PICK b \in Buckets :
             /\ s3[b].status \in {"PENDING", "RETRY_WAITING"}
             /\ s3' = [s3 EXCEPT ![b].status = "RUNNING", ![b].owner = {Worker},
                                 ![b].attempts = @ + 1]
             /\ Scans!Become(Worker, [pc |-> "collect", bucket |-> b])
    BY Zenon, <1>1, <1>4
  <2> DEFINE n == s3[b].attempts + 1
             x == [s3[b] EXCEPT !.status = "RUNNING", !.owner = {Worker}, !.attempts = n]
  <2>2. s3[b] \in Job
    BY <1>1
  <2>3. n \in Nat /\ n <= MaxAttempts
    BY <2>1, <2>2, ScansAssumption DEF ScansInv, JobOK, Job
  <2>4. s3' = [s3 EXCEPT ![b] = x]
    BY <1>1, <2>1, <2>2 DEF Job
  <2> HIDE DEF n
  <2>5. /\ x \in Job /\ x.status = "RUNNING" /\ x.attempts = n
        /\ x.new = s3[b].new /\ x.ids = s3[b].ids
    BY <2>2, <2>3 DEF Job, Statuses
  <2> HIDE DEF x
  <2>6. s3' \in [Buckets -> Job] /\ s3'[b] = x /\ \A c \in Buckets : c # b => s3'[c] = s3[c]
    BY <2>4, <2>5, JobBecomes
  <2>7. s3[b].status \in Scans!Outstanding
    BY <2>1 DEF Scans!Outstanding
  <2>8. x.new \subseteq x.ids
    BY <2>5 DEF ScansInv, JobOK
  <2>9. DOMAIN s5' = {Worker} /\ s5'[Worker] = [pc |-> "collect", bucket |-> b]
    BY <2>1, WorkerBecomes
  <2>10. s5'[Worker] \in Locals /\ LocalOK(s5[Worker])'
    BY <2>9, WorkerForgets DEF Locals
  <2>11. /\ \A c \in Buckets : JobOK(c)'
         /\ Scans!OneOutstanding' /\ Scans!NewIsDifference'
    BY <1>2, <2>3, <2>5, <2>6, <2>7, <2>8, JobMoves
  <2> QED
    BY <1>1, <1>2, <2>6, <2>9, <2>10, <2>11
       DEF ScansInv, Buckets, Job, Statuses, Scans!Lists, Locals
<1> QED
  BY Zenon, <1>3, <1>4 DEF Scans!Claim

\* The worker records what it saw, when it still owns the job.
LEMMA RecordStep == ScansInv /\ Scans!Record(Worker) => ScansInv'
<1> SUFFICES ASSUME ScansInv, Scans!Record(Worker) PROVE ScansInv'
  OBVIOUS
<1> DEFINE b == s5[Worker].bucket
           x == [s3[b] EXCEPT !.ids = s5[Worker].ids, !.new = s5[Worker].new]
<1>1. /\ s1 \in Nat /\ s1 \in Buckets /\ s1 >= s1 /\ s2 \subseteq SignalIds
      /\ s3 \in [Buckets -> Job] /\ s4 \in Seq(Buckets)
      /\ s5[Worker] \in Locals /\ LocalOK(s5[Worker])
  BY ScansAssumption DEF ScansInv, Buckets
<1>2. s1' = s1 /\ s2' = s2 /\ s4' = s4
  BY DEF Scans!Record
<1>3. s5[Worker].pc = "record" /\ s3[b].status = "RUNNING"
  BY DEF Scans!Record, Scans!At, Scans!Owned
<1>4. /\ b \in Buckets
      /\ s5[Worker].ids \in Scans!Lists(MaxSignals) /\ s5[Worker].new \in Scans!Lists(MaxNew)
  BY <1>1, <1>3, LocalSays
<1>5. /\ s5[Worker].new = NewOf(s5[Worker].ids, s4, s3)
      /\ s5[Worker].new \subseteq s5[Worker].ids
  BY <1>1, <1>3 DEF LocalOK
<1>6. DOMAIN s5' = {Worker} /\ s5'[Worker] = [pc |-> "succeed", bucket |-> b]
  BY WorkerBecomes DEF Scans!Record
<1>7. s3[b] \in Job
  BY <1>1, <1>4
<1>8. s3' = [s3 EXCEPT ![b] = x]
  BY <1>1, <1>4, <1>7 DEF Scans!Record, Job
<1> HIDE DEF b
<1>9. /\ x \in Job /\ x.status = "RUNNING" /\ x.attempts = s3[b].attempts
      /\ x.ids = s5[Worker].ids /\ x.new = s5[Worker].new
  BY <1>3, <1>4, <1>7 DEF Job, Statuses
<1> HIDE DEF x
<1>10. s3' \in [Buckets -> Job] /\ s3'[b] = x /\ \A c \in Buckets : c # b => s3'[c] = s3[c]
  BY <1>4, <1>8, <1>9, JobBecomes
<1>11. x.attempts <= MaxAttempts /\ s3[b].status \in Scans!Outstanding
  BY <1>3, <1>4, <1>9 DEF ScansInv, JobOK, Scans!Outstanding
<1>12. x.new \subseteq x.ids
  BY <1>5, <1>9
<1>13. /\ \A c \in Buckets : JobOK(c)'
       /\ Scans!OneOutstanding' /\ Scans!NewIsDifference'
       /\ \A ids : NewOf(ids, s4, s3') = NewOf(ids, s4, s3)
  BY <1>2, <1>4, <1>9, <1>10, <1>11, <1>12, JobMoves
<1>14. s5'[Worker] \in Locals /\ LocalOK(s5[Worker])'
  <2>1. s5'[Worker] \in Locals
    BY <1>4, <1>6 DEF Locals
  <2>2. x.new = NewOf(x.ids, s4, s3)
    BY <1>5, <1>9
  <2>3. NewOf(x.ids, s4, s3') = NewOf(x.ids, s4, s3)
    BY <1>13
  <2>4. s3'[b].new = NewOf(s3'[b].ids, s4, s3')
    BY <1>2, <1>10, <2>2, <1>13
  <2> QED
    BY <1>2, <1>6, <2>1, <2>4 DEF LocalOK
<1> QED
  BY <1>1, <1>2, <1>6, <1>10, <1>13, <1>14
     DEF ScansInv, Buckets, Job, Statuses, Scans!Lists, Locals

\* A job is released or cancelled.
LEMMA ReleaseStep ==
  ASSUME ScansInv, NEW b \in Buckets, Scans!Release(b) \/ Scans!Cancel(b)
  PROVE  ScansInv'
<1>1. /\ s1 \in Nat /\ s1 \in Buckets /\ s1 >= s1 /\ s2 \subseteq SignalIds
      /\ s3 \in [Buckets -> Job] /\ s4 \in Seq(Buckets)
      /\ DOMAIN s5 = {Worker} /\ s5[Worker] \in Locals /\ LocalOK(s5[Worker])
  BY ScansAssumption DEF ScansInv, Buckets
<1>2. s1' = s1 /\ s2' = s2 /\ s4' = s4 /\ s5' = s5
  BY DEF Scans!Release, Scans!Cancel
<1>3. /\ s3[b] \in Job /\ s3[b].attempts <= MaxAttempts /\ s3[b].new \subseteq s3[b].ids
      /\ s3[b].attempts \in Nat
  BY <1>1 DEF ScansInv, JobOK, Job
<1>4. s3[b].status \in Scans!Outstanding
  BY DEF Scans!Release, Scans!Cancel, Scans!Outstanding
<1>5. PICK status \in {"RETRY_WAITING", "FAILED", "CANCELLED"} :
           /\ s3' = [s3 EXCEPT ![b].status = status]
           /\ status = "RETRY_WAITING" => s3[b].attempts < MaxAttempts
  BY DEF Scans!Release, Scans!Cancel
<1> DEFINE x == [s3[b] EXCEPT !.status = status]
<1>6. s3' = [s3 EXCEPT ![b] = x]
  BY <1>1, <1>5
<1>7. /\ x \in Job /\ x.status = status /\ x.attempts = s3[b].attempts
      /\ x.ids = s3[b].ids /\ x.new = s3[b].new
  BY <1>3 DEF Job, Statuses
<1> HIDE DEF x
<1>8. s3' \in [Buckets -> Job] /\ s3'[b] = x /\ \A c \in Buckets : c # b => s3'[c] = s3[c]
  BY <1>6, <1>7, JobBecomes
<1>9. /\ x.status \notin {"NONE", "SUCCEEDED", "PENDING"} /\ x.attempts <= MaxAttempts
      /\ x.status = "RETRY_WAITING" => x.attempts < MaxAttempts
  BY <1>3, <1>5, <1>7
<1>10. x.new \subseteq x.ids
  BY <1>3, <1>7
<1>11. /\ \A c \in Buckets : JobOK(c)'
       /\ Scans!OneOutstanding' /\ Scans!NewIsDifference'
       /\ \A ids : NewOf(ids, s4, s3') = NewOf(ids, s4, s3)
  BY <1>2, <1>4, <1>7, <1>8, <1>9, <1>10, JobMoves
<1>12. \A c \in Buckets : s3'[c].ids = s3[c].ids /\ s3'[c].new = s3[c].new
  BY <1>7, <1>8
<1>13. LocalOK(s5[Worker])'
  <2>1. s5[Worker].pc # "enqueue"
    BY <1>1, <1>4 DEF LocalOK
  <2>2. s5[Worker].pc = "record" =>
          s5[Worker].new = NewOf(s5[Worker].ids, s4, s3') /\ s5[Worker].new \subseteq s5[Worker].ids
    BY <1>1, <1>11 DEF LocalOK
  <2>3. s5[Worker].pc = "succeed" =>
          LET c == s5[Worker].bucket IN s3'[c].new = NewOf(s3'[c].ids, s4, s3')
    <3> SUFFICES ASSUME s5[Worker].pc = "succeed"
                 PROVE  LET c == s5[Worker].bucket IN s3'[c].new = NewOf(s3'[c].ids, s4, s3')
      OBVIOUS
    <3> DEFINE c == s5[Worker].bucket
    <3>1. c \in Buckets
      BY <1>1, LocalSays
    <3>2. s3[c].new = NewOf(s3[c].ids, s4, s3)
      BY <1>1 DEF LocalOK
    <3>3. s3'[c].new = s3[c].new /\ s3'[c].ids = s3[c].ids
      BY <1>12, <3>1
    <3>4. NewOf(s3'[c].ids, s4, s3') = NewOf(s3'[c].ids, s4, s3)
      BY <1>11
    <3> QED
      BY <3>2, <3>3, <3>4
  <2> QED
    BY <1>2, <2>1, <2>2, <2>3 DEF LocalOK
<1> QED
  BY <1>1, <1>2, <1>8, <1>11, <1>13
     DEF ScansInv, Buckets, Job, Statuses, Scans!Lists, Locals

\* A scan that succeeds is the last one; it differs from the one before as it says.
LEMMA SucceedStep == ScansInv /\ Scans!Succeed(Worker) => ScansInv'
<1> SUFFICES ASSUME ScansInv, Scans!Succeed(Worker) PROVE ScansInv'
  OBVIOUS
<1> DEFINE b == s5[Worker].bucket
           x == [s3[b] EXCEPT !.status = "SUCCEEDED"]
<1>1. /\ s1 \in Nat /\ s1 \in Buckets /\ s2 \subseteq SignalIds
      /\ s3 \in [Buckets -> Job] /\ s4 \in Seq(Buckets)
      /\ s5[Worker] \in Locals /\ LocalOK(s5[Worker])
  BY ScansAssumption DEF ScansInv, Buckets
<1>2. s1' = s1 /\ s2' = s2 /\ s4' = Append(s4, b)
  BY DEF Scans!Succeed
<1>3. s5[Worker].pc = "succeed" /\ s3[b].status = "RUNNING"
  BY DEF Scans!Succeed, Scans!At, Scans!Owned
<1>4. b \in Buckets
  BY <1>1, <1>3, LocalSays
<1>5. s3[b].new = NewOf(s3[b].ids, s4, s3)
  BY <1>1, <1>3 DEF LocalOK
<1>6. DOMAIN s5' = {Worker} /\ s5'[Worker] = [pc |-> "tick"]
  BY WorkerBecomes DEF Scans!Succeed, Scans!Idle
<1>7. s5'[Worker] \in Locals /\ LocalOK(s5[Worker])'
  BY <1>6, WorkerForgets DEF Locals
<1>8. s3[b] \in Job
  BY <1>1, <1>4
<1>9. s3' = [s3 EXCEPT ![b] = x]
  BY <1>1, <1>4 DEF Scans!Succeed
<1> HIDE DEF b
<1>10. /\ x \in Job /\ x.status = "SUCCEEDED" /\ x.attempts = s3[b].attempts
       /\ x.ids = s3[b].ids /\ x.new = s3[b].new
  BY <1>8 DEF Job, Statuses
<1> HIDE DEF x
<1>11. s3' \in [Buckets -> Job] /\ s3'[b] = x /\ \A c \in Buckets : c # b => s3'[c] = s3[c]
  BY <1>4, <1>9, <1>10, JobBecomes
<1>12. /\ s4' \in Seq(Buckets) /\ DOMAIN s4' = 1 .. Len(s4) + 1 /\ DOMAIN s4 = 1 .. Len(s4)
       /\ Len(s4) \in Nat /\ s4'[Len(s4) + 1] = b
       /\ \A i \in DOMAIN s4 : s4'[i] = s4[i]
  BY <1>1, <1>2, <1>4, AppendProperties, LenProperties
<1>13. \A i \in DOMAIN s4 : s4[i] \in Buckets /\ s4[i] # b
  BY <1>1, <1>3, <1>4, <1>12, ElementOfSeq DEF ScansInv, JobOK
<1>14. \A c \in Buckets : JobOK(c)'
  <2> TAKE c \in Buckets
  <2>1. JobOK(c)
    BY DEF ScansInv
  <2>2. CASE c = b
    <3>1. ~ (b > s1)
      BY <1>3, <2>1, <2>2 DEF JobOK
    <3>2. \E i \in DOMAIN s4' : s4'[i] = b
      BY <1>12
    <3>3. x.attempts <= MaxAttempts /\ x.new \subseteq x.ids
      BY <1>10, <2>1, <2>2 DEF JobOK
    <3> QED
      BY <1>2, <1>10, <1>11, <2>2, <3>1, <3>2, <3>3 DEF JobOK
  <2>3. CASE c # b
    <3>1. (\E i \in DOMAIN s4' : s4'[i] = c) <=> (\E i \in DOMAIN s4 : s4[i] = c)
      BY <1>12, <2>3
    <3> QED
      BY <1>2, <1>11, <2>1, <2>3, <3>1 DEF JobOK, Scans!NoJob
  <2> QED
    BY <2>2, <2>3
<1>15. Scans!OneOutstanding'
  <2> SUFFICES ASSUME NEW c \in Buckets, NEW d \in Buckets,
                      s3'[c].status \in Scans!Outstanding, c < d
               PROVE  s3'[d].status = "NONE"
    BY <1>11 DEF Scans!OneOutstanding, Scans!Outstanding
  <2>1. \A y, z \in Buckets : s3[y].status \in Scans!Outstanding /\ y < z
                              => s3[z].status = "NONE"
    BY <1>1 DEF ScansInv, Scans!OneOutstanding
  <2>2. c # b
    BY <1>10, <1>11 DEF Scans!Outstanding
  <2>3. s3[d].status = "NONE"
    BY <1>11, <2>1, <2>2
  <2> QED
    BY <1>3, <1>11, <2>3
<1>16. Scans!NewIsDifference'
  <2> SUFFICES ASSUME NEW i \in DOMAIN s4'
               PROVE  s3'[s4'[i]].new =
                        IF i = 1 THEN {}
                        ELSE Scans!FirstOf(s3'[s4'[i]].ids \ s3'[s4'[i - 1]].ids, MaxNew)
    BY Zenon DEF Scans!NewIsDifference
  <2>1. CASE i \in DOMAIN s4
    <3>1. s4'[i] = s4[i] /\ s3'[s4[i]] = s3[s4[i]]
      BY <1>11, <1>12, <1>13, <2>1
    <3>2. i # 1 => i - 1 \in DOMAIN s4
      BY <1>12, <2>1
    <3>3. i # 1 => s4'[i - 1] = s4[i - 1] /\ s3'[s4[i - 1]] = s3[s4[i - 1]]
      BY <1>11, <1>12, <1>13, <3>2
    <3>4. s3[s4[i]].new = IF i = 1 THEN {}
                          ELSE Scans!FirstOf(s3[s4[i]].ids \ s3[s4[i - 1]].ids, MaxNew)
      BY <2>1 DEF ScansInv, Scans!NewIsDifference
    <3> QED
      BY <3>1, <3>3, <3>4
  <2>2. CASE i \notin DOMAIN s4
    <3>1. i = Len(s4) + 1 /\ s4'[i] = b /\ i - 1 = Len(s4)
      BY <1>12, <2>2
    <3>2. s3'[b].new = NewOf(s3[b].ids, s4, s3) /\ s3'[b].ids = s3[b].ids
      BY <1>5, <1>10, <1>11
    <3>3. CASE i = 1
      <4>1. s4 = <<>>
        BY <1>1, <3>1, <3>3, EmptySeq
      <4> QED
        BY <3>1, <3>2, <3>3, <4>1 DEF NewOf
    <3>4. CASE i # 1
      <4>1. s4 # <<>> /\ Len(s4) \in DOMAIN s4
        BY <1>12, <3>1, <3>4
      <4>2. s4'[i - 1] = s4[Len(s4)] /\ s3'[s4[Len(s4)]] = s3[s4[Len(s4)]]
        BY <1>11, <1>12, <1>13, <3>1, <4>1
      <4> QED
        BY <3>1, <3>2, <3>4, <4>1, <4>2 DEF NewOf
    <3> QED
      BY <3>3, <3>4
  <2> QED
    BY <2>1, <2>2
<1> QED
  BY <1>1, <1>2, <1>6, <1>7, <1>11, <1>12, <1>14, <1>15, <1>16
     DEF ScansInv, Buckets, Job, Statuses, Scans!Lists, Locals

\* Every step of the scans.
LEMMA ScansStep == ScansInv /\ [Scans!Next]_(<<s1, s2, s3, s4, s5>>) => ScansInv'
<1> SUFFICES ASSUME ScansInv, [Scans!Next]_(<<s1, s2, s3, s4, s5>>) PROVE ScansInv'
  OBVIOUS
<1>1. CASE \E w \in {Worker} :
             \/ Scans!Tick(w) \/ Scans!Skip(w) \/ Scans!Enqueue(w) \/ Scans!Claim(w)
             \/ Scans!Collect(w) \/ Scans!Compare(w) \/ Scans!Record(w)
             \/ Scans!Succeed(w) \/ Scans!Stop(w)
  BY <1>1, QuietStep, EnqueueStep, ClaimStep, RecordStep, SucceedStep
<1>2. CASE \E b \in DOMAIN s3 : Scans!Release(b) \/ Scans!Cancel(b)
  <2>1. DOMAIN s3 = Buckets
    BY DEF ScansInv
  <2> QED
    BY <1>2, <2>1, ReleaseStep
<1>3. CASE Scans!Advance \/ Scans!Change
  BY <1>3, QuietStep
<1>4. CASE UNCHANGED <<s1, s2, s3, s4, s5>>
  <2>1. s1 \in Nat /\ s1 \in Buckets /\ s1 >= s1
    BY ScansAssumption DEF ScansInv, Buckets
  <2>2. LocalOK(s5[Worker])'
    BY <1>4, <2>1, LocalStays DEF ScansInv
  <2> QED
    BY <1>4, <2>1, <2>2, JobsStay DEF ScansInv
<1> QED
  BY <1>1, <1>2, <1>3, <1>4 DEF Scans!Next

\* What the invariant says of the states.
LEMMA ScansClaim == ScansInv => Scans!TypeOK /\ Scans!OneOutstanding /\ Scans!NewIsDifference
<1> SUFFICES ASSUME ScansInv PROVE Scans!TypeOK
  BY DEF ScansInv
<1>1. DOMAIN s3 = Buckets /\ s2 \subseteq SignalIds
  BY DEF ScansInv
<1> SUFFICES ASSUME NEW b \in Buckets
             PROVE  /\ s3[b].attempts \in 0 .. MaxAttempts
                    /\ s3[b].ids \in Scans!Lists(MaxSignals) /\ s3[b].new \in Scans!Lists(MaxNew)
                    /\ s3[b].new \subseteq s3[b].ids
                    /\ s3[b].status = "NONE" => s3[b] = Scans!NoJob
                    /\ s3[b].status = "SUCCEEDED" <=> b \in Scans!Range(s4)
  BY <1>1 DEF Scans!TypeOK
<1>2. s3[b] \in Job /\ JobOK(b)
  BY DEF ScansInv
<1>3. b \in Scans!Range(s4) <=> \E i \in DOMAIN s4 : s4[i] = b
  BY DEF Scans!Range
<1>4. s3[b].attempts \in 0 .. MaxAttempts
  BY <1>2, ScansAssumption DEF Job, JobOK
<1> QED
  BY <1>2, <1>3, <1>4 DEF Job, JobOK

-----------------------------------------------------------------------------
(* The logins.  Their variables are s1, whether the user is active, s2,    *)
(* the failures on record, s3, the sessions, s4, the logins under way, s5, *)
(* a disable between its writes, and s6, the guesses, by age.              *)

Ages   == 0 .. LoginWindow
Most   == Limit + Cardinality(LoginClients)
Counts == [Ages -> 0 .. Most]

\* The entries of f that are at most as old as a, and how many they are.
Upto(f, a) == {p \in (0 .. a) \X (1 .. Most) : p[2] <= f[p[1]]}
Sum(f, a)  == Cardinality(Upto(f, a))

\* The logins at a step.
AtStep(logins, pc) == {c \in LoginClients : logins[c].pc = pc}

\* Each guess in the window, up to any age, has a failure on record that is not
\* older, or a login that is about to record it, unless the limit is reached; and who
\* verifies was let in when there was room.
Paid ==
    \A a \in Ages : Sum(s2, a) < Limit => Sum(s6, a) <= Sum(s2, a) + Cardinality(AtStep(s4, "refused"))
Room ==
    Sum(s6, LoginWindow) + Cardinality(AtStep(s4, "verify")) <= Limit + Cardinality(LoginClients) - 1

\* What a disable was complete for is revoked.
OldIsOver == \A s \in Tokens : s3[s].old => s3[s].state # "live"

\* The sessions and the logins that are late.
LateSessions(sessions) == {s \in Tokens : sessions[s].state = "live" /\ sessions[s].late}
LateLogins(logins) == {c \in LoginClients : logins[c].late}

\* What is late had its password verified, and each session had a login of its own.
LateOK ==
    /\ \A c \in LoginClients : s4[c].late => s4[c].pc = "granted"
    /\ Cardinality(LateSessions(s3)) + Cardinality(LateLogins(s4)) <= Cardinality(LoginClients)

\* The inductive invariant.
LoginsInv == Logins!TypeOK /\ OldIsOver /\ Paid /\ Room /\ LateOK

\* The numbers of a module are those of the others.
LEMMA SameCounts ==
  /\ \A S : Logins!Cardinality(S) = Cardinality(S)
  /\ Logins!Most = Most /\ Logins!Ages = Ages
  /\ \A f \in Counts : Logins!Total(f) = Sum(f, LoginWindow)
<1>1. \A S : Logins!Cardinality(S) = Cardinality(S)
  BY DEF Logins!Cardinality, Cardinality
<1>2. Logins!Most = Most /\ Logins!Ages = Ages
  BY <1>1 DEF Logins!Most, Most, Logins!Ages, Ages
<1>3. \A f \in Counts : Logins!Total(f) = Sum(f, LoginWindow)
  BY <1>1, <1>2 DEF Logins!Total, Sum, Upto, Counts, Ages
<1> QED
  BY <1>1, <1>2, <1>3

\* Bounds.
LEMMA Bounds ==
  /\ LoginWindow \in Nat /\ Limit \in Nat /\ Limit >= 1 /\ TTL \in Nat
  /\ Cardinality(LoginClients) \in Nat /\ Most \in Nat /\ Limit <= Most
  /\ \A a \in Ages : a \in Nat /\ a <= LoginWindow
  /\ 0 \in Ages /\ LoginWindow \in Ages
BY LoginsAssumption, FS_CardinalityType DEF Most, Ages

\* There are finitely many entries.
LEMMA SumType ==
  ASSUME NEW f, NEW a \in Ages
  PROVE  IsFiniteSet(Upto(f, a)) /\ Sum(f, a) \in Nat
<1>1. IsFiniteSet(0 .. a) /\ IsFiniteSet(1 .. Most)
  BY Bounds, FS_Interval
<1>2. IsFiniteSet((0 .. a) \X (1 .. Most))
  BY <1>1, FS_Product
<1>3. IsFiniteSet(Upto(f, a))
  BY <1>2, FS_Subset DEF Upto
<1> QED
  BY <1>3, FS_CardinalityType DEF Sum

\* The older ones are among all.
LEMMA SumGrows ==
  ASSUME NEW f, NEW a \in Ages, NEW b \in Ages, a <= b
  PROVE  Sum(f, a) <= Sum(f, b)
<1>1. Upto(f, a) \in SUBSET Upto(f, b)
  BY Bounds DEF Upto
<1> QED
  BY <1>1, SumType, FS_Subset DEF Sum

\* None, when f is 0.
LEMMA SumZero ==
  ASSUME NEW f, NEW a \in Ages, \A b \in Ages : f[b] = 0
  PROVE  Sum(f, a) = 0
<1>1. Upto(f, a) = {}
  BY Bounds DEF Upto, Ages
<1> QED
  BY <1>1, FS_EmptySet DEF Sum

\* One more of age 0.
LEMMA SumAdds ==
  ASSUME NEW f \in Counts, f[0] + 1 <= Most, NEW g, g = [f EXCEPT ![0] = f[0] + 1], NEW a \in Ages
  PROVE  g \in Counts /\ Sum(g, a) = Sum(f, a) + 1
<1> DEFINE n == f[0] + 1
<1>1. f[0] \in Nat /\ n \in Nat /\ n \in 0 .. Most /\ n \in 1 .. Most /\ f[0] = n - 1
  BY Bounds DEF Counts
<1> HIDE DEF n
<1>2. g = [f EXCEPT ![0] = n]
  BY DEF n
<1>3. g \in Counts /\ g[0] = n /\ \A b \in Ages : b # 0 => g[b] = f[b]
  BY <1>1, <1>2, Bounds DEF Counts
<1>4. \A p \in (0 .. a) \X (1 .. Most) : p[1] \in Ages /\ p[2] \in Nat /\ f[p[1]] \in Nat
  BY Bounds DEF Counts, Ages
<1>5. \A p \in (0 .. a) \X (1 .. Most) :
         p[2] <= g[p[1]] <=> (p[2] <= f[p[1]] \/ (p[1] = 0 /\ p[2] = n))
  BY <1>1, <1>3, <1>4
<1>6. <<0, n>> \in (0 .. a) \X (1 .. Most)
  BY <1>1, Bounds DEF Ages
<1>7. Upto(g, a) = Upto(f, a) \cup {<<0, n>>}
  BY <1>5, <1>6 DEF Upto
<1>8. <<0, n>> \notin Upto(f, a)
  BY <1>1 DEF Upto
<1> QED
  BY <1>3, <1>7, <1>8, SumType, FS_AddElement DEF Sum

\* As many as there are of age 0.
LEMMA SumAtLeast ==
  ASSUME NEW f \in Counts, NEW a \in Ages
  PROVE  Sum(f, a) >= f[0]
<1> DEFINE n == f[0]
           h == [i \in 1 .. n |-> <<0, i>>]
<1>1. n \in Nat /\ n <= Most
  BY Bounds DEF Counts
<1>2. \A i \in 1 .. n : <<0, i>> \in Upto(f, a)
  BY <1>1, Bounds DEF Upto, Ages
<1>3. h \in Injection(1 .. n, Upto(f, a))
  BY <1>2 DEF Injection, IsInjective
<1>4. Cardinality(1 .. n) <= Sum(f, a)
  BY <1>3, SumType, FS_Injection DEF Sum
<1>5. Cardinality(1 .. n) = n
  BY <1>1, FS_Interval
<1> QED
  BY <1>1, <1>4, <1>5, SumType

\* A tick later they are one older, and none is new.
LEMMA SumAges ==
  ASSUME NEW f \in Counts, NEW g, g = [a \in Ages |-> IF a = 0 THEN 0 ELSE f[a - 1]]
  PROVE  /\ g \in Counts
         /\ Sum(g, 0) = 0
         /\ \A a \in Ages : a # 0 => a - 1 \in Ages /\ Sum(g, a) = Sum(f, a - 1)
<1>1. \A a \in Ages : a # 0 => a - 1 \in Ages
  BY Bounds DEF Ages
<1>2. g \in Counts
  BY <1>1, Bounds DEF Counts
<1>3. Sum(g, 0) = 0
  <2>1. Upto(g, 0) = {}
    BY Bounds DEF Upto, Ages
  <2> QED
    BY <2>1, FS_EmptySet DEF Sum
<1>4. ASSUME NEW a \in Ages, a # 0 PROVE Sum(g, a) = Sum(f, a - 1)
  <2> DEFINE S == Upto(f, a - 1)
             T == Upto(g, a)
             h == [p \in S |-> <<p[1] + 1, p[2]>>]
  <2>1. a - 1 \in Ages /\ a \in Nat
    BY <1>1, <1>4, Bounds
  <2>2. ASSUME NEW p \in S
        PROVE  /\ <<p[1] + 1, p[2]>> \in T /\ p[1] \in Nat /\ p = <<p[1], p[2]>>
    <3>1. p \in (0 .. a - 1) \X (1 .. Most) /\ p[2] <= f[p[1]]
      BY DEF Upto
    <3>6. p[1] \in 0 .. a - 1 /\ a \in Nat /\ a <= LoginWindow /\ LoginWindow \in Nat
      BY <2>1, <3>1, Bounds
    <3>2. p[1] \in Nat /\ p[1] + 1 \in 0 .. a /\ p[1] + 1 \in Ages /\ p[1] + 1 # 0 /\ p[1] + 1 - 1 = p[1]
      BY <3>6 DEF Ages
    <3>3. g[p[1] + 1] = f[p[1]]
      BY <3>2
    <3>4. p[2] \in 1 .. Most /\ p[2] <= g[p[1] + 1] /\ p = <<p[1], p[2]>>
      BY <3>1, <3>3
    <3> HIDE DEF S
    <3>5. <<p[1] + 1, p[2]>> \in T
      BY <3>2, <3>4 DEF Upto
    <3> QED
      BY <3>2, <3>4, <3>5
  <2>3. ASSUME NEW q \in T
        PROVE  <<q[1] - 1, q[2]>> \in S /\ q = <<q[1], q[2]>> /\ q[1] - 1 + 1 = q[1]
    <3>1. q \in (0 .. a) \X (1 .. Most) /\ q[2] <= g[q[1]]
      BY DEF Upto
    <3>2. q[1] \in Ages
      BY <3>1, <2>1, Bounds DEF Ages
    <3>3. q[1] # 0
      BY <3>1, <3>2, Bounds
    <3>4. g[q[1]] = f[q[1] - 1] /\ q[1] - 1 \in 0 .. a - 1 /\ q[1] - 1 + 1 = q[1]
      BY <2>1, <3>1, <3>2, <3>3
    <3> QED
      BY <3>1, <3>4 DEF Upto
  <2>4. h \in [S -> T]
    BY <2>2
  <2>5. \A p, q \in S : h[p] = h[q] => p = q
    BY <2>2
  <2>6. \A q \in T : \E p \in S : h[p] = q
    <3> TAKE q \in T
    <3>1. <<q[1] - 1, q[2]>> \in S /\ h[<<q[1] - 1, q[2]>>] = q
      BY <2>3
    <3> QED
      BY <3>1
  <2>7. h \in Bijection(S, T)
    BY <2>4, <2>5, <2>6 DEF Bijection, Injection, Surjection, IsInjective
  <2> QED
    BY <2>1, <2>7, SumType, FS_Bijection DEF Sum, ExistsBijection
<1> QED
  BY <1>1, <1>2, <1>3, <1>4

-----------------------------------------------------------------------------
(* The steps of the logins.                                                *)

\* The types, as the steps use them.
Login   == [pc : {"idle", "verify", "refused", "granted"}, age : 0 .. TTL, late : BOOLEAN]
Session == [state : {"none", "live", "revoked"}, left : 0 .. TTL, old : BOOLEAN, late : BOOLEAN]

LEMMA LoginTypes ==
  Logins!TypeOK <=>
     /\ s1 \in BOOLEAN /\ s5 \in BOOLEAN
     /\ s2 \in [Ages -> 0 .. Limit] /\ s6 \in Counts
     /\ s3 \in [Tokens -> Session] /\ s4 \in [LoginClients -> Login]
BY SameCounts DEF Logins!TypeOK, Counts, Login, Session

LEMMA NextTypes ==
  Logins!TypeOK' <=>
     /\ s1' \in BOOLEAN /\ s5' \in BOOLEAN
     /\ s2' \in [Ages -> 0 .. Limit] /\ s6' \in Counts
     /\ s3' \in [Tokens -> Session] /\ s4' \in [LoginClients -> Login]
BY SameCounts DEF Logins!TypeOK, Counts, Login, Session

\* Failures are counts.
LEMMA FailuresCount ==
  ASSUME NEW f \in [Ages -> 0 .. Limit]
  PROVE  f \in Counts
BY Bounds DEF Counts

\* The logins at a step are finitely many.
LEMMA Steps ==
  ASSUME NEW pc
  PROVE  IsFiniteSet(AtStep(s4, pc)) /\ Cardinality(AtStep(s4, pc)) \in Nat
<1>1. AtStep(s4, pc) \in SUBSET LoginClients
  BY DEF AtStep
<1> QED
  BY <1>1, LoginsAssumption, FS_Subset, FS_CardinalityType

\* A set gains one element, or loses one.
LEMMA OneMoreOneLess ==
  ASSUME NEW S, IsFiniteSet(S), NEW x
  PROVE  /\ x \notin S => Cardinality(S \cup {x}) = Cardinality(S) + 1
         /\ x \in S => Cardinality(S \ {x}) = Cardinality(S) - 1
BY FS_AddElement, FS_RemoveElement

\* One login goes to a step, from another one.
LEMMA OneGoes ==
  ASSUME s4 \in [LoginClients -> Login], NEW c \in LoginClients, NEW l \in Login,
         NEW from, s4[c].pc = from, s4' = [s4 EXCEPT ![c] = l]
  PROVE  /\ s4' \in [LoginClients -> Login]
         /\ \A pc : pc # l.pc /\ pc # from => AtStep(s4', pc) = AtStep(s4, pc)
         /\ l.pc # from =>
              /\ Cardinality(AtStep(s4', l.pc)) = Cardinality(AtStep(s4, l.pc)) + 1
              /\ Cardinality(AtStep(s4', from)) = Cardinality(AtStep(s4, from)) - 1
<1>1. /\ s4' \in [LoginClients -> Login] /\ s4'[c] = l
      /\ \A d \in LoginClients : d # c => s4'[d] = s4[d]
  OBVIOUS
<1>2. \A pc : pc # l.pc /\ pc # from => AtStep(s4', pc) = AtStep(s4, pc)
  BY <1>1 DEF AtStep
<1>3. ASSUME l.pc # from
      PROVE  /\ Cardinality(AtStep(s4', l.pc)) = Cardinality(AtStep(s4, l.pc)) + 1
             /\ Cardinality(AtStep(s4', from)) = Cardinality(AtStep(s4, from)) - 1
  <2>1. AtStep(s4', l.pc) = AtStep(s4, l.pc) \cup {c} /\ c \notin AtStep(s4, l.pc)
    BY <1>1, <1>3 DEF AtStep
  <2>2. AtStep(s4', from) = AtStep(s4, from) \ {c} /\ c \in AtStep(s4, from)
    BY <1>1, <1>3 DEF AtStep
  <2>3. Cardinality(AtStep(s4, l.pc) \cup {c}) = Cardinality(AtStep(s4, l.pc)) + 1
    BY <2>1, Steps, OneMoreOneLess, ZenonT(60)
  <2>4. Cardinality(AtStep(s4, from) \ {c}) = Cardinality(AtStep(s4, from)) - 1
    BY <2>2, Steps, OneMoreOneLess, ZenonT(60)
  <2> QED
    BY <2>1, <2>2, <2>3, <2>4
<1> QED
  BY <1>1, <1>2, <1>3

\* The logins of other steps stay when no login changes its step.
LEMMA NoneGoes ==
  ASSUME \A c \in LoginClients : s4'[c].pc = s4[c].pc
  PROVE  \A pc : AtStep(s4', pc) = AtStep(s4, pc)
BY DEF AtStep

\* A login that is nowhere yet, wherever it goes.
LEMMA NewLogin ==
  ASSUME NEW pc \in {"idle", "verify", "refused", "granted"}
  PROVE  \E l \in Login : l = Logins!At(pc) /\ l.pc = pc /\ ~ l.late
<1>1. 0 \in 0 .. TTL
  BY Bounds
<1>2. Logins!At(pc) \in Login /\ Logins!At(pc).pc = pc /\ ~ Logins!At(pc).late
  BY <1>1 DEF Login, Logins!At
<1> QED
  BY <1>2

\* What is late is finite.
LEMMA LateTypes ==
  ASSUME NEW sessions, NEW logins
  PROVE  /\ LateSessions(sessions) \in SUBSET Tokens /\ IsFiniteSet(LateSessions(sessions))
         /\ Cardinality(LateSessions(sessions)) \in Nat
         /\ LateLogins(logins) \in SUBSET LoginClients /\ IsFiniteSet(LateLogins(logins))
         /\ Cardinality(LateLogins(logins)) \in Nat
         /\ Cardinality(LateLogins(logins)) <= Cardinality(LoginClients)
<1>1. LateSessions(sessions) \in SUBSET Tokens /\ LateLogins(logins) \in SUBSET LoginClients
  BY DEF LateSessions, LateLogins
<1> QED
  BY <1>1, LoginsAssumption, FS_Subset, FS_CardinalityType

\* Nothing becomes late.
LEMMA LateStays ==
  ASSUME LateOK,
         \A d \in LoginClients : s4'[d].late => s4[d].late /\ s4'[d].pc = "granted",
         \A s \in Tokens : s3'[s].state = "live" /\ s3'[s].late => s3[s].state = "live" /\ s3[s].late
  PROVE  LateOK'
<1>1. LateSessions(s3') \in SUBSET LateSessions(s3) /\ LateLogins(s4') \in SUBSET LateLogins(s4)
  BY DEF LateSessions, LateLogins
<1>2. /\ Cardinality(LateSessions(s3')) <= Cardinality(LateSessions(s3))
      /\ Cardinality(LateLogins(s4')) <= Cardinality(LateLogins(s4))
  <2>1. IsFiniteSet(LateSessions(s3)) /\ IsFiniteSet(LateLogins(s4))
    BY LateTypes
  <2> QED
    BY <1>1, <2>1, FS_Subset
<1>3. /\ Cardinality(LateSessions(s3')) \in Nat /\ Cardinality(LateSessions(s3)) \in Nat
      /\ Cardinality(LateLogins(s4')) \in Nat /\ Cardinality(LateLogins(s4)) \in Nat
      /\ Cardinality(LoginClients) \in Nat
  BY LateTypes, Bounds
<1> QED
  BY <1>2, <1>3 DEF LateOK

\* One login goes to a step where it is not late.
LEMMA OneIsNotLate ==
  ASSUME LateOK, s4 \in [LoginClients -> Login], NEW c \in LoginClients, NEW l \in Login, ~ l.late,
         s4' = [s4 EXCEPT ![c] = l], s3' = s3
  PROVE  LateOK'
<1>1. \A d \in LoginClients : s4'[d].late => s4[d].late /\ s4'[d].pc = "granted"
  BY DEF LateOK
<1> QED
  BY <1>1, LateStays

\* A login that starts is let in when there is room.
LEMMA CountStep ==
  ASSUME LoginsInv, NEW c \in LoginClients, Logins!Count(c)
  PROVE  LoginsInv'
<1>1. /\ s1 \in BOOLEAN /\ s5 \in BOOLEAN
      /\ s2 \in [Ages -> 0 .. Limit] /\ s6 \in Counts
      /\ s3 \in [Tokens -> Session] /\ s4 \in [LoginClients -> Login]
  BY LoginTypes DEF LoginsInv
<1>2. s1' = s1 /\ s2' = s2 /\ s3' = s3 /\ s5' = s5 /\ s6' = s6 /\ s4[c].pc = "idle"
  BY DEF Logins!Count
<1> DEFINE to == IF Logins!Throttled THEN "refused" ELSE "verify"
<1>3. PICK l \in Login : l = Logins!At(to) /\ l.pc = to /\ ~ l.late
  <2>1. to \in {"refused", "verify"}
    OBVIOUS
  <2> HIDE DEF to
  <2> QED
    BY <2>1, NewLogin
<1>4. s4' = [s4 EXCEPT ![c] = l]
  BY <1>3 DEF Logins!Count, Logins!Goto
<1>5. l.pc # "idle" /\ l.pc = to
  BY <1>3
<1>6. /\ s4' \in [LoginClients -> Login]
      /\ \A pc : pc # l.pc /\ pc # "idle" => AtStep(s4', pc) = AtStep(s4, pc)
      /\ Cardinality(AtStep(s4', l.pc)) = Cardinality(AtStep(s4, l.pc)) + 1
  BY <1>1, <1>2, <1>4, <1>5, OneGoes, ZenonT(60)
<1>10. LateOK'
  <2>1. LateOK
    BY DEF LoginsInv
  <2> QED
    BY <1>1, <1>2, <1>3, <1>4, <2>1, OneIsNotLate
<1>7. /\ Sum(s6, LoginWindow) \in Nat /\ Sum(s2, LoginWindow) \in Nat
      /\ \A a \in Ages : Sum(s2, a) \in Nat /\ Sum(s6, a) \in Nat
  BY SumType, Bounds
<1>8. CASE l.pc = "refused"
  <2>1. /\ AtStep(s4', "verify") = AtStep(s4, "verify")
        /\ Cardinality(AtStep(s4', "refused")) = Cardinality(AtStep(s4, "refused")) + 1
    BY <1>6, <1>8
  <2>2. Paid'
    BY <1>2, <1>7, <2>1, Steps, Bounds DEF LoginsInv, Paid
  <2>3. Room'
    BY <1>2, <2>1 DEF LoginsInv, Room
  <2> QED
    BY <1>1, <1>2, <1>6, <1>10, <2>2, <2>3, NextTypes DEF LoginsInv, OldIsOver
<1>9. CASE l.pc = "verify"
  <2>1. /\ AtStep(s4', "refused") = AtStep(s4, "refused")
        /\ Cardinality(AtStep(s4', "verify")) = Cardinality(AtStep(s4, "verify")) + 1
    BY <1>6, <1>9
  <2>2. Sum(s2, LoginWindow) < Limit
    <3>1. ~ (Logins!Total(s2) >= Limit)
      BY <1>5, <1>9 DEF Logins!Throttled
    <3>2. Logins!Total(s2) = Sum(s2, LoginWindow)
      BY <1>1, FailuresCount, SameCounts
    <3> QED
      BY <1>7, <3>1, <3>2, Bounds
  <2>3. Sum(s6, LoginWindow) <= Sum(s2, LoginWindow) + Cardinality(AtStep(s4, "refused"))
    BY <2>2, Bounds DEF LoginsInv, Paid
  <2>4. /\ IsFiniteSet(AtStep(s4, "refused") \cup AtStep(s4, "verify"))
        /\ Cardinality(AtStep(s4, "refused") \cup AtStep(s4, "verify"))
             = Cardinality(AtStep(s4, "refused")) + Cardinality(AtStep(s4, "verify"))
    <3>1. AtStep(s4, "refused") \cap AtStep(s4, "verify") = {}
      BY DEF AtStep
    <3>2. Cardinality(AtStep(s4, "refused") \cap AtStep(s4, "verify")) = 0
      BY <3>1, FS_EmptySet
    <3> DEFINE S == AtStep(s4, "refused")   T == AtStep(s4, "verify")
    <3>3. IsFiniteSet(S) /\ IsFiniteSet(T) /\ Cardinality(S) \in Nat /\ Cardinality(T) \in Nat
      BY Steps
    <3> HIDE DEF S, T
    <3>4. /\ IsFiniteSet(S \cup T)
          /\ Cardinality(S \cup T) = Cardinality(S) + Cardinality(T) - Cardinality(S \cap T)
      BY <3>3, FS_Union
    <3> QED
      BY <3>2, <3>3, <3>4 DEF S, T
  <2>5. Cardinality(AtStep(s4, "refused")) + Cardinality(AtStep(s4, "verify")) + 1
          <= Cardinality(LoginClients)
    <3> DEFINE S == AtStep(s4, "refused") \cup AtStep(s4, "verify")
    <3>1. c \notin S /\ S \cup {c} \in SUBSET LoginClients
      BY <1>2 DEF AtStep
    <3>2. Cardinality(S \cup {c}) = Cardinality(S) + 1
      BY <2>4, <3>1, FS_AddElement
    <3>3. Cardinality(S \cup {c}) <= Cardinality(LoginClients)
      BY <3>1, LoginsAssumption, FS_Subset
    <3> QED
      BY <2>4, <3>2, <3>3
  <2>6. Paid'
    BY <1>2, <2>1 DEF LoginsInv, Paid
  <2>7. Room'
    BY <1>2, <1>7, <2>1, <2>2, <2>3, <2>5, Steps, Bounds DEF Room
  <2> QED
    BY <1>1, <1>2, <1>6, <1>10, <2>6, <2>7, NextTypes DEF LoginsInv, OldIsOver
<1> QED
  BY <1>5, <1>8, <1>9

\* A wrong password is a guess, and the login is about to record it.
LEMMA VerifyStep ==
  ASSUME LoginsInv, NEW c \in LoginClients, Logins!Verify(c)
  PROVE  LoginsInv'
<1>1. /\ s1 \in BOOLEAN /\ s5 \in BOOLEAN
      /\ s2 \in [Ages -> 0 .. Limit] /\ s6 \in Counts
      /\ s3 \in [Tokens -> Session] /\ s4 \in [LoginClients -> Login]
  BY LoginTypes DEF LoginsInv
<1>2. s1' = s1 /\ s2' = s2 /\ s3' = s3 /\ s5' = s5 /\ s4[c].pc = "verify"
  BY DEF Logins!Verify
<1>3. /\ Sum(s6, LoginWindow) \in Nat
      /\ \A a \in Ages : Sum(s2, a) \in Nat /\ Sum(s6, a) \in Nat
  BY SumType, Bounds
<1>6. LateOK /\ ~ s4[c].late
  BY <1>2 DEF LoginsInv, LateOK
<1>4. CASE s6' = s6 /\ s4' = [s4 EXCEPT ![c].pc = "granted"]
  <2>1. PICK l \in Login : l = [s4[c] EXCEPT !.pc = "granted"] /\ ~ l.late
    <3> DEFINE to == [s4[c] EXCEPT !.pc = "granted"]
    <3>1. to \in Login /\ to.late = s4[c].late
      BY <1>1 DEF Login
    <3> HIDE DEF to
    <3>2. to \in Login /\ ~ to.late
      BY <1>6, <3>1
    <3> QED
      BY <3>2 DEF to
  <2>2. s4' = [s4 EXCEPT ![c] = l] /\ l.pc = "granted"
    BY <1>1, <1>4, <2>1 DEF Login
  <2>3. /\ s4' \in [LoginClients -> Login]
        /\ AtStep(s4', "refused") = AtStep(s4, "refused")
        /\ Cardinality(AtStep(s4', "verify")) = Cardinality(AtStep(s4, "verify")) - 1
    <3>1. l.pc # "verify" /\ l.pc # "refused"
      BY <2>2
    <3>2. /\ s4' \in [LoginClients -> Login]
          /\ \A pc : pc # l.pc /\ pc # "verify" => AtStep(s4', pc) = AtStep(s4, pc)
          /\ Cardinality(AtStep(s4', "verify")) = Cardinality(AtStep(s4, "verify")) - 1
      BY <1>1, <1>2, <2>2, <3>1, OneGoes, ZenonT(60)
    <3> QED
      BY <3>1, <3>2
  <2>4. Paid'
    BY <1>2, <1>4, <2>3 DEF LoginsInv, Paid
  <2>5. Room'
    BY <1>3, <1>4, <2>3, Steps, Bounds DEF LoginsInv, Room
  <2>6. LateOK'
    BY <1>1, <1>2, <1>6, <2>1, <2>2, OneIsNotLate
  <2> QED
    BY <1>1, <1>2, <1>4, <2>3, <2>4, <2>5, <2>6, NextTypes DEF LoginsInv, OldIsOver
<1>5. CASE /\ s4' = [s4 EXCEPT ![c].pc = "refused"]
           /\ s6' = [s6 EXCEPT ![0] = Logins!Capped(s6[0] + 1, Logins!Most)]
  <2>1. PICK l \in Login : l = [s4[c] EXCEPT !.pc = "refused"] /\ ~ l.late
    <3> DEFINE to == [s4[c] EXCEPT !.pc = "refused"]
    <3>1. to \in Login /\ to.late = s4[c].late
      BY <1>1 DEF Login
    <3> HIDE DEF to
    <3>2. to \in Login /\ ~ to.late
      BY <1>6, <3>1
    <3> QED
      BY <3>2 DEF to
  <2>2. s4' = [s4 EXCEPT ![c] = l] /\ l.pc = "refused"
    BY <1>1, <1>5, <2>1 DEF Login
  <2>3. /\ s4' \in [LoginClients -> Login]
        /\ Cardinality(AtStep(s4', "refused")) = Cardinality(AtStep(s4, "refused")) + 1
        /\ Cardinality(AtStep(s4', "verify")) = Cardinality(AtStep(s4, "verify")) - 1
    BY <1>1, <1>2, <2>2, OneGoes, ZenonT(60)
  <2>4. s6' \in Counts /\ \A a \in Ages : Sum(s6', a) <= Sum(s6, a) + 1
    <3>1. s6[0] \in Nat /\ s6[0] <= Most
      BY <1>1, Bounds DEF Counts
    <3>2. CASE s6[0] + 1 <= Most
      <4>1. Logins!Capped(s6[0] + 1, Logins!Most) = s6[0] + 1
        BY <3>1, <3>2, SameCounts, Bounds DEF Logins!Capped
      <4>2. s6' = [s6 EXCEPT ![0] = s6[0] + 1]
        BY <1>5, <4>1
      <4>3. s6' \in Counts /\ \A a \in Ages : Sum(s6', a) = Sum(s6, a) + 1
        BY <1>1, <3>2, <4>2, SumAdds, Bounds
      <4> QED
        BY <1>3, <4>3
    <3>3. CASE ~ (s6[0] + 1 <= Most)
      <4>1. s6[0] = Most /\ Logins!Capped(s6[0] + 1, Logins!Most) = Most
        BY <3>1, <3>3, SameCounts, Bounds DEF Logins!Capped
      <4>2. s6' = s6
        BY <1>1, <1>5, <4>1 DEF Counts
      <4> QED
        BY <1>1, <1>3, <4>2
    <3> QED
      BY <3>2, <3>3
  <2>5. \A a \in Ages : Sum(s6', a) \in Nat
    BY SumType
  <2>6. Paid'
    BY <1>2, <1>3, <2>3, <2>4, <2>5, Steps, Bounds DEF LoginsInv, Paid
  <2>7. Room'
    BY <1>3, <2>3, <2>4, <2>5, Steps, Bounds DEF LoginsInv, Room
  <2>8. LateOK'
    BY <1>1, <1>2, <1>6, <2>1, <2>2, OneIsNotLate
  <2> QED
    BY <1>1, <1>2, <2>3, <2>4, <2>6, <2>7, <2>8, NextTypes DEF LoginsInv, OldIsOver
<1> QED
  BY <1>4, <1>5 DEF Logins!Verify

\* A refused login is on record: as one more failure, unless the limit is reached.
LEMMA RecordFailureStep ==
  ASSUME LoginsInv, NEW c \in LoginClients, Logins!RecordFailure(c)
  PROVE  LoginsInv'
<1>1. /\ s1 \in BOOLEAN /\ s5 \in BOOLEAN
      /\ s2 \in [Ages -> 0 .. Limit] /\ s6 \in Counts
      /\ s3 \in [Tokens -> Session] /\ s4 \in [LoginClients -> Login]
  BY LoginTypes DEF LoginsInv
<1>2. s1' = s1 /\ s3' = s3 /\ s5' = s5 /\ s6' = s6 /\ s4[c].pc = "refused"
  BY DEF Logins!RecordFailure
<1>3. \A a \in Ages : Sum(s2, a) \in Nat /\ Sum(s6, a) \in Nat /\ Sum(s2', a) \in Nat
  BY SumType
<1>4. PICK l \in Login : l = Logins!At("idle") /\ l.pc = "idle" /\ ~ l.late
  BY NewLogin
<1>5. s4' = [s4 EXCEPT ![c] = l] /\ l.pc = "idle"
  BY <1>4 DEF Logins!RecordFailure, Logins!Goto
<1>6. /\ s4' \in [LoginClients -> Login]
      /\ AtStep(s4', "verify") = AtStep(s4, "verify")
      /\ Cardinality(AtStep(s4', "refused")) = Cardinality(AtStep(s4, "refused")) - 1
  <2>1. l.pc # "verify" /\ l.pc # "refused"
    BY <1>5
  <2>2. /\ s4' \in [LoginClients -> Login]
        /\ \A pc : pc # l.pc /\ pc # "refused" => AtStep(s4', pc) = AtStep(s4, pc)
        /\ Cardinality(AtStep(s4', "refused")) = Cardinality(AtStep(s4, "refused")) - 1
    BY <1>1, <1>2, <1>5, <2>1, OneGoes, ZenonT(60)
  <2> QED
    BY <2>1, <2>2
<1>7. s2[0] \in Nat /\ s2[0] <= Limit
  BY <1>1, Bounds
<1>8. /\ s2' \in [Ages -> 0 .. Limit]
      /\ \A a \in Ages : Sum(s2', a) = Sum(s2, a) + 1 \/ Sum(s2', a) >= Limit
  <2>1. CASE s2[0] + 1 <= Limit
    <3> DEFINE n == s2[0] + 1
    <3>1. Logins!Capped(n, Limit) = n /\ n \in 0 .. Limit /\ n <= Most
      BY <1>7, <2>1, Bounds DEF Logins!Capped
    <3>2. s2' = [s2 EXCEPT ![0] = n]
      BY <3>1 DEF Logins!RecordFailure
    <3>3. s2' \in [Ages -> 0 .. Limit]
      <4> HIDE DEF n
      <4> QED
        BY <1>1, <3>1, <3>2
    <3>4. \A a \in Ages : Sum(s2', a) = Sum(s2, a) + 1
      BY <1>1, <3>1, <3>2, SumAdds, FailuresCount
    <3> QED
      BY <3>3, <3>4
  <2>2. CASE ~ (s2[0] + 1 <= Limit)
    <3>1. s2[0] = Limit /\ Logins!Capped(s2[0] + 1, Limit) = Limit
      BY <1>7, <2>2, Bounds DEF Logins!Capped
    <3>2. s2' = s2
      BY <1>1, <3>1 DEF Logins!RecordFailure
    <3>3. \A a \in Ages : Sum(s2, a) >= Limit
      BY <1>1, <3>1, SumAtLeast, FailuresCount
    <3> QED
      BY <1>1, <3>2, <3>3
  <2> QED
    BY <2>1, <2>2
<1>9. Paid'
  BY <1>2, <1>3, <1>6, <1>8, Steps, Bounds DEF LoginsInv, Paid
<1>10. Room'
  BY <1>2, <1>6 DEF LoginsInv, Room
<1>11. LateOK'
  BY <1>1, <1>2, <1>4, <1>5, OneIsNotLate DEF LoginsInv
<1> QED
  BY <1>1, <1>2, <1>6, <1>8, <1>9, <1>10, <1>11, NextTypes DEF LoginsInv, OldIsOver

\* Steps that leave the throttle alone: what they owe is about the sessions.
LEMMA ThrottleStays ==
  ASSUME LoginsInv, s2' = s2, s6' = s6, s1' \in BOOLEAN, s5' \in BOOLEAN,
         s4' \in [LoginClients -> Login], AtStep(s4', "refused") = AtStep(s4, "refused"),
         AtStep(s4', "verify") = AtStep(s4, "verify"),
         s3' \in [Tokens -> Session], \A s \in Tokens : s3'[s].old => s3'[s].state # "live",
         LateOK'
  PROVE  LoginsInv'
<1>1. s2 \in [Ages -> 0 .. Limit] /\ s6 \in Counts
  BY LoginTypes DEF LoginsInv
<1>2. Paid' /\ Room'
  BY DEF LoginsInv, Paid, Room
<1> QED
  BY <1>1, <1>2, NextTypes DEF LoginsInv, OldIsOver

\* A session that is issued is new.
LEMMA IssueStep ==
  ASSUME LoginsInv, NEW c \in LoginClients, Logins!Issue(c)
  PROVE  LoginsInv'
<1>1. /\ s1 \in BOOLEAN /\ s5 \in BOOLEAN
      /\ s3 \in [Tokens -> Session] /\ s4 \in [LoginClients -> Login]
  BY LoginTypes DEF LoginsInv
<1>2. s1' = s1 /\ s2' = s2 /\ s5' = s5 /\ s6' = s6 /\ s4[c].pc = "granted"
  BY DEF Logins!Issue
<1>3. PICK l \in Login : l = Logins!At("idle") /\ l.pc = "idle" /\ ~ l.late
  BY NewLogin
<1>4. s4' = [s4 EXCEPT ![c] = l] /\ l.pc = "idle"
  BY <1>3 DEF Logins!Issue, Logins!Goto
<1>5. /\ s4' \in [LoginClients -> Login]
      /\ AtStep(s4', "verify") = AtStep(s4, "verify")
      /\ AtStep(s4', "refused") = AtStep(s4, "refused")
  <2>1. l.pc # "verify" /\ l.pc # "refused" /\ l.pc # "granted"
    BY <1>4
  <2>2. /\ s4' \in [LoginClients -> Login]
        /\ \A pc : pc # l.pc /\ pc # "granted" => AtStep(s4', pc) = AtStep(s4, pc)
    BY <1>1, <1>2, <1>4, <2>1, OneGoes, ZenonT(60)
  <2> QED
    BY <2>1, <2>2
<1> DEFINE left == TTL - Logins!Capped(s4[c].age, TTL)
           x == [state |-> "live", left |-> left, old |-> FALSE, late |-> s4[c].late]
<1>6. left \in 0 .. TTL
  BY <1>1, Bounds DEF Logins!Capped, Login
<1>7. PICK s \in Tokens : s3' = [s3 EXCEPT ![s] = x] /\ s3[s].state = "none"
  BY DEF Logins!Issue
<1> HIDE DEF left
<1>8. x \in Session /\ ~ x.old /\ x.late = s4[c].late
  BY <1>1, <1>6 DEF Session, Login
<1> HIDE DEF x
<1>9. /\ s3' \in [Tokens -> Session]
      /\ \A t \in Tokens : s3'[t].old => s3'[t].state # "live"
  BY <1>1, <1>7, <1>8 DEF LoginsInv, OldIsOver
\* A late login becomes a late session.
<1>10. LateOK'
  <2>1. /\ s4'[c] = l /\ \A d \in LoginClients : d # c => s4'[d] = s4[d]
        /\ s3'[s] = x /\ \A u \in Tokens : u # s => s3'[u] = s3[u]
    BY <1>1, <1>4, <1>7
  <2>2. LateOK
    BY DEF LoginsInv
  <2>3. CASE ~ s4[c].late
    <3>1. \A d \in LoginClients : s4'[d].late => s4[d].late /\ s4'[d].pc = "granted"
      BY <1>3, <2>1, <2>2 DEF LateOK
    <3>2. \A u \in Tokens : s3'[u].state = "live" /\ s3'[u].late => s3[u].state = "live" /\ s3[u].late
      BY <1>8, <2>1, <2>3
    <3> QED
      BY <2>2, <3>1, <3>2, LateStays
  <2>4. CASE s4[c].late
    <3>1. LateLogins(s4') = LateLogins(s4) \ {c} /\ c \in LateLogins(s4)
      <4>1. \A d \in LoginClients : s4'[d].late <=> s4[d].late /\ d # c
        BY <1>3, <2>1, <2>4
      <4> QED
        BY <2>4, <4>1 DEF LateLogins
    <3>2. LateSessions(s3') \in SUBSET (LateSessions(s3) \cup {s}) /\ s \notin LateSessions(s3)
      BY <1>7, <2>1 DEF LateSessions
    <3>3. /\ IsFiniteSet(LateLogins(s4)) /\ IsFiniteSet(LateSessions(s3))
          /\ Cardinality(LateLogins(s4)) \in Nat /\ Cardinality(LateSessions(s3)) \in Nat
          /\ Cardinality(LateSessions(s3')) \in Nat /\ Cardinality(LoginClients) \in Nat
      BY LateTypes, Bounds
    <3>4. Cardinality(LateLogins(s4')) = Cardinality(LateLogins(s4)) - 1
      BY <3>1, <3>3, OneMoreOneLess
    <3>5. Cardinality(LateSessions(s3')) <= Cardinality(LateSessions(s3)) + 1
      <4>1. /\ Cardinality(LateSessions(s3) \cup {s}) = Cardinality(LateSessions(s3)) + 1
            /\ IsFiniteSet(LateSessions(s3) \cup {s})
        BY <3>2, <3>3, FS_AddElement
      <4> QED
        BY <3>2, <4>1, FS_Subset
    <3>6. \A d \in LoginClients : s4'[d].late => s4'[d].pc = "granted"
      BY <1>3, <2>1, <2>2 DEF LateOK
    <3> QED
      BY <2>2, <3>3, <3>4, <3>5, <3>6 DEF LateOK
  <2> QED
    BY <2>3, <2>4
<1> QED
  BY <1>1, <1>2, <1>5, <1>9, <1>10, ThrottleStays

\* What revoking makes of the sessions.
LEMMA Revoking ==
  ASSUME LoginsInv, NEW S
  PROVE  /\ Logins!Revoked(S) \in [Tokens -> Session]
         /\ \A t \in Tokens : LET r == Logins!Revoked(S)[t] IN
               /\ r.old => r.state # "live"
               /\ t \in S => r.state # "live"
               /\ r.state = "live" => r = s3[t]
<1>1. s3 \in [Tokens -> Session] /\ OldIsOver
  BY LoginTypes DEF LoginsInv
<1> DEFINE over == Logins!NoLife("revoked")
<1>2. over \in Session /\ over.state = "revoked"
  BY Bounds DEF Session, Logins!NoLife
<1> HIDE DEF over
<1>3. ASSUME NEW t \in Tokens
      PROVE  LET r == IF t \in S /\ s3[t].state = "live" THEN over ELSE s3[t]
             IN  /\ r \in Session
                 /\ r.old => r.state # "live"
                 /\ t \in S => r.state # "live"
                 /\ r.state = "live" => r = s3[t]
  BY <1>1, <1>2 DEF OldIsOver
<1> QED
  BY <1>3 DEF Logins!Revoked, over

\* Sessions end, and no login changes its step.
LEMMA SessionsEnd ==
  ASSUME LoginsInv, s2' = s2, s4' = s4, s6' = s6, s1' \in BOOLEAN, s5' \in BOOLEAN,
         s3' = s3 \/ \E S : s3' = Logins!Revoked(S)
  PROVE  LoginsInv'
<1>1. /\ s3 \in [Tokens -> Session] /\ s4 \in [LoginClients -> Login]
      /\ \A s \in Tokens : s3[s].old => s3[s].state # "live"
      /\ LateOK
  BY LoginTypes DEF LoginsInv, OldIsOver
<1>2. /\ s3' \in [Tokens -> Session]
      /\ \A s \in Tokens : /\ s3'[s].old => s3'[s].state # "live"
                           /\ s3'[s].state = "live" => s3'[s] = s3[s]
  BY <1>1, Revoking
<1>3. LateOK'
  <2>1. \A d \in LoginClients : s4'[d].late => s4[d].late /\ s4'[d].pc = "granted"
    BY <1>1 DEF LateOK
  <2> QED
    BY <1>1, <1>2, <2>1, LateStays
<1> QED
  BY <1>1, <1>2, <1>3, ThrottleStays

\* A disable is complete: no session is left, and only the logins granted are late.
LEMMA DisableEnds ==
  ASSUME LoginsInv, s2' = s2, s6' = s6, s1' = s1, s5' \in BOOLEAN,
         s3' = Logins!Aged(Logins!Revoked(Tokens)), s4' = Logins!Late
  PROVE  LoginsInv'
<1>1. s1 \in BOOLEAN /\ s4 \in [LoginClients -> Login] /\ LateOK
  BY LoginTypes DEF LoginsInv
<1>2. s3' \in [Tokens -> Session] /\ \A s \in Tokens : s3'[s].state # "live"
  <2> DEFINE f == Logins!Revoked(Tokens)
  <2>1. f \in [Tokens -> Session] /\ \A t \in Tokens : f[t].state # "live"
    BY Revoking
  <2> HIDE DEF f
  <2>2. ASSUME NEW t \in Tokens
        PROVE  LET r == IF f[t].state = "none" THEN f[t] ELSE [f[t] EXCEPT !.old = TRUE]
               IN  r \in Session /\ r.state # "live"
    BY <2>1 DEF Session
  <2>3. s3' = [t \in Tokens |-> IF f[t].state = "none" THEN f[t]
                                ELSE [f[t] EXCEPT !.old = TRUE]]
    BY DEF Logins!Aged, f
  <2> QED
    BY <2>2, <2>3
<1>3. /\ s4' \in [LoginClients -> Login]
      /\ \A c \in LoginClients : s4'[c].pc = s4[c].pc /\ (s4'[c].late => s4'[c].pc = "granted")
  <2>1. ASSUME NEW c \in LoginClients
        PROVE  LET r == IF s4[c].pc = "granted" THEN [s4[c] EXCEPT !.late = TRUE] ELSE s4[c]
               IN  r \in Login /\ r.pc = s4[c].pc /\ (r.late => r.pc = "granted")
    BY <1>1 DEF Login, LateOK
  <2> QED
    BY <2>1 DEF Logins!Late
<1>4. AtStep(s4', "refused") = AtStep(s4, "refused") /\ AtStep(s4', "verify") = AtStep(s4, "verify")
  BY <1>3, NoneGoes
<1>5. LateOK'
  <2>1. LateSessions(s3') = {} /\ Cardinality({}) = 0
    BY <1>2, FS_EmptySet DEF LateSessions
  <2>2. /\ Cardinality(LateLogins(s4')) <= Cardinality(LoginClients)
        /\ Cardinality(LateLogins(s4')) \in Nat
    BY LateTypes
  <2> QED
    BY <1>3, <2>1, <2>2 DEF LateOK
<1> QED
  BY <1>1, <1>2, <1>3, <1>4, <1>5, ThrottleStays

\* Logout, disable and enable.
LEMMA SessionStep ==
  ASSUME LoginsInv, (\E s \in Tokens : Logins!Logout(s)) \/ Logins!Disable \/ Logins!Enable
  PROVE  LoginsInv'
<1>1. s1 \in BOOLEAN /\ s5 \in BOOLEAN
  BY LoginTypes DEF LoginsInv
<1>2. CASE s3' = Logins!Aged(Logins!Revoked(Tokens)) /\ s4' = Logins!Late /\ s1' = s1 /\ s5' = FALSE
           /\ s2' = s2 /\ s6' = s6
  BY <1>2, DisableEnds
<1>3. CASE /\ s3' = s3 \/ \E S : s3' = Logins!Revoked(S)
           /\ s4' = s4 /\ s1' \in BOOLEAN /\ s5' \in BOOLEAN /\ s2' = s2 /\ s6' = s6
  BY <1>3, SessionsEnd
<1>4. CASE Logins!Disable
  BY <1>1, <1>2, <1>3, <1>4 DEF Logins!Disable
<1>5. CASE (\E s \in Tokens : Logins!Logout(s)) \/ Logins!Enable
  BY <1>1, <1>3, <1>5 DEF Logins!Logout, Logins!Enable
<1> QED
  BY <1>4, <1>5

\* Time passes: guesses and failures age alike.
LEMMA LoginTick == LoginsInv /\ Logins!Tick => LoginsInv'
<1> SUFFICES ASSUME LoginsInv, Logins!Tick PROVE LoginsInv'
  OBVIOUS
<1>1. /\ s1 \in BOOLEAN /\ s5 \in BOOLEAN
      /\ s2 \in [Ages -> 0 .. Limit] /\ s6 \in Counts /\ s2 \in Counts
      /\ s3 \in [Tokens -> Session] /\ s4 \in [LoginClients -> Login]
  BY LoginTypes, FailuresCount DEF LoginsInv
<1>2. /\ s2' = [a \in Ages |-> IF a = 0 THEN 0 ELSE s2[a - 1]]
      /\ s6' = [a \in Ages |-> IF a = 0 THEN 0 ELSE s6[a - 1]]
      /\ s1' = s1 /\ s5' = s5
  BY SameCounts DEF Logins!Tick, Logins!Older
<1>3. s2' \in [Ages -> 0 .. Limit]
  BY <1>1, <1>2, Bounds DEF Ages
<1>4. /\ s6' \in Counts
      /\ Sum(s6', 0) = 0 /\ Sum(s2', 0) = 0
      /\ \A a \in Ages : a # 0 => /\ a - 1 \in Ages
                                  /\ Sum(s6', a) = Sum(s6, a - 1) /\ Sum(s2', a) = Sum(s2, a - 1)
  BY <1>1, <1>2, SumAges
<1>5. /\ s4' \in [LoginClients -> Login]
      /\ \A c \in LoginClients : s4'[c].pc = s4[c].pc /\ s4'[c].late = s4[c].late
  <2>1. ASSUME NEW c \in LoginClients
        PROVE  LET r == IF s4[c].pc \in {"verify", "granted"}
                        THEN [s4[c] EXCEPT !.age = Logins!Capped(@ + 1, TTL)] ELSE s4[c]
               IN  r \in Login /\ r.pc = s4[c].pc /\ r.late = s4[c].late
    <3> DEFINE n == Logins!Capped(s4[c].age + 1, TTL)
    <3>1. n \in 0 .. TTL
      BY <1>1, Bounds DEF Logins!Capped, Login
    <3> HIDE DEF n
    <3>2. /\ [s4[c] EXCEPT !.age = n] \in Login /\ [s4[c] EXCEPT !.age = n].pc = s4[c].pc
          /\ [s4[c] EXCEPT !.age = n].late = s4[c].late
      BY <1>1, <3>1 DEF Login
    <3> QED
      BY <1>1, <3>2 DEF n
  <2> QED
    BY <2>1 DEF Logins!Tick
<1>6. AtStep(s4', "refused") = AtStep(s4, "refused") /\ AtStep(s4', "verify") = AtStep(s4, "verify")
  BY <1>5, NoneGoes
<1>7. /\ s3' \in [Tokens -> Session]
      /\ \A s \in Tokens : /\ s3'[s].old => s3'[s].state # "live"
                           /\ s3'[s].state = "live" => s3[s].state = "live" /\ s3'[s].late = s3[s].late
  <2>1. ASSUME NEW s \in Tokens
        PROVE  LET r == IF s3[s].state = "live" /\ s3[s].left > 1
                        THEN [s3[s] EXCEPT !.left = @ - 1] ELSE Logins!NoSession
               IN  /\ r \in Session /\ (r.old => r.state # "live")
                   /\ r.state = "live" => s3[s].state = "live" /\ r.late = s3[s].late
    <3>1. Logins!NoSession \in Session /\ ~ Logins!NoSession.old /\ Logins!NoSession.state = "none"
      BY Bounds DEF Logins!NoSession, Logins!NoLife, Session
    <3> DEFINE n == s3[s].left - 1
    <3>2. s3[s].left > 1 => n \in 0 .. TTL
      BY <1>1, Bounds DEF Session
    <3> HIDE DEF n
    <3>3. s3[s].left > 1 => [s3[s] EXCEPT !.left = n] \in Session
      BY <1>1, <3>2 DEF Session
    <3>4. /\ [s3[s] EXCEPT !.left = n].old = s3[s].old /\ [s3[s] EXCEPT !.left = n].state = s3[s].state
          /\ [s3[s] EXCEPT !.left = n].late = s3[s].late
      BY <1>1 DEF Session
    <3> QED
      BY <3>1, <3>3, <3>4 DEF n, LoginsInv, OldIsOver
  <2> QED
    BY <2>1 DEF Logins!Tick
<1>8. \A a \in Ages : Sum(s2, a) \in Nat /\ Sum(s6, a) \in Nat
  BY SumType
<1>9. Paid'
  <2> SUFFICES ASSUME NEW a \in Ages, Sum(s2', a) < Limit
               PROVE  Sum(s6', a) <= Sum(s2', a) + Cardinality(AtStep(s4', "refused"))
    BY DEF Paid
  <2>1. CASE a = 0
    BY <1>4, <1>6, <2>1, Steps
  <2>2. CASE a # 0
    BY <1>4, <1>6, <2>2 DEF LoginsInv, Paid
  <2> QED
    BY <2>1, <2>2
<1>10. Room'
  <2>1. Sum(s6', LoginWindow) <= Sum(s6, LoginWindow)
    <3>1. CASE LoginWindow = 0
      BY <1>4, <1>8, <3>1, Bounds
    <3>2. CASE LoginWindow # 0
      <4>1. LoginWindow - 1 \in Ages /\ LoginWindow - 1 <= LoginWindow
        BY <1>4, <3>2, Bounds
      <4>2. Sum(s6, LoginWindow - 1) <= Sum(s6, LoginWindow)
        BY <4>1, Bounds, SumGrows
      <4> QED
        BY <1>4, <3>2, <4>2, Bounds
    <3> QED
      BY <3>1, <3>2
  <2>2. Sum(s6', LoginWindow) \in Nat
    BY SumType, Bounds
  <2> QED
    BY <1>6, <1>8, <2>1, <2>2, Steps, Bounds DEF LoginsInv, Room
<1>11. LateOK'
  <2>1. LateOK
    BY DEF LoginsInv
  <2>2. \A d \in LoginClients : s4'[d].late => s4[d].late /\ s4'[d].pc = "granted"
    BY <1>5, <2>1 DEF LateOK
  <2> QED
    BY <1>7, <2>1, <2>2, LateStays
<1> QED
  BY <1>1, <1>2, <1>3, <1>4, <1>5, <1>7, <1>9, <1>10, <1>11, NextTypes DEF LoginsInv, OldIsOver

\* First states.
LEMMA LoginsInit == Logins!Init => LoginsInv
<1> SUFFICES ASSUME Logins!Init PROVE LoginsInv
  OBVIOUS
<1>1. /\ s2 = [a \in Ages |-> 0] /\ s6 = [a \in Ages |-> 0]
      /\ s3 = [s \in Tokens |-> Logins!NoSession]
      /\ s4 = [c \in LoginClients |-> Logins!At("idle")]
      /\ s1 = TRUE /\ s5 = FALSE
  BY SameCounts DEF Logins!Init
<1>2. /\ Logins!NoSession \in Session /\ ~ Logins!NoSession.old /\ ~ Logins!NoSession.late
      /\ Logins!At("idle") \in Login /\ ~ Logins!At("idle").late /\ Logins!At("idle").pc = "idle"
  BY Bounds DEF Logins!NoSession, Logins!NoLife, Session, Logins!At, Login
<1>3. Logins!TypeOK /\ OldIsOver
  <2>1. 0 \in 0 .. Limit /\ 0 \in 0 .. Most
    BY Bounds
  <2>2. /\ s2 \in [Ages -> 0 .. Limit] /\ s6 \in Counts
        /\ s3 \in [Tokens -> Session] /\ s4 \in [LoginClients -> Login]
    BY <1>1, <1>2, <2>1 DEF Counts
  <2> QED
    BY <1>1, <1>2, <2>2, LoginTypes DEF OldIsOver
<1>4. \A a \in Ages : Sum(s2, a) = 0 /\ Sum(s6, a) = 0
  BY <1>1, SumZero
<1>5. AtStep(s4, "verify") = {} /\ Cardinality({}) = 0
  BY <1>1, <1>2, FS_EmptySet DEF AtStep
<1>8. LateOK
  <2>1. LateSessions(s3) = {} /\ LateLogins(s4) = {}
    BY <1>1, <1>2 DEF LateSessions, LateLogins
  <2>2. QED
    <3>1. \A c \in LoginClients : ~ s4[c].late
      BY <1>1, <1>2
    <3>2. Cardinality(LateSessions(s3)) + Cardinality(LateLogins(s4)) = 0
      BY <1>5, <2>1
    <3>3. Cardinality(LoginClients) >= 0
      BY Bounds
    <3> QED
      BY <3>1, <3>2, <3>3 DEF LateOK
<1>6. Paid
  BY <1>4, Steps, Bounds DEF Paid
<1>7. Room
  BY <1>4, <1>5, Bounds DEF Room
<1> QED
  BY <1>3, <1>6, <1>7, <1>8 DEF LoginsInv

\* Every step of the logins.
LEMMA LoginsStep == LoginsInv /\ [Logins!Next]_(<<s1, s2, s3, s4, s5, s6>>) => LoginsInv'
<1> SUFFICES ASSUME LoginsInv, [Logins!Next]_(<<s1, s2, s3, s4, s5, s6>>) PROVE LoginsInv'
  OBVIOUS
<1>1. CASE \E c \in LoginClients : Logins!LoginStep(c)
  BY <1>1, CountStep, VerifyStep, RecordFailureStep, IssueStep DEF Logins!LoginStep
<1>2. CASE (\E s \in Tokens : Logins!Logout(s)) \/ Logins!Disable \/ Logins!Enable
  BY <1>2, SessionStep
<1>3. CASE Logins!Tick
  BY <1>3, LoginTick
<1>4. CASE UNCHANGED <<s1, s2, s3, s4, s5, s6>>
  <2>1. s1 \in BOOLEAN /\ s5 \in BOOLEAN
    BY LoginTypes DEF LoginsInv
  <2> QED
    BY <1>4, <2>1, SessionsEnd
<1> QED
  BY <1>1, <1>2, <1>3, <1>4 DEF Logins!Next

\* What the invariant says of the states.
LEMMA LoginsClaim ==
  ASSUME LoginsInv
  PROVE  /\ Logins!TypeOK /\ Logins!GuessesBounded
         /\ Logins!DisableEndsSessions /\ Logins!LateSessionsBounded
<1>1. s6 \in Counts
  BY LoginTypes DEF LoginsInv
<1>2. Logins!GuessesBounded
  <2>1. Sum(s6, LoginWindow) \in Nat
    BY SumType, Bounds
  <2>2. Sum(s6, LoginWindow) <= Limit + Cardinality(LoginClients) - 1
    BY <2>1, Steps, Bounds DEF LoginsInv, Room
  <2> QED
    BY <1>1, <2>2, SameCounts DEF Logins!GuessesBounded
<1>3. Logins!DisableEndsSessions
  BY DEF LoginsInv, OldIsOver, Logins!DisableEndsSessions, Logins!Valid
<1>4. Logins!LateSessionsBounded
  <2>1. Logins!LateSessions = LateSessions(s3) /\ Logins!LateLogins = LateLogins(s4)
    BY DEF Logins!LateSessions, LateSessions, Logins!LateLogins, LateLogins
  <2> QED
    BY <2>1, SameCounts DEF LoginsInv, LateOK, Logins!LateSessionsBounded
<1> QED
  BY <1>2, <1>3, <1>4 DEF LoginsInv

-----------------------------------------------------------------------------
(* The members.  The theorems about Membership, for the clients and users  *)
(* of each case.                                                           *)

MembersP == INSTANCE MembershipProofs WITH
    Clients <- {Client}, user <- s1, orgs <- s2, member <- s3, req <- s4
TogetherP == INSTANCE MembershipProofs WITH
    Users <- FewUsers, user <- s1, orgs <- s2, member <- s3, req <- s4

\* The steps and the first states of Members.
LEMMA SameMembers ==
  (Members!Init => MembersP!Init) /\ (Members!Next => MembersP!Next)
<1>1. Members!Init => MembersP!Init
    BY DEF Members!Init, MembersP!Init, Members!Idle, MembersP!Idle,
           Members!NoMember, MembersP!NoMember
<1>2. ASSUME NEW c \in {Client}, Members!Step(c) PROVE MembersP!Step(c)
  <2>1. Members!Begin(c) => MembersP!Begin(c)
    BY DEF Members!Begin, MembersP!Begin, Members!At, MembersP!At,
           Members!Authorised, MembersP!Authorised, Members!May, MembersP!May,
           Members!ActiveMember, MembersP!ActiveMember, Members!Ops, MembersP!Ops,
           Members!Roles, MembersP!Roles
  <2>2. Members!Lookup(c) => MembersP!Lookup(c)
    BY DEF Members!Lookup, MembersP!Lookup, Members!At, MembersP!At, Members!Go,
           MembersP!Go, Members!Done, MembersP!Done, Members!Idle, MembersP!Idle
  <2>3. Members!CreateUser(c) => MembersP!CreateUser(c)
    BY DEF Members!CreateUser, MembersP!CreateUser, Members!At, MembersP!At,
           Members!Go, MembersP!Go, Members!Done, MembersP!Done, Members!Idle,
           MembersP!Idle
  <2>4. Members!CreateOrganisation(c) => MembersP!CreateOrganisation(c)
    BY DEF Members!CreateOrganisation, MembersP!CreateOrganisation, Members!At,
           MembersP!At, Members!Go, MembersP!Go, Members!Done, MembersP!Done,
           Members!Idle, MembersP!Idle
  <2>5. Members!AddMember(c) => MembersP!AddMember(c)
    BY DEF Members!AddMember, MembersP!AddMember, Members!At, MembersP!At,
           Members!Done, MembersP!Done, Members!Idle, MembersP!Idle
  <2>6. Members!Check(c) => MembersP!Check(c)
    BY DEF Members!Check, MembersP!Check, Members!At, MembersP!At, Members!Go,
           MembersP!Go, Members!Done, MembersP!Done, Members!Idle, MembersP!Idle,
           Members!ActiveMember, MembersP!ActiveMember, Members!OthersOwn,
           MembersP!OthersOwn, Members!Owners, MembersP!Owners
  <2>7. Members!SetRole(c) => MembersP!SetRole(c)
    BY DEF Members!SetRole, MembersP!SetRole, Members!At, MembersP!At, Members!Done,
           MembersP!Done, Members!Idle, MembersP!Idle
  <2>8. Members!Remove(c) => MembersP!Remove(c)
    BY DEF Members!Remove, MembersP!Remove, Members!At, MembersP!At, Members!Done,
           MembersP!Done, Members!Idle, MembersP!Idle
  <2>9. Members!SetStatus(c) => MembersP!SetStatus(c)
    BY DEF Members!SetStatus, MembersP!SetStatus, Members!At, MembersP!At,
           Members!Done, MembersP!Done, Members!Idle, MembersP!Idle
  <2> QED
    BY <1>2, <2>1, <2>2, <2>3, <2>4, <2>5, <2>6, <2>7, <2>8, <2>9
       DEF Members!Step, MembersP!Step
<1>3. Members!Crash => MembersP!Crash
    BY DEF Members!Crash, MembersP!Crash, Members!At, MembersP!At, Members!Idle,
           MembersP!Idle
<1> QED
  BY <1>1, <1>2, <1>3 DEF Members!Next, MembersP!Next

\* The steps and the first states of Together.
LEMMA SameTogether ==
  (Together!Init => TogetherP!Init) /\ (Together!Next => TogetherP!Next)
<1>1. Together!Init => TogetherP!Init
    BY DEF Together!Init, TogetherP!Init, Together!Idle, TogetherP!Idle,
           Together!NoMember, TogetherP!NoMember
<1>2. ASSUME NEW c \in Clients, Together!Step(c) PROVE TogetherP!Step(c)
  <2>1. Together!Begin(c) => TogetherP!Begin(c)
    BY DEF Together!Begin, TogetherP!Begin, Together!At, TogetherP!At,
           Together!Authorised, TogetherP!Authorised, Together!May, TogetherP!May,
           Together!ActiveMember, TogetherP!ActiveMember, Together!Ops,
           TogetherP!Ops, Together!Roles, TogetherP!Roles
  <2>2. Together!Lookup(c) => TogetherP!Lookup(c)
    BY DEF Together!Lookup, TogetherP!Lookup, Together!At, TogetherP!At,
           Together!Go, TogetherP!Go, Together!Done, TogetherP!Done, Together!Idle,
           TogetherP!Idle
  <2>3. Together!CreateUser(c) => TogetherP!CreateUser(c)
    BY DEF Together!CreateUser, TogetherP!CreateUser, Together!At, TogetherP!At,
           Together!Go, TogetherP!Go, Together!Done, TogetherP!Done, Together!Idle,
           TogetherP!Idle
  <2>4. Together!CreateOrganisation(c) => TogetherP!CreateOrganisation(c)
    BY DEF Together!CreateOrganisation, TogetherP!CreateOrganisation, Together!At,
           TogetherP!At, Together!Go, TogetherP!Go, Together!Done, TogetherP!Done,
           Together!Idle, TogetherP!Idle
  <2>5. Together!AddMember(c) => TogetherP!AddMember(c)
    BY DEF Together!AddMember, TogetherP!AddMember, Together!At, TogetherP!At,
           Together!Done, TogetherP!Done, Together!Idle, TogetherP!Idle
  <2>6. Together!Check(c) => TogetherP!Check(c)
    BY DEF Together!Check, TogetherP!Check, Together!At, TogetherP!At, Together!Go,
           TogetherP!Go, Together!Done, TogetherP!Done, Together!Idle,
           TogetherP!Idle, Together!ActiveMember, TogetherP!ActiveMember,
           Together!OthersOwn, TogetherP!OthersOwn, Together!Owners,
           TogetherP!Owners
  <2>7. Together!SetRole(c) => TogetherP!SetRole(c)
    BY DEF Together!SetRole, TogetherP!SetRole, Together!At, TogetherP!At,
           Together!Done, TogetherP!Done, Together!Idle, TogetherP!Idle
  <2>8. Together!Remove(c) => TogetherP!Remove(c)
    BY DEF Together!Remove, TogetherP!Remove, Together!At, TogetherP!At,
           Together!Done, TogetherP!Done, Together!Idle, TogetherP!Idle
  <2>9. Together!SetStatus(c) => TogetherP!SetStatus(c)
    BY DEF Together!SetStatus, TogetherP!SetStatus, Together!At, TogetherP!At,
           Together!Done, TogetherP!Done, Together!Idle, TogetherP!Idle
  <2> QED
    BY <1>2, <2>1, <2>2, <2>3, <2>4, <2>5, <2>6, <2>7, <2>8, <2>9
       DEF Together!Step, TogetherP!Step
<1>3. Together!Crash => TogetherP!Crash
    BY DEF Together!Crash, TogetherP!Crash, Together!At, TogetherP!At,
           Together!Idle, TogetherP!Idle
<1> QED
  BY <1>1, <1>2, <1>3 DEF Together!Next, TogetherP!Next

-----------------------------------------------------------------------------
\* The invariants of the parts these properties are about.
PartsInv ==
    /\ part = "members"  => MembersP!IInv /\ MembersP!StillOwned
    /\ part = "together" => TogetherP!IInv
    /\ part = "scans"    => ScansInv
    /\ part = "logins"   => LoginsInv

\* Each part starts in its invariant.
LEMMA PartsInit == Init => PartsInv
<1> SUFFICES ASSUME Init PROVE PartsInv
  OBVIOUS
<1>1. /\ part = "members" => MembersP!Init
      /\ part = "together" => TogetherP!Init
      /\ part = "scans" => Scans!Init
      /\ part = "logins" => Logins!Init
  BY SameMembers, SameTogether DEF Init
<1> QED
  BY <1>1, ScansInit, LoginsInit, MembersP!InitHolds, TogetherP!InitHolds DEF PartsInv

\* Every step keeps them, and does to the members what is promised.
LEMMA PartsStep ==
  ASSUME PartsInv, [Next]_vars
  PROVE  /\ PartsInv'
         /\ [/\ part = "members"  => Members!LastOwnerProtected
             /\ part = "together" => Together!RemovalSticks]_vars
<1>1. part' = part
  BY DEF Next, vars
<1>2. CASE part = "members"
  <2>1. /\ MembersP!IInv /\ MembersP!StillOwned /\ MembersP!OneClient
        /\ [MembersP!Next]_(MembersP!vars)
    BY <1>2, SameMembers DEF PartsInv, Next, vars, MembersP!vars, MembersP!OneClient
  <2>2. MembersP!IInv'
    BY <2>1, MembersP!StepHolds
  <2>3. MembersP!StillOwned' /\ [MembersP!LastOwnerProtected]_(MembersP!vars)
    BY <2>1, MembersP!OwnerStep
  <2>4. [Members!LastOwnerProtected]_vars
    BY <1>2, <2>3 DEF MembersP!vars, vars, Next, Members!LastOwnerProtected,
                      MembersP!LastOwnerProtected, Members!Owners, MembersP!Owners,
                      Members!ActiveMember, MembersP!ActiveMember
  <2> QED
    BY <1>1, <1>2, <2>2, <2>3, <2>4 DEF PartsInv
<1>3. CASE part = "together"
  <2>1. TogetherP!IInv /\ [TogetherP!Next]_(TogetherP!vars)
    BY <1>3, SameTogether DEF PartsInv, Next, vars, TogetherP!vars
  <2>2. TogetherP!IInv' /\ [TogetherP!RemovalSticks]_(TogetherP!vars)
    BY <2>1, TogetherP!StepHolds
  <2>3. [Together!RemovalSticks]_vars
    BY <1>3, <2>2 DEF TogetherP!vars, vars, Together!RemovalSticks, TogetherP!RemovalSticks,
                      Together!At, TogetherP!At
  <2> QED
    BY <1>1, <1>3, <2>2, <2>3 DEF PartsInv
<1>4. CASE part = "scans"
  <2>1. [Scans!Next]_(<<s1, s2, s3, s4, s5>>)
    BY <1>4 DEF Next, vars
  <2> QED
    BY <1>1, <1>4, <2>1, ScansStep DEF PartsInv
<1>5. CASE part = "logins"
  <2>1. [Logins!Next]_(<<s1, s2, s3, s4, s5, s6>>)
    BY <1>5 DEF Next, vars
  <2> QED
    BY <1>1, <1>5, <2>1, LoginsStep DEF PartsInv
<1> QED
  BY <1>1, <1>2, <1>3, <1>4, <1>5 DEF PartsInv

\* What the invariants say of the states.
LEMMA PartsClaim ==
  PartsInv => /\ ScansReportOnce /\ LoginsSafe
              /\ part = "members"  => Members!TypeOK /\ Members!MembersExist
              /\ part = "together" => Together!TypeOK
<1>1. /\ MembersP!IInv => MembersP!TypeOK /\ MembersP!MembersExist
      /\ TogetherP!IInv => TogetherP!TypeOK
  BY DEF MembersP!IInv, TogetherP!IInv
<1>2. /\ MembersP!TypeOK => Members!TypeOK
      /\ MembersP!MembersExist => Members!MembersExist
      /\ TogetherP!TypeOK => Together!TypeOK
  BY DEF Members!TypeOK, MembersP!TypeOK, Members!MembersExist, MembersP!MembersExist,
         Together!TypeOK, TogetherP!TypeOK, Members!Roles, MembersP!Roles, Members!Ops,
         MembersP!Ops, Members!Idle, MembersP!Idle, Together!Roles, TogetherP!Roles,
         Together!Ops, TogetherP!Ops, Together!Idle, TogetherP!Idle
<1> QED
  BY <1>1, <1>2, ScansClaim, LoginsClaim DEF PartsInv, ScansReportOnce, LoginsSafe

\* The invariants of these parts hold in every reachable state.
THEOREM PartsInvariant == Spec => []PartsInv
<1>1. PartsInv /\ [Next]_vars => PartsInv'
  BY PartsStep
<1> QED
  BY <1>1, PartsInit, PTL DEF Spec

\* For any signals, attempts and limits, over restarts and retries: one scan of the
\* organisation is outstanding at most, and what it reports as new is what the
\* previous successful scan had not.
THEOREM ScansOnce == Spec => []ScansReportOnce
BY PartsInvariant, PartsClaim, PTL

\* For any number of overlapping logins, sessions, limit and windows: the wrong
\* passwords looked at in a window stay bounded, and a disable ends every session.
THEOREM LoginsAreSafe == Spec => []LoginsSafe
BY PartsInvariant, PartsClaim, PTL

\* For any users and organisations: with one request at a time the last owner stays,
\* and for any number of clients a removal sticks.
THEOREM Memberships == Spec => MembershipKept
<1>1. PartsInv /\ [Next]_vars => [/\ part = "members"  => Members!LastOwnerProtected
                                  /\ part = "together" => Together!RemovalSticks]_vars
  BY PartsStep
<1> QED
  BY <1>1, PartsClaim, PartsInvariant, PTL DEF Spec, MembershipKept

-----------------------------------------------------------------------------
(* The limiter.  Its variables are s1, the clock, s2, the limiters built,  *)
(* s3, whether one is configured, s4, the hits each has of each key, s5,   *)
(* the threads, s6, the admissions in the window, and s7, the promises.    *)
(*                                                                         *)
(* Each admission in the window has a hit of its own, of its moment, in    *)
(* one of the limiters.  A limiter has Quota hits of a key at most, so     *)
(* that the admissions are at most Quota times the limiters.               *)

\* Numbers and the order below them.
Below == {p \in Nat \X Nat : p[1] < p[2]}
\* The order is well-founded ...
LEMMA Founded == IsWellFoundedOn(Below, Nat)
<1>1. IsWellFoundedOn(OpToRel(<, Nat), Nat)
  BY NatLessThanWellFounded, Zenon
<1>2. OpToRel(<, Nat) = Below
  BY Zenon DEF OpToRel, Below
<1> QED
  BY Zenon, <1>1, <1>2
\* ... so that a set of numbers has a least one.
LEMMA HasLeast ==
  ASSUME NEW S \in SUBSET Nat, S # {}
  PROVE  \E m \in S : \A n \in S : m <= n
<1>1. PICK m \in S : \A n \in S : <<n, m>> \notin Below
  BY Founded, WFMin
<1> SUFFICES ASSUME NEW n \in S, ~ (m <= n) PROVE FALSE
  BY <1>1
<1>2. n \in Nat /\ m \in Nat /\ n < m
  OBVIOUS
<1>3. <<n, m>> \in Nat \X Nat /\ <<n, m>>[1] < <<n, m>>[2]
  BY <1>2
<1>4. <<n, m>> \in Below
  BY <1>3 DEF Below
<1> QED
  BY <1>1, <1>4

\* The hits of one key in each limiter, as pairs of a limiter and a place.
Places(H) == {p \in (DOMAIN H) \X (1 .. Quota) : p[2] <= Len(H[p[1]])}
\* The ways in which each of the admissions S has a hit of its own.
Backing(S, H) == {f \in Injection(S, Places(H)) : \A a \in S : H[f[a][1]][f[a][2]] = a[1]}

Moments == 1 .. MaxClock

LEMMA LimitsOK ==
  /\ Quota \in Nat /\ Quota > 0 /\ Window \in Nat /\ Window > 0
  /\ MaxKeys \in Nat /\ MaxKeys > 0 /\ MaxClock \in Nat /\ MaxClock > 0
BY LimiterAssumption

\* Fewer admissions have their hits.
LEMMA BackedLess ==
  ASSUME NEW S, NEW H, Backing(S, H) # {}, NEW R \in SUBSET S
  PROVE  Backing(R, H) # {}
<1>1. PICK f \in Backing(S, H) : TRUE
  OBVIOUS
<1> DEFINE g == [a \in R |-> f[a]]
<1>2. g \in Injection(R, Places(H))
  BY <1>1 DEF Backing, Injection, IsInjective
<1>3. g \in Backing(R, H)
  BY <1>1, <1>2 DEF Backing
<1> QED
  BY <1>3

\* None has none.
LEMMA BackedEmpty ==
  ASSUME NEW H
  PROVE  Backing({}, H) # {}
<1> DEFINE g == [a \in {} |-> a]
<1>1. g \in Backing({}, H)
  BY DEF Backing, Injection, IsInjective
<1> QED
  BY <1>1

\* What is left of a sequence without its first elements.
LEMMA Suffix ==
  ASSUME NEW A, NEW s \in Seq(A), NEW i \in 1 .. Len(s) + 1
  PROVE  /\ SubSeq(s, i, Len(s)) \in Seq(A)
         /\ Len(SubSeq(s, i, Len(s))) = Len(s) + 1 - i
         /\ \A j \in 1 .. Len(s) - i + 1 : SubSeq(s, i, Len(s))[j] = s[i + j - 1]
<1>1. Len(s) \in Nat
  OBVIOUS
<1>2. i \in Int /\ Len(s) \in Int /\ \A j \in i .. Len(s) : s[j] \in A
  BY <1>1, ElementOfSeq
<1>3. /\ SubSeq(s, i, Len(s)) \in Seq(A)
      /\ Len(SubSeq(s, i, Len(s))) = IF i <= Len(s) THEN Len(s) - i + 1 ELSE 0
      /\ \A j \in 1 .. Len(s) - i + 1 : SubSeq(s, i, Len(s))[j] = s[i + j - 1]
  BY <1>2, SubSeqProperties
<1>4. Len(SubSeq(s, i, Len(s))) = Len(s) + 1 - i
  BY ONLY <1>1, <1>3, i \in 1 .. Len(s) + 1
<1> QED
  BY <1>3, <1>4

\* Hits of before the window are dropped at the front.
LEMMA BackedPruned ==
  ASSUME NEW n \in Nat, NEW H \in [1 .. n -> Seq(Moments)], NEW l \in 1 .. n,
         NEW S \in SUBSET (Moments \X Nat), Backing(S, H) # {},
         NEW i \in 1 .. Len(H[l]) + 1,
         \A j \in 1 .. i - 1 : \A a \in S : H[l][j] # a[1],
         NEW G, G = [H EXCEPT ![l] = SubSeq(H[l], i, Len(H[l]))]
  PROVE  Backing(S, G) # {}
<1>1. PICK f \in Backing(S, H) : TRUE
  OBVIOUS
<1> DEFINE h == H[l]
           q == G[l]
           g == [a \in S |-> IF f[a][1] = l THEN <<l, f[a][2] - (i - 1)>> ELSE f[a]]
<1>2. h \in Seq(Moments) /\ Len(h) \in Nat /\ \A j \in 1 .. Len(h) : h[j] \in Moments
  OBVIOUS
<1>3. q = SubSeq(h, i, Len(h))
  OBVIOUS
<1>4. /\ i \in Int /\ Len(h) \in Int
      /\ \A j \in i .. Len(h) : h[j] \in Moments
  BY <1>2
<1>5. /\ Len(q) = Len(h) + 1 - i
      /\ \A j \in 1 .. Len(h) - i + 1 : q[j] = h[i + j - 1]
  <2>1. h \in Seq(Moments) /\ i \in 1 .. Len(h) + 1
    BY <1>2
  <2> HIDE DEF h
  <2>2. /\ Len(SubSeq(h, i, Len(h))) = Len(h) + 1 - i
        /\ \A j \in 1 .. Len(h) - i + 1 : SubSeq(h, i, Len(h))[j] = h[i + j - 1]
    BY ONLY <2>1, Suffix
  <2> HIDE DEF q
  <2> QED
    BY ONLY <1>3, <2>2
<1>6. ASSUME NEW a \in S
      PROVE  /\ f[a] \in (1 .. n) \X (1 .. Quota) /\ f[a][2] <= Len(H[f[a][1]])
             /\ H[f[a][1]][f[a][2]] = a[1] /\ f[a] = <<f[a][1], f[a][2]>>
  <2>1. f \in [S -> Places(H)] /\ H[f[a][1]][f[a][2]] = a[1]
    BY <1>1 DEF Backing, Injection
  <2>2. f[a] \in (DOMAIN H) \X (1 .. Quota) /\ f[a][2] <= Len(H[f[a][1]])
    BY <2>1 DEF Places
  <2> QED
    BY <2>1, <2>2
<1>7. ASSUME NEW a \in S, f[a][1] = l
      PROVE  /\ f[a][2] - (i - 1) \in 1 .. Quota /\ f[a][2] - (i - 1) <= Len(q)
             /\ q[f[a][2] - (i - 1)] = a[1]
  <2>1. f[a][2] \in 1 .. Quota /\ f[a][2] <= Len(h) /\ h[f[a][2]] = a[1]
    BY <1>6, <1>7
  <2>2. ~ (f[a][2] <= i - 1)
    BY <2>1
  <2>3. f[a][2] - (i - 1) \in 1 .. Quota /\ f[a][2] - (i - 1) <= Len(h) + 1 - i
    <3> DEFINE d == f[a][2]
               c == Len(h)
    <3>1. d \in Int /\ i \in Int /\ Quota \in Int /\ c \in Int
      BY <1>2, <1>4, <2>1, LimitsOK
    <3>2. 1 <= i /\ 1 <= d /\ d <= Quota /\ d <= c /\ i - 1 < d
      BY <1>2, <1>4, <2>1, <2>2, LimitsOK
    <3> HIDE DEF d, c
    <3>3. d - (i - 1) \in 1 .. Quota /\ d - (i - 1) <= c + 1 - i
      BY ONLY <3>1, <3>2
    <3> QED
      BY <3>3 DEF d, c
  <2>4. q[f[a][2] - (i - 1)] = h[i + (f[a][2] - (i - 1)) - 1]
    BY <1>2, <1>5, <2>3
  <2>5. i + (f[a][2] - (i - 1)) - 1 = f[a][2]
    BY <2>1
  <2> QED
    BY <1>5, <2>1, <2>3, <2>4, <2>5
<1>8. DOMAIN G = 1 .. n /\ \A x \in 1 .. n : x # l => G[x] = H[x]
  OBVIOUS
<1>9. ASSUME NEW a \in S
      PROVE  g[a] \in Places(G) /\ G[g[a][1]][g[a][2]] = a[1]
  <2>1. CASE f[a][1] = l
    <3>1. g[a] = <<l, f[a][2] - (i - 1)>>
      BY <2>1
    <3> HIDE DEF g, q
    <3>2. g[a] \in (1 .. n) \X (1 .. Quota) /\ g[a][1] = l /\ g[a][2] = f[a][2] - (i - 1)
      BY <1>7, <2>1, <3>1
    <3>3. g[a][2] <= Len(q) /\ q[g[a][2]] = a[1]
      BY <1>7, <2>1, <3>2
    <3> QED
      BY <1>8, <3>2, <3>3 DEF Places, q
  <2>2. CASE f[a][1] # l
    <3>1. g[a] = f[a]
      BY <2>2
    <3> QED
      BY <1>6, <1>8, <2>2, <3>1 DEF Places
  <2> QED
    BY <2>1, <2>2
<1>10. ASSUME NEW a \in S, NEW b \in S, g[a] = g[b] PROVE a = b
  <2>1. f[a] = f[b]
    <3>1. CASE f[a][1] = l /\ f[b][1] = l
      <4>1. f[a][2] - (i - 1) = f[b][2] - (i - 1)
        BY <1>10, <3>1
      <4>2. /\ f[a][2] \in Int /\ f[b][2] \in Int /\ i \in Int
            /\ f[a] = <<f[a][1], f[a][2]>> /\ f[b] = <<f[b][1], f[b][2]>>
        <5>1. f[a] \in (1 .. n) \X (1 .. Quota) /\ f[b] \in (1 .. n) \X (1 .. Quota)
          BY <1>6
        <5>2. \A p \in (1 .. n) \X (1 .. Quota) : p[2] \in Int /\ p = <<p[1], p[2]>>
          OBVIOUS
        <5>3. i \in Int
          BY <1>4
        <5>4. f[a][2] \in Int /\ f[a] = <<f[a][1], f[a][2]>>
          BY ONLY <5>1, <5>2, Zenon
        <5>5. f[b][2] \in Int /\ f[b] = <<f[b][1], f[b][2]>>
          BY ONLY <5>1, <5>2, Zenon
        <5> QED
          BY ONLY <5>3, <5>4, <5>5, Zenon
      <4>3. f[a][2] = f[b][2]
        BY ONLY <4>1, <4>2, SMTT(40)
      <4> QED
        BY <3>1, <4>2, <4>3
    <3>2. CASE ~ (f[a][1] = l /\ f[b][1] = l)
      <4>1. \A y \in S : /\ f[y][1] = l => g[y][1] = l
                         /\ f[y][1] # l => g[y] = f[y]
        OBVIOUS
      <4> HIDE DEF g
      <4> QED
        BY <1>10, <3>2, <4>1, Zenon
    <3> QED
      BY <3>1, <3>2
  <2> QED
    BY <1>1, <2>1 DEF Backing, Injection, IsInjective
<1>11. g \in Injection(S, Places(G))
  BY <1>9, <1>10 DEF Injection, IsInjective
<1>12. g \in Backing(S, G)
  BY <1>9, <1>11 DEF Backing
<1> QED
  BY <1>12

\* An admission is recorded with its hit.
LEMMA BackedMore ==
  ASSUME NEW n \in Nat, NEW H \in [1 .. n -> Seq(Moments)], NEW l \in 1 .. n,
         NEW S, Backing(S, H) # {}, NEW m \in Moments,
         NEW x, x \notin S, x[1] = m, Len(H[l]) < Quota
  PROVE  Backing(S \cup {x}, [H EXCEPT ![l] = Append(H[l], m)]) # {}
<1> SUFFICES ASSUME NEW G, G = [H EXCEPT ![l] = Append(H[l], m)]
             PROVE  Backing(S \cup {x}, G) # {}
  OBVIOUS
<1>1. PICK f \in Backing(S, H) : TRUE
  OBVIOUS
<1> DEFINE h == H[l]
           q == G[l]
           new == <<l, Len(h) + 1>>
           g == [a \in S \cup {x} |-> IF a = x THEN new ELSE f[a]]
<1>2. h \in Seq(Moments) /\ Len(h) \in Nat
  OBVIOUS
<1>3. q = Append(h, m)
  OBVIOUS
<1>4. /\ Len(q) = Len(h) + 1 /\ q[Len(h) + 1] = m
      /\ \A j \in 1 .. Len(h) : q[j] = h[j]
  BY <1>2, <1>3, AppendProperties
<1>5. ASSUME NEW a \in S
      PROVE  /\ f[a] \in (1 .. n) \X (1 .. Quota) /\ f[a][2] <= Len(H[f[a][1]])
             /\ H[f[a][1]][f[a][2]] = a[1] /\ f[a] = <<f[a][1], f[a][2]>>
  BY <1>1 DEF Backing, Injection, Places
<1>6. DOMAIN G = 1 .. n /\ \A y \in 1 .. n : y # l => G[y] = H[y]
  OBVIOUS
<1>7. new \in Places(G) /\ G[new[1]][new[2]] = m
  BY <1>2, <1>4, <1>6, LimitsOK DEF Places
<1>8. ASSUME NEW a \in S
      PROVE  f[a] \in Places(G) /\ G[f[a][1]][f[a][2]] = a[1] /\ f[a] # new
  <2>1. CASE f[a][1] = l
    <3>1. f[a][2] \in 1 .. Len(h) /\ h[f[a][2]] = a[1] /\ f[a] \in (1 .. n) \X (1 .. Quota)
      BY <1>2, <1>5, <2>1
    <3> HIDE DEF h
    <3>2. f[a][2] <= Len(q) /\ q[f[a][2]] = a[1] /\ f[a][2] # Len(h) + 1
      BY <1>2, <1>4, <3>1
    <3> QED
      BY <1>6, <2>1, <3>1, <3>2 DEF Places
  <2>2. CASE f[a][1] # l
    BY <1>5, <1>6, <2>2 DEF Places
  <2> QED
    BY <2>1, <2>2
<1>9. \A a, b \in S : f[a] = f[b] => a = b
  BY <1>1 DEF Backing, Injection, IsInjective
<1> HIDE DEF new
<1>10. \A a \in S \cup {x} : g[a] \in Places(G) /\ G[g[a][1]][g[a][2]] = a[1]
  BY <1>7, <1>8
<1>11. \A a, b \in S \cup {x} : g[a] = g[b] => a = b
  BY <1>8, <1>9
<1>12. g \in Injection(S \cup {x}, Places(G))
  BY <1>10, <1>11 DEF Injection, IsInjective
<1>13. g \in Backing(S \cup {x}, G)
  BY <1>10, <1>12 DEF Backing
<1> QED
  BY <1>13

\* There are no more of them than hits, in the limiters there are.
LEMMA BackedBound ==
  ASSUME NEW n \in Nat, NEW H \in [1 .. n -> Seq(Moments)], NEW b \in 0 .. n,
         \A l \in 1 .. n : H[l] # <<>> => l <= b,
         NEW S, Backing(S, H) # {}
  PROVE  IsFiniteSet(S) /\ Cardinality(S) <= Quota * b
<1>1. PICK f \in Backing(S, H) : TRUE
  OBVIOUS
<1> DEFINE P == (1 .. b) \X (1 .. Quota)
<1>2. IsFiniteSet(P) /\ Cardinality(P) = b * Quota
  <2>1. IsFiniteSet(1 .. b) /\ Cardinality(1 .. b) = b
    BY FS_Interval
  <2>2. IsFiniteSet(1 .. Quota) /\ Cardinality(1 .. Quota) = Quota
    BY FS_Interval, LimitsOK
  <2> DEFINE A == 1 .. b
             B == 1 .. Quota
  <2>3. IsFiniteSet(A) /\ Cardinality(A) = b /\ IsFiniteSet(B) /\ Cardinality(B) = Quota
    BY <2>1, <2>2
  <2> HIDE DEF A, B
  <2>4. IsFiniteSet(A \X B) /\ Cardinality(A \X B) = Cardinality(A) * Cardinality(B)
    BY <2>3, FS_Product
  <2> QED
    BY <2>3, <2>4 DEF A, B
<1>3. ASSUME NEW a \in S PROVE f[a] \in P
  <2>1. f[a] \in (1 .. n) \X (1 .. Quota) /\ f[a][2] <= Len(H[f[a][1]])
    BY <1>1 DEF Backing, Injection, Places
  <2>2. H[f[a][1]] # <<>>
    BY <2>1
  <2> QED
    BY <2>1, <2>2
<1>4. f \in Injection(S, P)
  BY <1>1, <1>3 DEF Backing, Injection, IsInjective
<1>5. b * Quota = Quota * b
  BY LimitsOK
<1> QED
  BY <1>2, <1>4, <1>5, FS_Injection

-----------------------------------------------------------------------------
(* The limiter of the threads T and the keys K.                            *)

HitsOf(T, k) == [l \in 1 .. Cardinality(T) |-> s4[l][k]]
AtPc(T, pc)  == {t \in T : s5[t].pc = pc}

LimiterTypes(T, K) ==
    /\ s1 \in Moments
    /\ s2 \in 0 .. Cardinality(T) /\ s3 \in BOOLEAN
    /\ s4 \in [1 .. Cardinality(T) -> [K -> Seq(Moments)]]
    /\ s5 \in [T -> [pc : {"idle", "build", "configure", "get", "check"},
                     key : K, moment : 0 .. MaxClock, use : 0 .. Cardinality(T)]]
    /\ s6 \in [K -> SUBSET (Moments \X Nat)]
    /\ s7 \in [K -> Nat]

\* Who builds a limiter has found none that is configured, so that a thread builds one
\* at most; who checks has one, and has read the clock.
Building(T) ==
    /\ s3 => s2 >= 1 /\ s2 + Cardinality(AtPc(T, "build")) <= Cardinality(T)
    /\ ~ s3 => s2 = Cardinality(AtPc(T, "configure"))
    /\ \A t \in T : s5[t].pc \in {"get", "check"} => s3
    /\ \A t \in T : s5[t].pc = "check" => s5[t].moment \in 1 .. s1 /\ s5[t].use \in 1 .. s2

\* Hits are of a limiter that is built, and at most the quota of a key.
HitsOK(T, K) ==
    \A l \in 1 .. Cardinality(T), k \in K :
        Len(s4[l][k]) <= Quota /\ (s4[l][k] # <<>> => l <= s2)

\* Admissions of a moment are counted through ...
Through(S) == \A a \in S : a[2] <= Cardinality({b \in S : b[1] = a[1]})
\* ... and in the window.
Numbered(K) ==
    \A k \in K : Through(s6[k]) /\ \A a \in s6[k] : a[1] + Window > s1

HitsBehind(T, K) == \A k \in K : Backing(s6[k], HitsOf(T, k)) # {}

TrackedBy(K, l) == {k \in K : s4[l][k] # <<>>}
FewTracked(T, K) == \A l \in 1 .. Cardinality(T) : Cardinality(TrackedBy(K, l)) <= MaxKeys

LimiterInv(T, K) ==
    /\ LimiterTypes(T, K) /\ Building(T) /\ HitsOK(T, K) /\ Numbered(K) /\ HitsBehind(T, K)
    /\ FewTracked(T, K)

\* What the constants are.
Served(T, K) == IsFiniteSet(T) /\ IsFiniteSet(K) /\ K # {}

\* The instance counts as we do.
LEMMA SameCount ==
  ASSUME NEW T, NEW K, NEW S
  PROVE  Limiter(T, K)!Cardinality(S) = Cardinality(S)
BY DEF Limiter!Cardinality, Cardinality

\* What is popped is a prefix, the hits that are out of the window.
LEMMA PrunedIs ==
  ASSUME NEW T, NEW K, NEW s \in Seq(Moments), NEW m \in Nat
  PROVE  \E i \in 1 .. Len(s) + 1 :
            /\ Limiter(T, K)!Pruned(s, m) = SubSeq(s, i, Len(s))
            /\ \A j \in 1 .. i - 1 : s[j] + Window <= m
            /\ i <= Len(s) => s[i] + Window > m
<1> DEFINE cutoff == m - Window
           Good(n) == /\ \A i \in 1 .. n : s[i] <= cutoff
                      /\ n < Len(s) => s[n + 1] > cutoff
           late == {j \in 1 .. Len(s) : s[j] > cutoff}
<1>1. /\ Len(s) \in Nat /\ \A j \in 1 .. Len(s) : s[j] \in Nat
      /\ cutoff \in Int /\ Window \in Nat
  BY LimitsOK DEF Moments
<1>2. \E n \in 0 .. Len(s) : Good(n)
  <2>1. CASE late = {}
    BY <1>1, <2>1, SMTT(40)
  <2>2. CASE late # {}
    <3>1. late \in SUBSET Nat
      OBVIOUS
    <3>2. PICK x \in late : \A y \in late : x <= y
      BY <2>2, <3>1, HasLeast
    <3>3. x - 1 \in 0 .. Len(s) /\ x \in 1 .. Len(s) /\ s[x] > cutoff
      BY <3>2
    <3>4. ASSUME NEW j \in 1 .. x - 1 PROVE s[j] <= cutoff
      <4>1. j \in 1 .. Len(s) /\ j \notin late
        BY <1>1, <3>2, <3>3
      <4> QED
        BY <1>1, <4>1
    <3>5. x - 1 + 1 = x
      BY <3>3
    <3> QED
      BY <3>3, <3>4, <3>5
  <2> QED
    BY <2>1, <2>2
<1> DEFINE n == CHOOSE n \in 0 .. Len(s) : Good(n)
<1>3. n \in 0 .. Len(s) /\ Good(n)
  BY <1>2
<1>4. Limiter(T, K)!Pruned(s, m) = SubSeq(s, n + 1, Len(s))
  BY DEF Limiter!Pruned, Limiter!Popped
<1> HIDE DEF n
<1>5. n + 1 \in 1 .. Len(s) + 1 /\ n + 1 - 1 = n
  BY <1>1, <1>3
<1>6. \A j \in 1 .. n : s[j] + Window <= m
  BY <1>1, <1>3
<1>7. n + 1 <= Len(s) => s[n + 1] + Window > m
  BY <1>1, <1>3
<1>8. PICK i : i = n + 1
  OBVIOUS
<1>9. i \in 1 .. Len(s) + 1 /\ i - 1 = n
  <2>1. n + 1 \in 1 .. Len(s) + 1 /\ n \in Int /\ i = n + 1
    BY <1>1, <1>3, <1>5, <1>8
  <2> QED
    BY <2>1
<1>10. \A j \in 1 .. i - 1 : s[j] + Window <= m
  BY <1>6, <1>9
<1>11. Limiter(T, K)!Pruned(s, m) = SubSeq(s, i, Len(s)) /\ (i <= Len(s) => s[i] + Window > m)
  BY <1>4, <1>7, <1>8
<1> QED
  BY <1>9, <1>10, <1>11

\* A check: whom it evicts, what it pops, and whether it admits.
CheckBy(T, K, t, victim, i) ==
    LET l == s5[t].use   k == s5[t].key   m == s5[t].moment
        h == s4[l][k]
        live == SubSeq(h, i, Len(h))
        rest == [v \in K |-> IF v \in victim THEN <<>> ELSE s4[l][v]]
        gone == [v \in K |-> IF v \in victim THEN {} ELSE s6[v]]
        told == [v \in K |-> IF v \in victim THEN 0 ELSE s7[v]]
    IN  /\ i \in 1 .. Len(h) + 1
        /\ \A j \in 1 .. i - 1 : h[j] + Window <= m
        /\ i <= Len(h) => h[i] + Window > m
        /\ \/ victim = {} /\ (h # <<>> \/ Cardinality(TrackedBy(K, l)) < MaxKeys)
           \/ h = <<>> /\ \E v \in TrackedBy(K, l) : victim = {v}
        /\ s5' = [s5 EXCEPT ![t] = Limiter(T, K)!Waiting]
        /\ \/ /\ Len(live) >= Quota
              /\ s4' = [s4 EXCEPT ![l] = [rest EXCEPT ![k] = live]]
              /\ s7' = [told EXCEPT ![k] = Head(live) + Window]
              /\ s6' = gone
           \/ /\ Len(live) < Quota
              /\ s4' = [s4 EXCEPT ![l] = [rest EXCEPT ![k] = Append(live, m)]]
              /\ s6' = [gone EXCEPT ![k] =
                            Limiter(T, K)!Recent(Limiter(T, K)!Counted(@, m), s1)]
              /\ s7' = [told EXCEPT ![k] = 0]
        /\ UNCHANGED <<s1, s2, s3>>

\* Of finitely many keys that are tracked one has the oldest last hit.
LEMMA OldestIs ==
  ASSUME NEW T, NEW K, NEW l, NEW V \in SUBSET K, V # {},
         \A v \in V : Limiter(T, K)!LastHit(l, v) \in Nat
  PROVE  \E v \in V : \A o \in V : Limiter(T, K)!LastHit(l, v) <= Limiter(T, K)!LastHit(l, o)
<1> DEFINE Of(v) == Limiter(T, K)!LastHit(l, v)
           lasts == {Of(v) : v \in V}
<1> HIDE DEF Of
<1>1. \A v \in V : Of(v) \in Nat
  BY DEF Of
<1>2. lasts \in SUBSET Nat /\ lasts # {}
  BY <1>1
<1>3. PICK x \in lasts : \A y \in lasts : x <= y
  BY <1>2, HasLeast
<1>4. \E v \in V : \A o \in V : Of(v) <= Of(o)
  BY <1>3
<1> QED
  BY <1>4 DEF Of

LEMMA CheckIs ==
  ASSUME NEW T, NEW K, Served(T, K), LimiterInv(T, K), NEW t \in T, Limiter(T, K)!Check(t)
  PROVE  \E victim \in SUBSET K, i \in Nat : CheckBy(T, K, t, victim, i)
<1> DEFINE l == s5[t].use
           k == s5[t].key
           m == s5[t].moment
           h == s4[l][k]
           vs == Limiter(T, K)!Victims(l, k)
<1>1. /\ l \in 1 .. Cardinality(T) /\ k \in K /\ m \in Nat /\ h \in Seq(Moments) /\ Len(h) \in Nat
      /\ s4[l] \in [K -> Seq(Moments)]
  BY DEF LimiterInv, LimiterTypes, Building, Limiter!Check
<1>2. Limiter(T, K)!Tracked(l) = TrackedBy(K, l)
  BY DEF Limiter!Tracked, TrackedBy
<1>3. PICK i \in 1 .. Len(h) + 1 :
          /\ Limiter(T, K)!Pruned(h, m) = SubSeq(h, i, Len(h))
          /\ \A j \in 1 .. i - 1 : h[j] + Window <= m
          /\ i <= Len(h) => h[i] + Window > m
  BY <1>1, PrunedIs
<1>4. IsFiniteSet(TrackedBy(K, l)) /\ Cardinality(TrackedBy(K, l)) \in Nat
  BY FS_Subset, FS_CardinalityType DEF Served, TrackedBy
<1>5. ASSUME vs = {}
      PROVE  h # <<>> \/ Cardinality(TrackedBy(K, l)) < MaxKeys
  <2> SUFFICES ASSUME h = <<>>, ~ (Cardinality(TrackedBy(K, l)) < MaxKeys) PROVE FALSE
    OBVIOUS
  <2>1. Cardinality(TrackedBy(K, l)) # 0 /\ Cardinality(TrackedBy(K, l)) >= MaxKeys
    BY <1>4, LimitsOK
  <2>2. TrackedBy(K, l) # {}
    BY <2>1, FS_EmptySet
  <2>3. ASSUME NEW v \in TrackedBy(K, l) PROVE Limiter(T, K)!LastHit(l, v) \in Nat
    <3>1. s4[l][v] \in Seq(Moments) /\ s4[l][v] # <<>>
      BY <1>1 DEF TrackedBy
    <3>2. Len(s4[l][v]) \in 1 .. Len(s4[l][v])
      BY <3>1, EmptySeq
    <3>3. s4[l][v][Len(s4[l][v])] \in Moments
      BY <3>1, <3>2, ElementOfSeq
    <3> QED
      BY <3>3 DEF Limiter!LastHit, Moments
  <2>4. PICK v \in TrackedBy(K, l) : \A o \in TrackedBy(K, l) :
              Limiter(T, K)!LastHit(l, v) <= Limiter(T, K)!LastHit(l, o)
    <3>1. TrackedBy(K, l) \in SUBSET K
      BY DEF TrackedBy
    <3> QED
      BY <2>2, <2>3, <3>1, OldestIs
  <2>5. v \in vs
    BY <1>2, <2>1, <2>4, SameCount DEF Limiter!Victims, Limiter!Full
  <2> QED
    BY <1>5, <2>5
<1>6. ASSUME NEW v \in vs
      PROVE  v \in TrackedBy(K, l) /\ h = <<>>
  BY <1>2, <1>6 DEF Limiter!Victims
<1>7. PICK victim \in SUBSET K :
          /\ Limiter(T, K)!Decide(t, victim)
          /\ \/ victim = {} /\ vs = {}
             \/ \E v \in vs : victim = {v}
  <2>1. \A v \in vs : v \in K
    BY <1>6 DEF TrackedBy
  <2>2. \/ vs = {} /\ Limiter(T, K)!Decide(t, {})
        \/ \E v \in vs : Limiter(T, K)!Decide(t, {v})
    BY DEF Limiter!Check
  <2> QED
    BY <2>1, <2>2
<1>8. \/ victim = {} /\ (h # <<>> \/ Cardinality(TrackedBy(K, l)) < MaxKeys)
      \/ h = <<>> /\ \E v \in TrackedBy(K, l) : victim = {v}
  BY <1>5, <1>6, <1>7
<1>9. UNCHANGED <<s1, s2, s3>>
  BY DEF Limiter!Check
<1> DEFINE live == SubSeq(h, i, Len(h))
<1>10. Len(live) \in Nat /\ Limiter(T, K)!Pruned(h, m) = live /\ i \in Nat
  <2>1. h \in Seq(Moments) /\ i \in 1 .. Len(h) + 1
    BY <1>1
  <2> HIDE DEF h
  <2>2. SubSeq(h, i, Len(h)) \in Seq(Moments)
    BY ONLY <2>1, Suffix
  <2> QED
    BY <1>3, <2>2
<1> DEFINE P == Limiter(T, K)!Pruned(h, m)
           rest == [v \in K |-> IF v \in victim THEN <<>> ELSE s4[l][v]]
           gone == [v \in K |-> IF v \in victim THEN {} ELSE s6[v]]
           told == [v \in K |-> IF v \in victim THEN 0 ELSE s7[v]]
<1>11. CASE Len(live) >= Quota
  <2>1. Limiter(T, K)!OverQuota(P)
    BY <1>10, <1>11 DEF Limiter!OverQuota
  <2>2. /\ s5' = [s5 EXCEPT ![t] = Limiter(T, K)!Waiting]
        /\ s4' = [s4 EXCEPT ![l] = [rest EXCEPT ![k] = P]]
        /\ s7' = [told EXCEPT ![k] = Head(P) + Window]
        /\ s6' = gone
    BY <1>7, <2>1, Zenon DEF Limiter!Decide
  <2>3. /\ s5' = [s5 EXCEPT ![t] = Limiter(T, K)!Waiting]
        /\ s4' = [s4 EXCEPT ![l] = [rest EXCEPT ![k] = live]]
        /\ s7' = [told EXCEPT ![k] = Head(live) + Window]
        /\ s6' = gone
    BY <1>10, <2>2, Zenon
  <2> QED
    BY <1>3, <1>8, <1>9, <1>10, <1>11, <2>3, Zenon DEF CheckBy
<1>12. CASE Len(live) < Quota
  <2>1. ~ Limiter(T, K)!OverQuota(P)
    BY <1>10, <1>12, LimitsOK DEF Limiter!OverQuota
  <2>2. /\ s5' = [s5 EXCEPT ![t] = Limiter(T, K)!Waiting]
        /\ s4' = [s4 EXCEPT ![l] = [rest EXCEPT ![k] = Append(P, m)]]
        /\ s7' = [told EXCEPT ![k] = 0]
        /\ s6' = [gone EXCEPT ![k] =
                     Limiter(T, K)!Recent(Limiter(T, K)!Counted(@, m), s1)]
    BY <1>7, <2>1, Zenon DEF Limiter!Decide
  <2>3. s4' = [s4 EXCEPT ![l] = [rest EXCEPT ![k] = Append(live, m)]]
    BY <1>10, <2>2, Zenon
  <2> QED
    BY <1>3, <1>8, <1>9, <1>10, <1>12, <2>2, <2>3, Zenon DEF CheckBy
<1> HIDE DEF live
<1>13. Len(live) >= Quota \/ Len(live) < Quota
  BY <1>10, LimitsOK
<1> QED
  BY <1>10, <1>11, <1>12, <1>13

\* Steps that leave hits, admissions and the clock alone.
LEMMA LimiterStays ==
  ASSUME NEW T, NEW K, Served(T, K), LimiterInv(T, K), LimiterTypes(T, K)',
         s1' = s1, s4' = s4, s6' = s6, s7' = s7, s2' >= s2
  PROVE  HitsOK(T, K)' /\ Numbered(K)' /\ HitsBehind(T, K)' /\ FewTracked(T, K)'
<1>1. HitsOK(T, K)'
  <2> SUFFICES ASSUME NEW l \in 1 .. Cardinality(T), NEW k \in K
               PROVE  Len(s4[l][k]) <= Quota /\ (s4[l][k] # <<>> => l <= s2')
    BY DEF HitsOK
  <2>1. Len(s4[l][k]) <= Quota /\ (s4[l][k] # <<>> => l <= s2)
    BY DEF LimiterInv, HitsOK
  <2>2. s2 \in Int /\ s2' \in Int
    BY DEF LimiterInv, LimiterTypes
  <2> QED
    BY <2>1, <2>2
<1>2. HitsBehind(T, K)'
  BY DEF LimiterInv, HitsBehind, HitsOf
<1> QED
  BY <1>1, <1>2 DEF LimiterInv, Numbered, FewTracked, TrackedBy

\* Threads that are at a step, after one of them has moved.
LEMMA PcMoves ==
  ASSUME NEW T, IsFiniteSet(T), NEW t \in T, NEW x, NEW pc,
         s5' = [s5 EXCEPT ![t] = x], s5 = [v \in T |-> s5[v]]
  PROVE  /\ IsFiniteSet(AtPc(T, pc)) /\ Cardinality(AtPc(T, pc)) \in Nat
         /\ Cardinality(AtPc(T, pc)') = Cardinality(AtPc(T, pc))
               + (IF x.pc = pc /\ s5[t].pc # pc THEN 1
                  ELSE IF x.pc # pc /\ s5[t].pc = pc THEN -1 ELSE 0)
<1>1. IsFiniteSet(AtPc(T, pc)) /\ Cardinality(AtPc(T, pc)) \in Nat
  BY FS_Subset, FS_CardinalityType DEF AtPc
<1>2. s5'[t] = x /\ \A v \in T : v # t => s5'[v] = s5[v]
  OBVIOUS
<1>3. CASE x.pc = pc /\ s5[t].pc # pc
  <2>1. AtPc(T, pc)' = AtPc(T, pc) \cup {t} /\ t \notin AtPc(T, pc)
    BY <1>2, <1>3 DEF AtPc
  <2> QED
    BY <1>1, <1>3, <2>1, FS_AddElement
<1>4. CASE x.pc # pc /\ s5[t].pc = pc
  <2>1. AtPc(T, pc)' = AtPc(T, pc) \ {t} /\ t \in AtPc(T, pc)
    BY <1>2, <1>4 DEF AtPc
  <2>2. Cardinality(AtPc(T, pc)') = Cardinality(AtPc(T, pc)) - 1
    BY <1>1, <2>1, FS_RemoveElement
  <2> QED
    BY <1>1, <1>4, <2>2
<1>5. CASE x.pc = pc <=> s5[t].pc = pc
  <2>1. AtPc(T, pc)' = AtPc(T, pc)
    BY <1>2, <1>5 DEF AtPc
  <2> QED
    BY <1>1, <1>5, <2>1
<1> QED
  BY <1>1, <1>3, <1>4, <1>5

\* A request, a limiter that is built, its parameters, and the one that is got.
LEMMA LimiterThread ==
  ASSUME NEW T, NEW K, Served(T, K), LimiterInv(T, K), NEW t \in T,
         \/ Limiter(T, K)!Request(t) \/ Limiter(T, K)!Build(t)
         \/ Limiter(T, K)!Configure(t) \/ Limiter(T, K)!Get(t)
  PROVE  LimiterInv(T, K)' /\ s4' = s4 /\ s7' = s7 /\ s2' >= s2
<1>1. /\ LimiterTypes(T, K) /\ Building(T) /\ IsFiniteSet(T) /\ Cardinality(T) \in Nat
  BY FS_CardinalityType DEF LimiterInv, Served
<1>2. s5 = [v \in T |-> s5[v]] /\ s2 \in Nat
  BY <1>1 DEF LimiterTypes
<1>3. /\ Cardinality(AtPc(T, "build")) + Cardinality(AtPc(T, "configure")) <= Cardinality(T)
      /\ Cardinality(AtPc(T, "build")) \in Nat /\ Cardinality(AtPc(T, "configure")) \in Nat
  <2> DEFINE A == AtPc(T, "build")
             B == AtPc(T, "configure")
  <2>1. A \in SUBSET T /\ B \in SUBSET T /\ A \cap B = {} /\ A \cup B \in SUBSET T
    BY DEF AtPc
  <2> HIDE DEF A, B
  <2>2. /\ IsFiniteSet(A) /\ IsFiniteSet(B) /\ Cardinality(A) \in Nat /\ Cardinality(B) \in Nat
        /\ Cardinality(A \cup B) <= Cardinality(T)
    BY <1>1, <2>1, FS_Subset, FS_CardinalityType
  <2>3. Cardinality(A \cup B) = Cardinality(A) + Cardinality(B) - 0
    BY <2>1, <2>2, FS_Union, FS_EmptySet
  <2>4. Cardinality(A) + Cardinality(B) <= Cardinality(T)
    BY <2>2, <2>3
  <2> QED
    BY <2>2, <2>4 DEF A, B
<1>4. CASE Limiter(T, K)!Request(t)
  <2>1. PICK k \in K : s5' = [s5 EXCEPT ![t] =
            [pc |-> IF s2 = 0 \/ ~ s3 THEN "build" ELSE "get", key |-> k, moment |-> 0, use |-> 0]]
    BY <1>4 DEF Limiter!Request
  <2> DEFINE x == [pc |-> IF s2 = 0 \/ ~ s3 THEN "build" ELSE "get",
                   key |-> k, moment |-> 0, use |-> 0]
  <2>2. /\ s1' = s1 /\ s2' = s2 /\ s3' = s3 /\ s4' = s4 /\ s6' = s6 /\ s7' = s7
        /\ s5[t].pc = "idle" /\ s5' = [s5 EXCEPT ![t] = x]
    BY <1>4, <2>1 DEF Limiter!Request
  <2>3. LimiterTypes(T, K)'
    <3>1. x \in [pc : {"idle", "build", "configure", "get", "check"},
                key : K, moment : 0 .. MaxClock, use : 0 .. Cardinality(T)]
      BY <1>1, LimitsOK
    <3> HIDE DEF x
    <3> QED
      BY <1>1, <2>2, <3>1 DEF LimiterTypes
  <2>4. Cardinality(AtPc(T, "configure")') = Cardinality(AtPc(T, "configure"))
    BY <1>1, <1>2, <1>3, <2>2, PcMoves
  <2>5. s3 => Cardinality(AtPc(T, "build")') = Cardinality(AtPc(T, "build"))
    <3>1. s3 => x.pc # "build"
      BY <1>1 DEF Building
    <3> QED
      BY <1>1, <1>2, <1>3, <2>2, <3>1, PcMoves
  <2>6. /\ s5'[t].pc \in {"build", "get"} /\ (s5'[t].pc = "get" => s3)
        /\ \A v \in T : v # t => s5'[v] = s5[v]
    BY <1>2, <2>2
  <2>7. Building(T)'
    BY <1>1, <2>2, <2>4, <2>5, <2>6 DEF Building
  <2> QED
    BY <1>2, <2>2, <2>3, <2>7, LimiterStays DEF LimiterInv
<1>5. CASE Limiter(T, K)!Build(t)
  <2> DEFINE x == [s5[t] EXCEPT !.pc = "configure"]
  <2>1. /\ s1' = s1 /\ s2' = s2 + 1 /\ s3' = s3 /\ s4' = s4 /\ s6' = s6 /\ s7' = s7
        /\ s5[t].pc = "build" /\ s5' = [s5 EXCEPT ![t] = x]
    BY <1>5 DEF Limiter!Build
  <2>2. x.pc = "configure"
    BY <1>1 DEF LimiterTypes
  <2>3. /\ Cardinality(AtPc(T, "configure")') = Cardinality(AtPc(T, "configure")) + 1
        /\ Cardinality(AtPc(T, "build")') = Cardinality(AtPc(T, "build")) - 1
    <3> HIDE DEF x
    <3>1. "configure" # "build"
      OBVIOUS
    <3>2. Cardinality(AtPc(T, "configure")') = Cardinality(AtPc(T, "configure")) + 1
      BY <1>1, <1>2, <1>3, <2>1, <2>2, PcMoves
    <3>3. Cardinality(AtPc(T, "build")') = Cardinality(AtPc(T, "build")) + (-1)
      BY <1>1, <1>2, <1>3, <2>1, <2>2, PcMoves
    <3> QED
      BY <1>3, <3>2, <3>3
  <2>4. t \in AtPc(T, "build")
    BY <2>1 DEF AtPc
  <2>5. Cardinality(AtPc(T, "build")) # 0
    BY <1>1, <2>4, FS_Subset, FS_EmptySet DEF AtPc
  <2>6. s2' \in 0 .. Cardinality(T)
    <3>1. CASE s3
      BY <1>1, <1>2, <1>3, <2>1, <2>5, <3>1 DEF Building
    <3>2. CASE ~ s3
      BY <1>1, <1>2, <1>3, <2>1, <2>5, <3>2 DEF Building
    <3> QED
      BY <3>1, <3>2
  <2>7. LimiterTypes(T, K)'
    BY <1>1, <2>1, <2>6 DEF LimiterTypes
  <2>8. s5'[t].pc = "configure" /\ \A v \in T : v # t => s5'[v] = s5[v]
    BY <1>2, <2>1, <2>2
  <2>9. Building(T)'
    <3>1. /\ s3' => s2' >= 1 /\ s2' + Cardinality(AtPc(T, "build")') <= Cardinality(T)
          /\ ~ s3' => s2' = Cardinality(AtPc(T, "configure")')
      BY <1>1, <1>2, <1>3, <2>1, <2>3 DEF Building
    <3>2. \A v \in T : s5'[v].pc \in {"get", "check"} => s3'
      BY <1>1, <2>1, <2>8 DEF Building
    <3>3. \A v \in T : s5'[v].pc = "check" => s5'[v].moment \in 1 .. s1' /\ s5'[v].use \in 1 .. s2'
      <4> SUFFICES ASSUME NEW v \in T, s5'[v].pc = "check"
                   PROVE  s5'[v].moment \in 1 .. s1' /\ s5'[v].use \in 1 .. s2'
        OBVIOUS
      <4>1. s5'[v] = s5[v] /\ s5[v].moment \in 1 .. s1 /\ s5[v].use \in 1 .. s2
        BY <1>1, <2>8 DEF Building
      <4> QED
        BY <1>2, <2>1, <4>1
    <3> QED
      BY <3>1, <3>2, <3>3 DEF Building
  <2> QED
    BY <1>2, <2>1, <2>7, <2>9, LimiterStays DEF LimiterInv
<1>6. CASE Limiter(T, K)!Configure(t)
  <2> DEFINE x == [s5[t] EXCEPT !.pc = "get"]
  <2>1. /\ s1' = s1 /\ s2' = s2 /\ s3' = TRUE /\ s4' = s4 /\ s6' = s6 /\ s7' = s7
        /\ s5[t].pc = "configure" /\ s5' = [s5 EXCEPT ![t] = x]
    BY <1>6 DEF Limiter!Configure
  <2>2. x.pc = "get"
    BY <1>1 DEF LimiterTypes
  <2>3. Cardinality(AtPc(T, "build")') = Cardinality(AtPc(T, "build"))
    <3> HIDE DEF x
    <3> QED
      BY <1>1, <1>2, <1>3, <2>1, <2>2, PcMoves
  <2>4. t \in AtPc(T, "configure")
    BY <2>1 DEF AtPc
  <2>5. Cardinality(AtPc(T, "configure")) # 0
    BY <1>1, <2>4, FS_Subset, FS_EmptySet DEF AtPc
  <2>6. s2 >= 1 /\ s2 + Cardinality(AtPc(T, "build")) <= Cardinality(T)
    <3>1. CASE s3
      BY <1>1, <3>1 DEF Building
    <3>2. CASE ~ s3
      BY <1>1, <1>2, <1>3, <2>5, <3>2 DEF Building
    <3> QED
      BY <3>1, <3>2
  <2>7. LimiterTypes(T, K)'
    BY <1>1, <2>1 DEF LimiterTypes
  <2>8. s5'[t].pc = "get" /\ \A v \in T : v # t => s5'[v] = s5[v]
    BY <1>2, <2>1, <2>2
  <2>9. Building(T)'
    BY <1>1, <2>1, <2>3, <2>6, <2>8 DEF Building
  <2> QED
    BY <1>2, <2>1, <2>7, <2>9, LimiterStays DEF LimiterInv
<1>7. CASE Limiter(T, K)!Get(t)
  <2> DEFINE x == [s5[t] EXCEPT !.pc = "check", !.moment = s1, !.use = s2]
  <2>1. /\ s1' = s1 /\ s2' = s2 /\ s3' = s3 /\ s4' = s4 /\ s6' = s6 /\ s7' = s7
        /\ s5[t].pc = "get" /\ s5' = [s5 EXCEPT ![t] = x]
    BY <1>1, <1>7 DEF Limiter!Get, LimiterTypes
  <2>2. x.pc = "check" /\ x.moment = s1 /\ x.use = s2 /\ x.key = s5[t].key
    BY <1>1 DEF LimiterTypes
  <2>3. /\ Cardinality(AtPc(T, "build")') = Cardinality(AtPc(T, "build"))
        /\ Cardinality(AtPc(T, "configure")') = Cardinality(AtPc(T, "configure"))
    <3> HIDE DEF x
    <3> QED
      BY <1>1, <1>2, <1>3, <2>1, <2>2, PcMoves
  <2>4. s3 /\ s2 >= 1 /\ s1 \in 1 .. s1 /\ s2 \in 1 .. s2 /\ s1 \in 0 .. MaxClock
    BY <1>1, <1>2, <2>1, LimitsOK DEF Building, LimiterTypes, Moments
  <2>5. LimiterTypes(T, K)'
    BY <1>1, <2>1, <2>4 DEF LimiterTypes
  <2>6. s5'[t] = x /\ \A v \in T : v # t => s5'[v] = s5[v]
    BY <1>2, <2>1
  <2>7. Building(T)'
    <3> HIDE DEF x
    <3> QED
      BY <1>1, <2>1, <2>2, <2>3, <2>4, <2>6 DEF Building
  <2> QED
    BY <1>2, <2>1, <2>5, <2>7, LimiterStays DEF LimiterInv
<1> QED
  BY <1>4, <1>5, <1>6, <1>7

\* What stays of a history.
LEMMA RecentKeeps ==
  ASSUME NEW T, NEW K, NEW S, Through(S), NEW now
  PROVE  LET R == Limiter(T, K)!Recent(S, now) IN
         R \in SUBSET S /\ Through(R) /\ \A a \in R : a[1] + Window > now
<1> DEFINE R == Limiter(T, K)!Recent(S, now)
<1>1. R = {a \in S : a[1] + Window > now}
  BY DEF Limiter!Recent
<1>2. ASSUME NEW a \in R PROVE {b \in R : b[1] = a[1]} = {b \in S : b[1] = a[1]}
  BY <1>1
<1>3. Through(R)
  BY <1>1, <1>2 DEF Through
<1> QED
  BY <1>1, <1>3

\* What comes to it is new.
LEMMA CountedKeeps ==
  ASSUME NEW T, NEW K, NEW S \in SUBSET (Moments \X Nat), IsFiniteSet(S), Through(S),
         NEW m \in Moments
  PROVE  \E x \in Moments \X Nat :
            /\ x \notin S /\ x[1] = m
            /\ Limiter(T, K)!Counted(S, m) = S \cup {x} /\ Through(S \cup {x})
<1> DEFINE Of(R, n) == {b \in R : b[1] = n}
           c == Cardinality(Of(S, m))
           x == <<m, 1 + c>>
<1>1. \A n : IsFiniteSet(Of(S, n)) /\ Cardinality(Of(S, n)) \in Nat
  BY FS_Subset, FS_CardinalityType
<1>2. Limiter(T, K)!Counted(S, m) = S \cup {x}
  BY SameCount DEF Limiter!Counted
<1>3. c \in Nat /\ x \in Moments \X Nat /\ x[1] = m /\ x[2] = 1 + c
  <2> HIDE DEF Of
  <2>1. c \in Nat
    BY <1>1
  <2> HIDE DEF c
  <2> QED
    BY <2>1
<1>4. x \notin S
  <2> SUFFICES ASSUME x \in S PROVE FALSE
    OBVIOUS
  <2>1. x[2] <= c
    BY <1>3 DEF Through
  <2> QED
    BY <1>3, <2>1
<1>5. Of(S \cup {x}, m) = Of(S, m) \cup {x} /\ x \notin Of(S, m)
  BY <1>3, <1>4
<1> HIDE DEF x
<1>6. Cardinality(Of(S \cup {x}, m)) = c + 1
  <2> HIDE DEF Of
  <2> QED
    BY <1>1, <1>5, FS_AddElement
<1>7. \A n : n # m => Of(S \cup {x}, n) = Of(S, n)
  BY <1>3
<1>8. ASSUME NEW a \in S \cup {x} PROVE a[2] <= Cardinality(Of(S \cup {x}, a[1]))
  <2>1. CASE a = x
    BY <1>3, <1>6, <2>1
  <2>2. CASE a \in S /\ a[1] = m
    <3>1. a[2] <= c /\ a[2] \in Nat
      BY <2>2 DEF Through
    <3> QED
      BY <1>3, <1>6, <2>2, <3>1
  <2>3. CASE a \in S /\ a[1] # m
    BY <1>7, <2>3 DEF Through
  <2> QED
    BY <1>8, <2>1, <2>2, <2>3
<1>9. Through(S \cup {x})
  BY <1>8 DEF Through
<1> QED
  BY <1>2, <1>3, <1>4, <1>9

\* Time passes.
LEMMA LimiterTick ==
  ASSUME NEW T, NEW K, Served(T, K), LimiterInv(T, K), Limiter(T, K)!Tick
  PROVE  LimiterInv(T, K)' /\ s4' = s4 /\ s7' = s7
<1>1. /\ s1' = s1 + 1 /\ s1 < MaxClock /\ s2' = s2 /\ s3' = s3 /\ s4' = s4 /\ s5' = s5 /\ s7' = s7
      /\ s6' = [k \in K |-> Limiter(T, K)!Recent(s6[k], s1 + 1)]
  BY DEF Limiter!Tick
<1>2. s1 \in Nat /\ s1' \in Moments
  BY <1>1, LimitsOK DEF LimiterInv, LimiterTypes, Moments
<1>3. \A k \in K : /\ s6'[k] \in SUBSET s6[k] /\ Through(s6'[k])
                   /\ \A a \in s6'[k] : a[1] + Window > s1'
  BY <1>1, RecentKeeps DEF LimiterInv, Numbered
<1>4. LimiterTypes(T, K)'
  <2>1. s6' \in [K -> SUBSET (Moments \X Nat)]
    BY <1>1, <1>3 DEF LimiterInv, LimiterTypes
  <2> QED
    BY <1>1, <1>2, <2>1 DEF LimiterInv, LimiterTypes
<1>5. Building(T)'
  <2>1. AtPc(T, "build")' = AtPc(T, "build") /\ AtPc(T, "configure")' = AtPc(T, "configure")
    BY <1>1 DEF AtPc
  <2>2. ASSUME NEW t \in T, s5[t].pc = "check"
        PROVE  s5[t].moment \in 1 .. s1' /\ s5[t].use \in 1 .. s2
    <3>1. s5[t].moment \in 1 .. s1 /\ s5[t].use \in 1 .. s2
      BY <2>2 DEF LimiterInv, Building
    <3> QED
      BY <1>1, <1>2, <3>1
  <2> QED
    BY <1>1, <2>1, <2>2 DEF LimiterInv, Building
<1>6. HitsOK(T, K)' /\ FewTracked(T, K)'
  BY <1>1 DEF LimiterInv, HitsOK, FewTracked, TrackedBy
<1>7. Numbered(K)'
  BY <1>3 DEF Numbered
<1>8. HitsBehind(T, K)'
  <2>1. ASSUME NEW k \in K PROVE Backing(s6'[k], HitsOf(T, k)') # {}
    <3>1. HitsOf(T, k)' = HitsOf(T, k)
      BY <1>1 DEF HitsOf
    <3>2. Backing(s6[k], HitsOf(T, k)) # {}
      BY DEF LimiterInv, HitsBehind
    <3> QED
      BY <1>3, <3>1, <3>2, BackedLess
  <2> QED
    BY <2>1 DEF HitsBehind
<1> QED
  BY <1>1, <1>4, <1>5, <1>6, <1>7, <1>8 DEF LimiterInv

\* What a check leaves behind: the key's hits, of which the old ones are gone and to
\* which one may have come; the others' as they were, but for the victim's.
CheckEffect(T, K, l, k, m, victim, i, live, new) ==
    /\ l \in 1 .. Cardinality(T) /\ l <= s2 /\ k \in K /\ m \in Moments /\ m <= s1
    /\ k \notin victim /\ s4[l][k] \in Seq(Moments) /\ i \in 1 .. Len(s4[l][k]) + 1
    /\ live = SubSeq(s4[l][k], i, Len(s4[l][k])) /\ live \in Seq(Moments)
    /\ Len(live) = Len(s4[l][k]) + 1 - i /\ Len(s4[l][k]) <= Quota
    /\ new = s4'[l][k] /\ new \in Seq(Moments) /\ Len(new) <= Quota
    /\ s4' \in [1 .. Cardinality(T) -> [K -> Seq(Moments)]]
    /\ \A x \in 1 .. Cardinality(T) : x # l => s4'[x] = s4[x]
    /\ \A v \in K : v # k =>
          /\ s4'[l][v] = (IF v \in victim THEN <<>> ELSE s4[l][v])
          /\ s6'[v] = (IF v \in victim THEN {} ELSE s6[v])
          /\ s7'[v] = (IF v \in victim THEN 0 ELSE s7[v])
    /\ \/ /\ Len(live) >= Quota /\ new = live
          /\ s6'[k] = s6[k] /\ s7'[k] = live[1] + Window
       \/ /\ Len(live) < Quota /\ new = Append(live, m) /\ s7'[k] = 0
          /\ s6'[k] = Limiter(T, K)!Recent(Limiter(T, K)!Counted(s6[k], m), s1)
    /\ s7' \in [K -> Nat] /\ s6' = [v \in K |-> s6'[v]]

LEMMA CheckDoes ==
  ASSUME NEW T, NEW K, Served(T, K), LimiterInv(T, K), NEW t \in T, s5[t].pc = "check",
         NEW victim \in SUBSET K, NEW i \in Nat, CheckBy(T, K, t, victim, i)
  PROVE  \E live, new :
            CheckEffect(T, K, s5[t].use, s5[t].key, s5[t].moment, victim, i, live, new)
<1> DEFINE l == s5[t].use
           k == s5[t].key
           m == s5[t].moment
           h == s4[l][k]
           live == SubSeq(h, i, Len(h))
           new == s4'[l][k]
           rest == [v \in K |-> IF v \in victim THEN <<>> ELSE s4[l][v]]
           gone == [v \in K |-> IF v \in victim THEN {} ELSE s6[v]]
           told == [v \in K |-> IF v \in victim THEN 0 ELSE s7[v]]
<1>1. /\ l \in 1 .. Cardinality(T) /\ l <= s2 /\ k \in K /\ m \in 1 .. s1 /\ s1 \in 1 .. MaxClock
      /\ h \in Seq(Moments) /\ Len(h) \in Nat /\ Len(h) <= Quota
      /\ s4[l] \in [K -> Seq(Moments)] /\ s6 \in [K -> SUBSET (Moments \X Nat)] /\ s7 \in [K -> Nat]
      /\ s4 \in [1 .. Cardinality(T) -> [K -> Seq(Moments)]]
  <2>1. /\ s5[t].use \in 0 .. Cardinality(T) /\ s5[t].use \in 1 .. s2 /\ s5[t].key \in K
        /\ s5[t].moment \in 1 .. s1 /\ s1 \in Moments /\ s2 \in 0 .. Cardinality(T)
    BY DEF LimiterInv, LimiterTypes, Building
  <2>2. l \in 1 .. Cardinality(T) /\ l <= s2 /\ k \in K /\ m \in 1 .. s1 /\ s1 \in 1 .. MaxClock
    BY <2>1 DEF Moments
  <2>3. /\ s4 \in [1 .. Cardinality(T) -> [K -> Seq(Moments)]]
        /\ s6 \in [K -> SUBSET (Moments \X Nat)] /\ s7 \in [K -> Nat]
    BY DEF LimiterInv, LimiterTypes
  <2>4. h \in Seq(Moments) /\ Len(h) <= Quota
    BY <2>2, <2>3 DEF LimiterInv, HitsOK
  <2> QED
    BY <2>2, <2>3, <2>4
<1>2. m \in Moments /\ m <= s1
  BY <1>1, LimitsOK, SMTT(40) DEF Moments
<1>3. i \in 1 .. Len(h) + 1
  BY Zenon DEF CheckBy
<1>4. live \in Seq(Moments) /\ Len(live) = Len(h) + 1 - i
  <2>1. h \in Seq(Moments)
    BY Zenon, <1>1
  <2> HIDE DEF h
  <2> QED
    BY ONLY <1>3, <2>1, Suffix
<1>5. k \notin victim
  BY ZenonT(30) DEF CheckBy, TrackedBy
<1>6. rest \in [K -> Seq(Moments)] /\ told \in [K -> Nat]
  BY <1>1
<1>7. \/ /\ Len(live) >= Quota
         /\ s4' = [s4 EXCEPT ![l] = [rest EXCEPT ![k] = live]]
         /\ s7' = [told EXCEPT ![k] = Head(live) + Window]
         /\ s6' = gone
      \/ /\ Len(live) < Quota
         /\ s4' = [s4 EXCEPT ![l] = [rest EXCEPT ![k] = Append(live, m)]]
         /\ s6' = [gone EXCEPT ![k] =
                      Limiter(T, K)!Recent(Limiter(T, K)!Counted(@, m), s1)]
         /\ s7' = [told EXCEPT ![k] = 0]
  BY Zenon DEF CheckBy
<1> HIDE DEF l, k, m, h, live, new
<1>8. PICK n \in Seq(Moments) :
         /\ s4' = [s4 EXCEPT ![l] = [rest EXCEPT ![k] = n]]
         /\ \/ n = live /\ Len(live) >= Quota
            \/ n = Append(live, m) /\ Len(live) < Quota
  <2>1. Append(live, m) \in Seq(Moments)
    BY <1>2, <1>4, AppendProperties
  <2> QED
    BY <1>4, <1>7, <2>1
<1>9. /\ s4' \in [1 .. Cardinality(T) -> [K -> Seq(Moments)]]
      /\ \A x \in 1 .. Cardinality(T) : x # l => s4'[x] = s4[x]
      /\ s4'[l] = [rest EXCEPT ![k] = n]
  <2> HIDE DEF rest
  <2> QED
    BY <1>1, <1>6, <1>8
<1>10. n = new /\ \A v \in K : v # k => s4'[l][v] = (IF v \in victim THEN <<>> ELSE s4[l][v])
  BY <1>1, <1>9 DEF new
<1>11. Len(new) <= Quota
  <2>1. CASE n = live
    BY <1>1, <1>3, <1>4, <1>10, <2>1, LimitsOK
  <2>2. CASE n = Append(live, m) /\ Len(live) < Quota
    <3>1. Len(new) = Len(live) + 1 /\ Len(live) \in Nat
      BY <1>2, <1>4, <1>10, <2>2, AppendProperties
    <3> QED
      BY <2>2, <3>1, LimitsOK
  <2> QED
    BY <1>8, <2>1, <2>2
<1>12. /\ Len(live) \in Nat
       /\ Len(live) >= Quota => live # <<>> /\ Head(live) = live[1] /\ live[1] \in Nat
  <2>1. Len(live) \in Nat
    BY <1>4
  <2>2. ASSUME Len(live) >= Quota PROVE live # <<>> /\ Head(live) = live[1] /\ live[1] \in Nat
    <3>1. 1 \in 1 .. Len(live)
      BY <2>1, <2>2, LimitsOK
    <3>2. live[1] \in Moments
      BY <1>4, <3>1, ElementOfSeq
    <3> QED
      BY <1>4, <3>1, <3>2 DEF Moments
  <2> QED
    BY <2>1, <2>2
<1>13. /\ k \notin victim /\ s4[l][k] \in Seq(Moments) /\ i \in 1 .. Len(s4[l][k]) + 1
       /\ live = SubSeq(s4[l][k], i, Len(s4[l][k])) /\ live \in Seq(Moments)
       /\ Len(live) = Len(s4[l][k]) + 1 - i /\ Len(s4[l][k]) <= Quota
       /\ new = s4'[l][k] /\ new \in Seq(Moments) /\ Len(new) <= Quota
  BY <1>1, <1>3, <1>4, <1>5, <1>8, <1>10, <1>11, Zenon DEF h, live, new
<1>14. ASSUME Len(live) >= Quota
       PROVE  CheckEffect(T, K, l, k, m, victim, i, live, new)
  <2>1. /\ s4' = [s4 EXCEPT ![l] = [rest EXCEPT ![k] = live]]
        /\ s7' = [told EXCEPT ![k] = Head(live) + Window] /\ s6' = gone
    BY <1>7, <1>12, <1>14, LimitsOK
  <2>2. new = live
    BY <1>8, <1>10, <1>12, <1>14, LimitsOK
  <2>3. /\ s6'[k] = s6[k] /\ s6' = [v \in K |-> s6'[v]]
        /\ \A v \in K : v # k => s6'[v] = (IF v \in victim THEN {} ELSE s6[v])
    BY <1>1, <1>5, <2>1
  <2>4. Head(live) + Window \in Nat /\ Head(live) = live[1]
    BY <1>12, <1>14, LimitsOK
  <2>5. /\ s7'[k] = live[1] + Window /\ s7' \in [K -> Nat]
        /\ \A v \in K : v # k => s7'[v] = (IF v \in victim THEN 0 ELSE s7[v])
    <3>1. \A v \in K : told[v] = (IF v \in victim THEN 0 ELSE s7[v])
      OBVIOUS
    <3> HIDE DEF told
    <3> QED
      BY <1>1, <1>6, <2>1, <2>4, <3>1
  <2> QED
    BY <1>1, <1>2, <1>9, <1>10, <1>13, <1>14, <2>2, <2>3, <2>5 DEF CheckEffect
<1>15. ASSUME Len(live) < Quota
       PROVE  CheckEffect(T, K, l, k, m, victim, i, live, new)
  <2>1. /\ s6' = [gone EXCEPT ![k] = Limiter(T, K)!Recent(Limiter(T, K)!Counted(@, m), s1)]
        /\ s7' = [told EXCEPT ![k] = 0]
    BY <1>7, <1>12, <1>15, LimitsOK
  <2>2. new = Append(live, m)
    BY <1>8, <1>10, <1>12, <1>15, LimitsOK
  <2>3. /\ s7'[k] = 0 /\ s7' \in [K -> Nat] /\ s6' = [v \in K |-> s6'[v]]
        /\ s6'[k] = Limiter(T, K)!Recent(Limiter(T, K)!Counted(s6[k], m), s1)
        /\ \A v \in K : v # k => /\ s6'[v] = (IF v \in victim THEN {} ELSE s6[v])
                                 /\ s7'[v] = (IF v \in victim THEN 0 ELSE s7[v])
    BY <1>1, <1>5, <1>6, <2>1
  <2> QED
    BY <1>1, <1>2, <1>9, <1>10, <1>13, <1>15, <2>2, <2>3 DEF CheckEffect
<1>16. CheckEffect(T, K, l, k, m, victim, i, live, new)
  BY <1>12, <1>14, <1>15, LimitsOK
<1> QED
  BY <1>16 DEF l, k, m

\* A check, with names for what it works on: the limiter, the key and the moment.
LEMMA CheckFacts ==
  ASSUME NEW T, NEW K, Served(T, K), LimiterInv(T, K), NEW t \in T, Limiter(T, K)!Check(t)
  PROVE  \E l, k, m, victim, i, live, new :
            /\ l = s5[t].use /\ k = s5[t].key /\ m = s5[t].moment
            /\ victim \in SUBSET K
            /\ CheckEffect(T, K, l, k, m, victim, i, live, new)
            /\ \A j \in 1 .. i - 1 : s4[l][k][j] + Window <= m
            /\ i <= Len(s4[l][k]) => s4[l][k][i] + Window > m
            /\ \/ victim = {} /\ (s4[l][k] # <<>> \/ Cardinality(TrackedBy(K, l)) < MaxKeys)
               \/ s4[l][k] = <<>> /\ \E v \in TrackedBy(K, l) : victim = {v}
            /\ s5' = [s5 EXCEPT ![t] = Limiter(T, K)!Waiting]
            /\ UNCHANGED <<s1, s2, s3>>
<1>1. s5[t].pc = "check"
  BY DEF Limiter!Check
<1>2. PICK victim \in SUBSET K, i \in Nat : CheckBy(T, K, t, victim, i)
  BY CheckIs
<1>3. PICK live, new :
         CheckEffect(T, K, s5[t].use, s5[t].key, s5[t].moment, victim, i, live, new)
  BY <1>1, <1>2, CheckDoes
<1> QED
  BY Zenon, <1>2, <1>3 DEF CheckBy

\* There are finitely many admissions, no more than the hits.
LEMMA FewAdmissions ==
  ASSUME NEW T, NEW K, Served(T, K), LimiterInv(T, K), NEW k \in K
  PROVE  /\ HitsOf(T, k) \in [1 .. Cardinality(T) -> Seq(Moments)] /\ Cardinality(T) \in Nat
         /\ IsFiniteSet(s6[k]) /\ Cardinality(s6[k]) <= Quota * s2
<1>1. Cardinality(T) \in Nat /\ s2 \in 0 .. Cardinality(T)
  BY FS_CardinalityType DEF Served, LimiterInv, LimiterTypes
<1>2. HitsOf(T, k) \in [1 .. Cardinality(T) -> Seq(Moments)]
  BY DEF HitsOf, LimiterInv, LimiterTypes
<1>3. \A l \in 1 .. Cardinality(T) : HitsOf(T, k)[l] # <<>> => l <= s2
  BY DEF HitsOf, LimiterInv, HitsOK
<1>4. Backing(s6[k], HitsOf(T, k)) # {}
  BY DEF LimiterInv, HitsBehind
<1> QED
  BY <1>1, <1>2, <1>3, <1>4, BackedBound

\* A request is decided.
LEMMA LimiterCheck ==
  ASSUME NEW T, NEW K, Served(T, K), LimiterInv(T, K), NEW t \in T, Limiter(T, K)!Check(t)
  PROVE  LimiterInv(T, K)'
<1>1. PICK l, k, m, victim, i, live, new :
         /\ l = s5[t].use /\ k = s5[t].key /\ m = s5[t].moment
         /\ victim \in SUBSET K
         /\ CheckEffect(T, K, l, k, m, victim, i, live, new)
         /\ \A j \in 1 .. i - 1 : s4[l][k][j] + Window <= m
         /\ i <= Len(s4[l][k]) => s4[l][k][i] + Window > m
         /\ \/ victim = {} /\ (s4[l][k] # <<>> \/ Cardinality(TrackedBy(K, l)) < MaxKeys)
            \/ s4[l][k] = <<>> /\ \E v \in TrackedBy(K, l) : victim = {v}
         /\ s5' = [s5 EXCEPT ![t] = Limiter(T, K)!Waiting]
         /\ UNCHANGED <<s1, s2, s3>>
  BY CheckFacts
<1>2. /\ LimiterTypes(T, K) /\ Building(T) /\ IsFiniteSet(T) /\ Cardinality(T) \in Nat
      /\ s5 = [v \in T |-> s5[v]] /\ s2 \in Nat
  BY FS_CardinalityType DEF LimiterInv, Served, LimiterTypes
<1>3. /\ l \in 1 .. Cardinality(T) /\ l <= s2 /\ k \in K /\ m \in Moments /\ m <= s1
      /\ k \notin victim /\ s4[l][k] \in Seq(Moments) /\ i \in 1 .. Len(s4[l][k]) + 1
      /\ live = SubSeq(s4[l][k], i, Len(s4[l][k])) /\ live \in Seq(Moments)
      /\ Len(live) = Len(s4[l][k]) + 1 - i /\ Len(s4[l][k]) <= Quota
      /\ new = s4'[l][k] /\ new \in Seq(Moments) /\ Len(new) <= Quota
  BY ZenonT(30), <1>1 DEF CheckEffect
<1>4. /\ s4' \in [1 .. Cardinality(T) -> [K -> Seq(Moments)]]
      /\ \A x \in 1 .. Cardinality(T) : x # l => s4'[x] = s4[x]
      /\ \A v \in K : v # k =>
            /\ s4'[l][v] = (IF v \in victim THEN <<>> ELSE s4[l][v])
            /\ s6'[v] = (IF v \in victim THEN {} ELSE s6[v])
      /\ s7' \in [K -> Nat] /\ s6' = [v \in K |-> s6'[v]]
  BY ZenonT(30), <1>1 DEF CheckEffect
<1>5. \/ new = live /\ s6'[k] = s6[k]
      \/ /\ Len(live) < Quota /\ new = Append(live, m)
         /\ s6'[k] = Limiter(T, K)!Recent(Limiter(T, K)!Counted(s6[k], m), s1)
  BY Zenon, <1>1 DEF CheckEffect
<1>6. /\ s6[k] \in SUBSET (Moments \X Nat) /\ IsFiniteSet(s6[k]) /\ Through(s6[k])
      /\ \A a \in s6[k] : a[1] + Window > s1
  <2>1. IsFiniteSet(s6[k])
    BY <1>3, FewAdmissions
  <2> QED
    BY <1>2, <1>3, <2>1 DEF LimiterInv, LimiterTypes, Numbered
<1>7. PICK x \in Moments \X Nat :
         /\ x \notin s6[k] /\ x[1] = m
         /\ Limiter(T, K)!Counted(s6[k], m) = s6[k] \cup {x} /\ Through(s6[k] \cup {x})
  <2> DEFINE S == s6[k]
  <2>1. S \in SUBSET (Moments \X Nat)
    BY <1>6
  <2>2. IsFiniteSet(S)
    BY <1>6
  <2>3. Through(S)
    BY <1>6
  <2>4. m \in Moments
    BY <1>3
  <2> HIDE DEF S
  <2>5. \E x \in Moments \X Nat :
           /\ x \notin S /\ x[1] = m
           /\ Limiter(T, K)!Counted(S, m) = S \cup {x} /\ Through(S \cup {x})
    BY ONLY <2>1, <2>2, <2>3, <2>4, CountedKeeps
  <2> QED
    BY <2>5 DEF S
<1>8. \/ new = live /\ s6'[k] = s6[k]
      \/ /\ Len(live) < Quota /\ new = Append(live, m)
         /\ s6'[k] \in SUBSET (s6[k] \cup {x}) /\ Through(s6'[k])
         /\ \A a \in s6'[k] : a[1] + Window > s1
  <2>1. CASE /\ Len(live) < Quota /\ new = Append(live, m)
             /\ s6'[k] = Limiter(T, K)!Recent(s6[k] \cup {x}, s1)
    <3> DEFINE S == s6[k] \cup {x}
               R == Limiter(T, K)!Recent(S, s1)
    <3>1. Through(S) /\ s6'[k] = R
      BY <1>7, <2>1
    <3> HIDE DEF S
    <3>2. R \in SUBSET S /\ Through(R) /\ \A a \in R : a[1] + Window > s1
      BY ONLY <3>1, RecentKeeps
    <3> HIDE DEF R
    <3> QED
      BY <2>1, <3>1, <3>2 DEF S
  <2> QED
    BY <1>5, <1>7, <2>1
<1>9. \A v \in K : s6'[v] \in SUBSET (Moments \X Nat) /\ Through(s6'[v])
                   /\ \A a \in s6'[v] : a[1] + Window > s1
  <2> SUFFICES ASSUME NEW v \in K
               PROVE  s6'[v] \in SUBSET (Moments \X Nat) /\ Through(s6'[v])
                      /\ \A a \in s6'[v] : a[1] + Window > s1
    OBVIOUS
  <2>1. s6[v] \in SUBSET (Moments \X Nat) /\ Through(s6[v]) /\ \A a \in s6[v] : a[1] + Window > s1
    BY <1>2 DEF LimiterInv, LimiterTypes, Numbered
  <2>2. CASE v = k
    BY <1>6, <1>8, <2>2
  <2>3. CASE v # k
    BY <1>4, <2>1, <2>3 DEF Through
  <2> QED
    BY <2>2, <2>3
<1>10. Limiter(T, K)!Waiting \in [pc : {"idle", "build", "configure", "get", "check"},
                                 key : K, moment : 0 .. MaxClock, use : 0 .. Cardinality(T)]
  <2>1. (CHOOSE v \in K : TRUE) \in K
    BY DEF Served
  <2> QED
    BY <1>2, <2>1, LimitsOK DEF Limiter!Waiting
<1>11. LimiterTypes(T, K)'
  <2>1. s6' \in [K -> SUBSET (Moments \X Nat)]
    BY <1>2, <1>3, <1>4, <1>8, <1>9 DEF LimiterTypes, LimiterInv
  <2> QED
    BY <1>1, <1>2, <1>4, <1>10, <2>1 DEF LimiterTypes
<1>12. Numbered(K)'
  BY <1>1, <1>9 DEF Numbered
<1>13. Building(T)'
  <2>1. Limiter(T, K)!Waiting.pc = "idle" /\ s5[t].pc = "check"
    BY DEF Limiter!Waiting, Limiter!Check
  <2>2. /\ Cardinality(AtPc(T, "build")') = Cardinality(AtPc(T, "build"))
        /\ Cardinality(AtPc(T, "configure")') = Cardinality(AtPc(T, "configure"))
    <3> DEFINE w == Limiter(T, K)!Waiting
    <3>1. s5' = [s5 EXCEPT ![t] = w]
      BY <1>1
    <3>2. w.pc = "idle"
      BY <2>1
    <3>3. IsFiniteSet(T) /\ s5 = [v \in T |-> s5[v]]
      BY <1>2
    <3> HIDE DEF w
    <3>4. ASSUME NEW pc, pc \in {"build", "configure"}
          PROVE  Cardinality(AtPc(T, pc)') = Cardinality(AtPc(T, pc))
      <4>1. w.pc # pc /\ s5[t].pc # pc
        BY <2>1, <3>2, <3>4
      <4>2. /\ Cardinality(AtPc(T, pc)') = Cardinality(AtPc(T, pc)) + 0
            /\ Cardinality(AtPc(T, pc)) \in Nat
        BY ONLY <3>1, <3>3, <4>1, PcMoves
      <4> QED
        BY ONLY <4>2
    <3> QED
      BY <3>4
  <2>3. s5'[t].pc = "idle" /\ \A v \in T : v # t => s5'[v] = s5[v]
    BY <1>1, <1>2, <2>1
  <2> QED
    BY <1>1, <1>2, <2>2, <2>3 DEF Building
<1>14. HitsOK(T, K)'
  <2> SUFFICES ASSUME NEW y \in 1 .. Cardinality(T), NEW v \in K
               PROVE  Len(s4'[y][v]) <= Quota /\ (s4'[y][v] # <<>> => y <= s2)
    BY <1>1 DEF HitsOK
  <2>1. Len(s4[y][v]) <= Quota /\ (s4[y][v] # <<>> => y <= s2)
    BY DEF LimiterInv, HitsOK
  <2>2. CASE y # l
    BY <1>4, <2>1, <2>2
  <2>3. CASE y = l /\ v = k
    BY <1>3, <2>3
  <2>4. CASE y = l /\ v # k
    <3>1. Len(<<>>) <= Quota
      BY EmptySeq, LimitsOK
    <3> QED
      BY <1>3, <1>4, <2>1, <2>4, <3>1
  <2> QED
    BY <2>2, <2>3, <2>4
<1>15. HitsBehind(T, K)'
  <2> SUFFICES ASSUME NEW v \in K PROVE Backing(s6'[v], HitsOf(T, v)') # {}
    BY DEF HitsBehind
  <2>1. Backing(s6[v], HitsOf(T, v)) # {}
    BY DEF LimiterInv, HitsBehind
  <2>2. CASE v # k /\ v \in victim
    <3>1. s6'[v] = {}
      BY <1>4, <2>2
    <3> QED
      BY <3>1, BackedEmpty
  <2>3. CASE v # k /\ v \notin victim
    <3>1. s6'[v] = s6[v] /\ \A y \in 1 .. Cardinality(T) : s4'[y][v] = s4[y][v]
      BY <1>4, <2>3
    <3>2. HitsOf(T, v)' = HitsOf(T, v)
      BY <3>1 DEF HitsOf
    <3> QED
      BY <2>1, <3>1, <3>2
  <2>4. CASE v = k
    <3> DEFINE n == Cardinality(T)
               H == HitsOf(T, k)
               L == [H EXCEPT ![l] = SubSeq(H[l], i, Len(H[l]))]
    <3>1. n \in Nat /\ H \in [1 .. n -> Seq(Moments)] /\ l \in 1 .. n /\ H[l] = s4[l][k]
      BY <1>3, FewAdmissions DEF HitsOf
    <3>2. \A j \in 1 .. i - 1 : \A a \in s6[k] : H[l][j] # a[1]
      <4> SUFFICES ASSUME NEW j \in 1 .. i - 1, NEW a \in s6[k], H[l][j] = a[1] PROVE FALSE
        OBVIOUS
      <4>1. \A y \in 1 .. i - 1 : s4[l][k][y] + Window <= m
        BY <1>1, Zenon
      <4>2. a[1] + Window <= m
        BY <3>1, <4>1
      <4>3. a[1] + Window > s1 /\ a[1] \in Nat
        BY <1>6 DEF Moments
      <4>4. m <= s1 /\ m \in Nat /\ s1 \in Nat
        BY <1>2, <1>3 DEF LimiterTypes, Moments
      <4> HIDE DEF H
      <4> QED
        BY ONLY <4>2, <4>3, <4>4, LimitsOK
    <3>3. i \in 1 .. Len(H[l]) + 1 /\ Backing(s6[k], H) # {}
      BY <1>3, <2>1, <2>4, <3>1
    <3>4. Backing(s6[k], L) # {}
      <4> HIDE DEF n, H
      <4> QED
        BY <1>6, <3>1, <3>2, <3>3, BackedPruned
    <3>5. L \in [1 .. n -> Seq(Moments)] /\ L[l] = live /\ \A y \in 1 .. n : y # l => L[y] = H[y]
      <4> HIDE DEF n, H
      <4> QED
        BY <1>3, <3>1
    <3>6. HitsOf(T, k)' = [L EXCEPT ![l] = new]
      <4>1. HitsOf(T, k)' = [y \in 1 .. n |-> s4'[y][k]]
        BY DEF HitsOf
      <4>2. \A y \in 1 .. n : y # l => H[y] = s4'[y][k]
        BY <1>4 DEF HitsOf
      <4> HIDE DEF n, H, L
      <4> QED
        BY <1>3, <3>1, <3>5, <4>1, <4>2
    <3> HIDE DEF n, H, L
    <3>7. CASE new = live /\ s6'[k] = s6[k]
      <4>1. HitsOf(T, k)' = L
        BY <3>5, <3>6, <3>7
      <4> QED
        BY <2>4, <3>4, <3>7, <4>1
    <3>8. CASE Len(live) < Quota /\ new = Append(live, m) /\ s6'[k] \in SUBSET (s6[k] \cup {x})
      <4>1. HitsOf(T, k)' = [L EXCEPT ![l] = Append(L[l], m)] /\ Len(L[l]) < Quota
        BY <3>5, <3>6, <3>8
      <4>2. Backing(s6[k] \cup {x}, HitsOf(T, k)') # {}
        <5> DEFINE S == s6[k]
                   G == HitsOf(T, k)'
        <5>1. l \in 1 .. n
          BY <3>1
        <5>2. n \in Nat
          BY <3>1
        <5>3. m \in Moments
          BY <1>3
        <5>4. x \notin S /\ x[1] = m
          BY <1>7
        <5>5. Backing(S, L) # {}
          BY <3>4
        <5>6. L \in [1 .. n -> Seq(Moments)]
          BY <3>5
        <5>7. Len(L[l]) < Quota
          BY <4>1
        <5>8. G = [L EXCEPT ![l] = Append(L[l], m)]
          BY <4>1
        <5> HIDE DEF S, G
        <5>9. Backing(S \cup {x}, G) # {}
          <6>1. Backing(S \cup {x}, [L EXCEPT ![l] = Append(L[l], m)]) # {}
            BY ONLY <5>1, <5>2, <5>3, <5>4, <5>5, <5>6, <5>7, BackedMore
          <6> QED
            BY ONLY <5>8, <6>1
        <5> QED
          BY <5>9 DEF S, G
      <4> QED
        BY <2>4, <3>8, <4>2, BackedLess
    <3> QED
      BY <1>8, <3>7, <3>8
  <2> QED
    BY <2>2, <2>3, <2>4
<1>16. FewTracked(T, K)'
  <2> SUFFICES ASSUME NEW y \in 1 .. Cardinality(T)
               PROVE  Cardinality(TrackedBy(K, y)') <= MaxKeys
    BY DEF FewTracked
  <2>1. /\ IsFiniteSet(TrackedBy(K, y)) /\ Cardinality(TrackedBy(K, y)) \in Nat
        /\ Cardinality(TrackedBy(K, y)) <= MaxKeys
    <3>1. TrackedBy(K, y) \in SUBSET K
      BY DEF TrackedBy
    <3> QED
      BY <3>1, FS_Subset, FS_CardinalityType DEF Served, LimiterInv, FewTracked
  <2>2. CASE y # l
    <3>1. TrackedBy(K, y)' = TrackedBy(K, y)
      BY <1>4, <2>2 DEF TrackedBy
    <3> QED
      BY <2>1, <3>1
  <2>3. CASE y = l
    <3> DEFINE A == TrackedBy(K, l)
               B == TrackedBy(K, y)'
    <3>1. IsFiniteSet(A) /\ Cardinality(A) \in Nat /\ Cardinality(A) <= MaxKeys
      BY <2>1, <2>3
    <3>2. B \subseteq (A \ victim) \cup {k}
      BY <1>4, <2>3 DEF TrackedBy
    <3>3. s4[l][k] # <<>> => k \in A
      BY <1>3 DEF TrackedBy
    <3>4. \/ victim = {} /\ (s4[l][k] # <<>> \/ Cardinality(A) < MaxKeys)
          \/ \E v \in A : victim = {v}
      BY <1>1
    <3> HIDE DEF A, B
    <3>5. CASE k \in A /\ victim = {}
      <4>1. B \in SUBSET A
        BY <3>2, <3>5
      <4>2. Cardinality(B) <= Cardinality(A) /\ Cardinality(B) \in Nat
        BY <3>1, <4>1, FS_Subset, FS_CardinalityType
      <4> QED
        BY <3>1, <4>2, LimitsOK DEF B
    <3>6. CASE k \notin A /\ victim = {} /\ Cardinality(A) < MaxKeys
      <4>1. B \in SUBSET (A \cup {k})
        BY <3>2
      <4>2. IsFiniteSet(A \cup {k}) /\ Cardinality(A \cup {k}) = Cardinality(A) + 1
        BY <3>1, <3>6, FS_AddElement
      <4>3. Cardinality(B) <= Cardinality(A) + 1 /\ Cardinality(B) \in Nat
        BY <4>1, <4>2, FS_Subset, FS_CardinalityType
      <4> QED
        BY <3>1, <3>6, <4>3, LimitsOK DEF B
    <3>7. ASSUME NEW v \in A, victim = {v} PROVE Cardinality(B) <= MaxKeys
      <4>1. IsFiniteSet(A \ {v}) /\ Cardinality(A \ {v}) = Cardinality(A) - 1
        BY <3>1, <3>7, FS_RemoveElement
      <4>2. /\ IsFiniteSet((A \ {v}) \cup {k})
            /\ Cardinality((A \ {v}) \cup {k}) <= Cardinality(A \ {v}) + 1
            /\ Cardinality((A \ {v}) \cup {k}) \in Nat
        <5> DEFINE R == A \ {v}
        <5>1. IsFiniteSet(R) /\ Cardinality(R) \in Nat
          BY <4>1, FS_CardinalityType
        <5> HIDE DEF R
        <5>2. /\ IsFiniteSet(R \cup {k})
              /\ Cardinality(R \cup {k}) = IF k \in R THEN Cardinality(R) ELSE Cardinality(R) + 1
          BY ONLY <5>1, FS_AddElement
        <5>3. Cardinality(R \cup {k}) <= Cardinality(R) + 1 /\ Cardinality(R \cup {k}) \in Nat
          BY ONLY <5>1, <5>2
        <5> QED
          BY <5>2, <5>3 DEF R
      <4>3. B \in SUBSET ((A \ {v}) \cup {k})
        BY <3>2, <3>7
      <4>4. Cardinality(B) <= Cardinality((A \ {v}) \cup {k}) /\ Cardinality(B) \in Nat
        BY <4>2, <4>3, FS_Subset, FS_CardinalityType
      <4> QED
        BY <3>1, <4>1, <4>2, <4>4, LimitsOK
    <3> QED
      BY <3>3, <3>4, <3>5, <3>6, <3>7 DEF B
  <2> QED
    BY <2>2, <2>3
<1> QED
  BY <1>11, <1>12, <1>13, <1>14, <1>15, <1>16 DEF LimiterInv

-----------------------------------------------------------------------------
(* What each step promises, and the limiter's properties.                  *)

\* Of a limiter of one thread: a key that is told to come back has used its quota, and
\* the moment it is told is the one at which the oldest of its hits leaves the window.
Promised(K) ==
    \A k \in K : s7[k] > 0 => Len(s4[1][k]) = Quota /\ s7[k] = s4[1][k][1] + Window

\* A check of the one thread keeps its promises: who comes back in time is admitted.
LEMMA PromiseKept ==
  ASSUME NEW K, Served({Thread}, K), LimiterInv({Thread}, K), Promised(K),
         Limiter({Thread}, K)!Check(Thread)
  PROVE  /\ Promised(K)'
         /\ s7[s5[Thread].key] > 0 /\ s5[Thread].moment >= s7[s5[Thread].key]
               => s7'[s5[Thread].key] = 0
<1> DEFINE T == {Thread}
<1>1. PICK l, k, m, victim, i, live, new :
         /\ l = s5[Thread].use /\ k = s5[Thread].key /\ m = s5[Thread].moment
         /\ CheckEffect(T, K, l, k, m, victim, i, live, new)
         /\ i <= Len(s4[l][k]) => s4[l][k][i] + Window > m
  BY CheckFacts
<1>2. Cardinality(T) = 1
  BY Zenon, FS_Singleton
<1>3. /\ l \in 1 .. Cardinality(T) /\ k \in K /\ m \in Moments
      /\ s4[l][k] \in Seq(Moments) /\ i \in 1 .. Len(s4[l][k]) + 1
      /\ Len(live) = Len(s4[l][k]) + 1 - i /\ Len(s4[l][k]) <= Quota
      /\ new = s4'[l][k] /\ new \in Seq(Moments) /\ Len(new) <= Quota
      /\ \A v \in K : v # k =>
            /\ s4'[l][v] = (IF v \in victim THEN <<>> ELSE s4[l][v])
            /\ s7'[v] = (IF v \in victim THEN 0 ELSE s7[v])
      /\ \/ Len(live) >= Quota /\ new = live /\ s7'[k] = live[1] + Window
         \/ s7'[k] = 0
  BY Zenon, <1>1 DEF CheckEffect
<1> HIDE DEF T
<1>4. l = 1
  BY <1>2, <1>3
<1>5. Promised(K)'
  <2> SUFFICES ASSUME NEW v \in K, s7'[v] > 0
               PROVE  Len(s4'[1][v]) = Quota /\ s7'[v] = s4'[1][v][1] + Window
    BY DEF Promised
  <2>1. CASE v = k
    <3>1. Len(new) >= Quota /\ Len(new) \in Nat /\ s7'[k] = new[1] + Window
      <4>1. s7'[k] # 0
        BY <2>1
      <4>2. Len(new) \in Nat
        BY <1>3
      <4> QED
        BY <1>3, <4>1, <4>2, Zenon
    <3>2. Len(new) = Quota
      BY <1>3, <3>1, LimitsOK
    <3> QED
      BY <1>3, <1>4, <2>1, <3>1, <3>2
  <2>2. CASE v # k
    BY <1>3, <1>4, <2>2 DEF Promised
  <2> QED
    BY <2>1, <2>2
<1>6. ASSUME s7[k] > 0, m >= s7[k] PROVE s7'[k] = 0
  <2> SUFFICES ASSUME Len(live) >= Quota PROVE FALSE
    BY <1>3
  <2> DEFINE h == s4[l][k]
  <2>1. Len(h) = Quota /\ s7[k] = h[1] + Window
    BY <1>3, <1>4, <1>6 DEF Promised
  <2>2. Len(h) \in Nat /\ i \in 1 .. Len(h) + 1 /\ Len(live) = Len(h) + 1 - i
    BY <1>3
  <2>3. i <= Len(h) => h[i] + Window > m
    BY <1>1
  <2> HIDE DEF h
  <2>4. i = 1 /\ 1 <= Len(h) /\ 1 \in 1 .. Len(h)
    BY <2>1, <2>2, LimitsOK
  <2>5. h[1] \in Nat /\ m \in Nat
    <3>1. h[1] \in Moments
      BY <1>3, <2>4, ElementOfSeq DEF h
    <3> QED
      BY <1>3, <3>1 DEF Moments
  <2> QED
    BY <1>6, <2>1, <2>3, <2>4, <2>5, LimitsOK
<1> QED
  BY <1>1, <1>5, <1>6

LEMMA LimiterInit ==
  ASSUME NEW T, NEW K, Served(T, K), Limiter(T, K)!Init
  PROVE  LimiterInv(T, K) /\ Promised(K)
<1>1. Cardinality(T) \in Nat /\ Cardinality({}) = 0
  BY FS_CardinalityType, FS_EmptySet DEF Served
<1>2. Limiter(T, K)!Limiters = 1 .. Cardinality(T)
  BY SameCount DEF Limiter!Limiters
<1>3. /\ s1 = 1 /\ s2 = 0 /\ s3 = FALSE
      /\ s4 = [l \in 1 .. Cardinality(T) |-> [k \in K |-> <<>>]]
      /\ s5 = [t \in T |-> Limiter(T, K)!Waiting]
      /\ s6 = [k \in K |-> {}] /\ s7 = [k \in K |-> 0]
  BY <1>2 DEF Limiter!Init
<1>4. /\ Limiter(T, K)!Waiting \in [pc : {"idle", "build", "configure", "get", "check"},
                                    key : K, moment : 0 .. MaxClock, use : 0 .. Cardinality(T)]
      /\ Limiter(T, K)!Waiting.pc = "idle"
  <2>1. (CHOOSE v \in K : TRUE) \in K
    BY DEF Served
  <2> QED
    BY <1>1, <2>1, LimitsOK DEF Limiter!Waiting
<1>5. LimiterTypes(T, K)
  <2>1. s1 \in Moments /\ s2 \in 0 .. Cardinality(T) /\ s3 \in BOOLEAN
    <3>1. s1 \in Moments /\ s2 \in 0 .. Cardinality(T)
      BY <1>1, <1>3, LimitsOK DEF Moments
    <3> QED
      BY <1>3, <3>1, Zenon
  <2>2. s4 \in [1 .. Cardinality(T) -> [K -> Seq(Moments)]]
    <3>1. <<>> \in Seq(Moments)
      BY EmptySeq
    <3> QED
      BY <1>3, <3>1
  <2>3. s6 \in [K -> SUBSET (Moments \X Nat)] /\ s7 \in [K -> Nat]
    BY <1>3
  <2> QED
    BY <1>3, <1>4, <2>1, <2>2, <2>3 DEF LimiterTypes
<1>6. Building(T)
  <2>1. AtPc(T, "configure") = {}
    BY <1>3, <1>4 DEF AtPc
  <2> QED
    BY <1>1, <1>3, <1>4, <2>1 DEF Building
<1>7. HitsOK(T, K)
  <2>1. \A l \in 1 .. Cardinality(T), k \in K : s4[l][k] = <<>>
    BY <1>3
  <2>2. Len(<<>>) <= Quota
    BY EmptySeq, LimitsOK
  <2> QED
    BY <2>1, <2>2 DEF HitsOK
<1>8. Numbered(K) /\ HitsBehind(T, K)
  BY <1>3, BackedEmpty DEF Numbered, Through, HitsBehind
<1>9. FewTracked(T, K)
  <2>1. \A l \in 1 .. Cardinality(T) : TrackedBy(K, l) = {}
    BY <1>3 DEF TrackedBy
  <2> QED
    BY <1>1, <2>1, LimitsOK DEF FewTracked
<1>10. Promised(K)
  BY <1>3 DEF Promised
<1> QED
  BY <1>5, <1>6, <1>7, <1>8, <1>9, <1>10 DEF LimiterInv

LEMMA LimiterStep ==
  ASSUME NEW T, NEW K, Served(T, K), LimiterInv(T, K),
         [Limiter(T, K)!Next]_(<<s1, s2, s3, s4, s5, s6, s7>>)
  PROVE  LimiterInv(T, K)'
<1>1. CASE UNCHANGED <<s1, s2, s3, s4, s5, s6, s7>>
  BY <1>1 DEF LimiterInv, LimiterTypes, Building, AtPc, HitsOK, Numbered, HitsBehind, HitsOf,
              FewTracked, TrackedBy
<1>2. CASE Limiter(T, K)!Tick
  BY <1>2, LimiterTick
<1>3. ASSUME NEW t \in T,
             \/ Limiter(T, K)!Request(t) \/ Limiter(T, K)!Build(t)
             \/ Limiter(T, K)!Configure(t) \/ Limiter(T, K)!Get(t)
      PROVE  LimiterInv(T, K)'
  BY <1>3, LimiterThread
<1>4. ASSUME NEW t \in T, Limiter(T, K)!Check(t) PROVE LimiterInv(T, K)'
  BY <1>4, LimiterCheck
<1> QED
  BY <1>1, <1>2, <1>3, <1>4 DEF Limiter!Next

\* With one thread a step keeps the promises there are.
LEMMA PromiseStep ==
  ASSUME NEW K, Served({Thread}, K), LimiterInv({Thread}, K), Promised(K),
         [Limiter({Thread}, K)!Next]_(<<s1, s2, s3, s4, s5, s6, s7>>)
  PROVE  Promised(K)' /\ Limiter({Thread}, K)!RetryAfterHonoured
<1>1. CASE s5' = s5 /\ s4' = s4 /\ s7' = s7
  BY <1>1 DEF Promised, Limiter!RetryAfterHonoured
<1>2. CASE \/ Limiter({Thread}, K)!Request(Thread) \/ Limiter({Thread}, K)!Build(Thread)
           \/ Limiter({Thread}, K)!Configure(Thread) \/ Limiter({Thread}, K)!Get(Thread)
  <2>1. s4' = s4 /\ s7' = s7
    BY <1>2, LimiterThread
  <2>2. s5[Thread].pc # "check"
    BY <1>2 DEF Limiter!Request, Limiter!Build, Limiter!Configure, Limiter!Get
  <2> QED
    BY <2>1, <2>2 DEF Promised, Limiter!RetryAfterHonoured
<1>3. CASE Limiter({Thread}, K)!Check(Thread)
  BY <1>3, PromiseKept DEF Limiter!RetryAfterHonoured
<1> QED
  BY <1>1, <1>2, <1>3 DEF Limiter!Next, Limiter!Tick

\* What the invariant says of the limiter.
LEMMA LimiterClaim ==
  ASSUME NEW T, NEW K, Served(T, K), LimiterInv(T, K)
  PROVE  /\ Limiter(T, K)!TypeOK /\ Limiter(T, K)!QuotaBounded /\ Limiter(T, K)!KeysBounded
         /\ Cardinality(T) = 1 => Limiter(T, K)!QuotaExact
<1>1. \A S : Limiter(T, K)!Cardinality(S) = Cardinality(S)
  BY SameCount
<1>2. Limiter(T, K)!Limiters = 1 .. Cardinality(T)
  BY <1>1 DEF Limiter!Limiters
<1>3. Limiter(T, K)!TypeOK
  BY <1>1, <1>2 DEF LimiterInv, LimiterTypes, HitsOK, Limiter!TypeOK, Moments
<1>4. Limiter(T, K)!QuotaBounded
  BY <1>1, FewAdmissions DEF Limiter!QuotaBounded
<1>5. Limiter(T, K)!KeysBounded
  <2>1. \A l : Limiter(T, K)!Tracked(l) = TrackedBy(K, l)
    BY DEF Limiter!Tracked, TrackedBy
  <2> QED
    BY <1>1, <1>2, <2>1 DEF Limiter!KeysBounded, LimiterInv, FewTracked
<1>6. ASSUME Cardinality(T) = 1 PROVE Limiter(T, K)!QuotaExact
  <2> SUFFICES ASSUME NEW k \in K PROVE Cardinality(s6[k]) <= Quota
    BY <1>1 DEF Limiter!QuotaExact
  <2>1. IsFiniteSet(s6[k]) /\ Cardinality(s6[k]) <= Quota * s2 /\ Cardinality(s6[k]) \in Nat
    BY FewAdmissions, FS_CardinalityType
  <2>2. s2 = 0 \/ s2 = 1
    BY <1>6 DEF LimiterInv, LimiterTypes
  <2> QED
    BY <2>1, <2>2, LimitsOK
<1> QED
  BY <1>3, <1>4, <1>5, <1>6

-----------------------------------------------------------------------------
\* The limiter of one thread and that of several.
LimitersInv ==
    /\ part = "keys"    => LimiterInv({Thread}, Keys) /\ Promised(Keys)
    /\ part = "threads" => LimiterInv(Threads, FewKeys)

LEMMA BothServed == Served({Thread}, Keys) /\ Served(Threads, FewKeys)
BY LimiterAssumption, FS_Singleton DEF Served

LEMMA LimitersInit == Init => LimitersInv
<1>1. ASSUME part = "keys", Init PROVE LimitersInv
  <2>1. Limiter({Thread}, Keys)!Init
    BY <1>1 DEF Init
  <2> QED
    BY <1>1, <2>1, BothServed, LimiterInit DEF LimitersInv
<1>2. ASSUME part = "threads", Init PROVE LimitersInv
  <2>1. Limiter(Threads, FewKeys)!Init
    BY <1>2 DEF Init
  <2> QED
    BY <1>2, <2>1, BothServed, LimiterInit DEF LimitersInv
<1> QED
  BY <1>1, <1>2 DEF LimitersInv

LEMMA LimitersStep ==
  ASSUME LimitersInv, [Next]_vars
  PROVE  LimitersInv' /\ (part = "keys" => Limiter({Thread}, Keys)!RetryAfterHonoured)
<1>1. part' = part
  BY DEF Next, vars
<1>2. CASE part = "keys"
  <2>1. [Limiter({Thread}, Keys)!Next]_(<<s1, s2, s3, s4, s5, s6, s7>>)
    BY <1>2 DEF Next, vars
  <2>2. LimiterInv({Thread}, Keys) /\ Promised(Keys) /\ Served({Thread}, Keys)
    BY <1>2, BothServed DEF LimitersInv
  <2>3. LimiterInv({Thread}, Keys)'
    BY <2>1, <2>2, LimiterStep
  <2>4. Promised(Keys)' /\ Limiter({Thread}, Keys)!RetryAfterHonoured
    BY <2>1, <2>2, PromiseStep
  <2> QED
    BY <1>1, <1>2, <2>3, <2>4 DEF LimitersInv
<1>3. CASE part = "threads"
  <2>1. [Limiter(Threads, FewKeys)!Next]_(<<s1, s2, s3, s4, s5, s6, s7>>)
    BY <1>3 DEF Next, vars
  <2>2. LimiterInv(Threads, FewKeys)'
    BY <1>3, <2>1, BothServed, LimiterStep DEF LimitersInv
  <2> QED
    BY <1>1, <1>3, <2>2 DEF LimitersInv
<1> QED
  BY <1>1, <1>2, <1>3 DEF LimitersInv

\* For any keys, threads, quota, window and number of keys tracked: with one thread the
\* window is exact and a promised moment is honoured, with several the quota is exceeded
\* by no more than the limiters that were built; the keys tracked are bounded.
THEOREM QuotaHolds == Spec => QuotaKept
<1>1. LimitersInv =>
         /\ part = "keys"    => /\ Limiter({Thread}, Keys)!TypeOK
                                /\ Limiter({Thread}, Keys)!QuotaExact
                                /\ Limiter({Thread}, Keys)!KeysBounded
         /\ part = "threads" => /\ Limiter(Threads, FewKeys)!TypeOK
                                /\ Limiter(Threads, FewKeys)!QuotaBounded
  <2>1. Cardinality({Thread}) = 1
    BY FS_Singleton
  <2> QED
    BY <2>1, BothServed, LimiterClaim DEF LimitersInv
<1>2. LimitersInv /\ [Next]_vars =>
         LimitersInv' /\ [part = "keys" => Limiter({Thread}, Keys)!RetryAfterHonoured]_vars
  BY LimitersStep
<1> QED
  BY <1>1, <1>2, LimitersInit, PTL DEF Spec, QuotaKept

-----------------------------------------------------------------------------
(* The queries.  What their operators give: elements of sets by rank first,*)
(* then the builders of evidence, and the sets of what they build.         *)

\* The rank of an element of a finite set in a strict order: how many come before it.
Preceding(S, R, x) == {y \in S : <<y, x>> \in R}

StrictOrder(S, R) ==
    /\ \A x, y \in S : x # y => <<x, y>> \in R \/ <<y, x>> \in R
    /\ \A x \in S : <<x, x>> \notin R
    /\ \A x, y, z \in S : <<x, y>> \in R /\ <<y, z>> \in R => <<x, z>> \in R

\* What is later in the order has more before it.
LEMMA RankGrows ==
  ASSUME NEW S, IsFiniteSet(S), NEW R, StrictOrder(S, R), NEW x \in S, NEW y \in S, <<x, y>> \in R
  PROVE  Cardinality(Preceding(S, R, x)) < Cardinality(Preceding(S, R, y))
<1>1. Preceding(S, R, x) \subseteq Preceding(S, R, y)
  BY DEF Preceding, StrictOrder
<1>2. x \in Preceding(S, R, y) /\ x \notin Preceding(S, R, x)
  BY DEF Preceding, StrictOrder
<1>3. IsFiniteSet(Preceding(S, R, y))
  BY FS_Subset DEF Preceding
<1>4. /\ IsFiniteSet(Preceding(S, R, x))
      /\ Cardinality(Preceding(S, R, x)) <= Cardinality(Preceding(S, R, y))
      /\ Cardinality(Preceding(S, R, x)) # Cardinality(Preceding(S, R, y))
  BY <1>1, <1>2, <1>3, FS_Subset
<1> QED
  BY <1>3, <1>4, FS_CardinalityType

\* The ranks of the elements are the numbers below the size of the set, each once.
LEMMA RankOnto ==
  ASSUME NEW S, IsFiniteSet(S), NEW R, StrictOrder(S, R)
  PROVE  /\ \A x \in S : Cardinality(Preceding(S, R, x)) \in 0 .. Cardinality(S) - 1
         /\ \A x, y \in S : Cardinality(Preceding(S, R, x)) = Cardinality(Preceding(S, R, y)) => x = y
         /\ \A n \in 0 .. Cardinality(S) - 1 : \E x \in S : Cardinality(Preceding(S, R, x)) = n
<1> DEFINE rank == [x \in S |-> Cardinality(Preceding(S, R, x))]
           N == 0 .. Cardinality(S) - 1
<1>1. Cardinality(S) \in Nat
  BY FS_CardinalityType
<1>2. ASSUME NEW x \in S PROVE Cardinality(Preceding(S, R, x)) \in N
  <2>1. Preceding(S, R, x) \subseteq S \ {x}
    BY DEF Preceding, StrictOrder
  <2>2. IsFiniteSet(S \ {x}) /\ Cardinality(S \ {x}) = Cardinality(S) - 1
    BY FS_RemoveElement
  <2>3. IsFiniteSet(Preceding(S, R, x)) /\ Cardinality(Preceding(S, R, x)) <= Cardinality(S) - 1
    BY <2>1, <2>2, FS_Subset
  <2>4. Cardinality(Preceding(S, R, x)) \in Nat
    BY <2>3, FS_CardinalityType
  <2> QED
    BY <1>1, <2>3, <2>4
<1>3. ASSUME NEW x \in S, NEW y \in S, x # y
      PROVE  Cardinality(Preceding(S, R, x)) # Cardinality(Preceding(S, R, y))
  <2>1. CASE <<x, y>> \in R
    BY <2>1, <1>2, RankGrows
  <2>2. CASE <<y, x>> \in R
    BY <2>2, <1>2, RankGrows
  <2> QED
    BY <1>3, <2>1, <2>2 DEF StrictOrder
<1>4. rank \in [S -> N]
  BY <1>2
<1>5. rank \in Injection(S, N)
  <2>1. \A x, y \in S : rank[x] = rank[y] => x = y
    BY <1>3
  <2> HIDE DEF rank, N
  <2> QED
    BY <1>4, <2>1 DEF Injection, IsInjective
<1>6. IsFiniteSet(N) /\ Cardinality(N) = Cardinality(S)
  <2> DEFINE last == Cardinality(S) - 1
  <2>1. last \in Int /\ last + 1 = Cardinality(S) /\ (0 > last => Cardinality(S) = 0)
    BY <1>1
  <2> HIDE DEF last
  <2>2. IsFiniteSet(0 .. last) /\ Cardinality(0 .. last) = IF 0 > last THEN 0 ELSE last - 0 + 1
    BY <2>1, FS_Interval
  <2>3. N = 0 .. last
    BY DEF last
  <2> QED
    BY <2>1, <2>2, <2>3
<1>7. rank \in Surjection(S, N)
  BY <1>5, <1>6, FS_Injection
<1>8. \A n \in N : \E x \in S : rank[x] = n
  BY <1>7 DEF Surjection
<1> QED
  BY <1>2, <1>3, <1>8

\* The numbers of the instance are those of this module.
LEMMA SameNumbers ==
  \A S : Queries!Cardinality(S) = Cardinality(S) /\ (Queries!IsFiniteSet(S) <=> IsFiniteSet(S))
BY DEF Queries!Cardinality, Cardinality, Queries!IsFiniteSet, IsFiniteSet

\* The numbers from 1 to n are n of them.
LEMMA UpToFinite == \A n \in Nat : IsFiniteSet(1 .. n) /\ Cardinality(1 .. n) = n
<1> SUFFICES ASSUME NEW n \in Nat PROVE IsFiniteSet(1 .. n) /\ Cardinality(1 .. n) = n
  OBVIOUS
<1> QED
  BY FS_Interval

\* Counting an element with those before it, as for the n-th index of a set.
LEMMA RankFromOne ==
  ASSUME NEW S, IsFiniteSet(S), NEW R, StrictOrder(S, R), NEW n \in 1 .. Cardinality(S)
  PROVE  \E i \in S : Cardinality(Preceding(S, R, i) \cup {i}) = n
<1>1. Cardinality(S) \in Nat
  BY FS_CardinalityType
<1>2. n - 1 \in 0 .. Cardinality(S) - 1
  BY <1>1
<1>3. PICK i \in S : Cardinality(Preceding(S, R, i)) = n - 1
  BY <1>2, RankOnto
<1>4. IsFiniteSet(Preceding(S, R, i)) /\ i \notin Preceding(S, R, i)
  BY FS_Subset DEF Preceding, StrictOrder
<1>5. Cardinality(Preceding(S, R, i) \cup {i}) = Cardinality(Preceding(S, R, i)) + 1
  BY <1>4, FS_AddElement
<1>6. Cardinality(Preceding(S, R, i) \cup {i}) = n
  BY <1>1, <1>3, <1>5
<1> QED
  BY <1>6

\* The n-th index of a set is one of its elements.
LEMMA NthIn ==
  ASSUME NEW S \in SUBSET Int, IsFiniteSet(S)
  PROVE  /\ \A n \in 1 .. Cardinality(S) : Queries!Nth(S, n) \in S
         /\ \A m, n \in 1 .. Cardinality(S) : Queries!Nth(S, m) = Queries!Nth(S, n) => m = n
<1> DEFINE R == {p \in S \X S : p[1] < p[2]}
           upTo(i) == {j \in S : j <= i}
<1>1. \A i, j \in S : <<i, j>> \in R <=> i < j
  OBVIOUS
<1> HIDE DEF R
<1>2. StrictOrder(S, R)
  BY <1>1 DEF StrictOrder
<1>3. ASSUME NEW i \in S PROVE upTo(i) = Preceding(S, R, i) \cup {i}
  <2>1. \A j \in S : j <= i <=> <<j, i>> \in R \/ j = i
    BY <1>1
  <2> QED
    BY <2>1 DEF Preceding
<1> HIDE DEF upTo
<1>4. \A n \in 1 .. Cardinality(S) : \E i \in S : Cardinality(Preceding(S, R, i) \cup {i}) = n
  BY <1>2, RankFromOne
<1>5. ASSUME NEW n \in 1 .. Cardinality(S)
      PROVE  Queries!Nth(S, n) \in S /\ Cardinality(upTo(Queries!Nth(S, n))) = n
  <2>1. PICK i \in S : Cardinality(Preceding(S, R, i) \cup {i}) = n
    BY <1>4
  <2>2. Cardinality(upTo(i)) = n
    BY <1>3, <2>1
  <2>3. Queries!Nth(S, n) = CHOOSE k \in S : Cardinality(upTo(k)) = n
    BY SameNumbers DEF Queries!Nth, upTo
  <2> QED
    BY <2>2, <2>3
<1> QED
  BY <1>5

\* The first indices of a sequence are among them.
LEMMA FirstIs ==
  ASSUME NEW A, NEW s \in Seq(A), NEW n \in Nat
  PROVE  /\ Queries!First(s, n) \in Seq(A)
         /\ Len(Queries!First(s, n)) = IF Len(s) < n THEN Len(s) ELSE n
         /\ \A i \in 1 .. Len(Queries!First(s, n)) : i \in 1 .. Len(s) /\ Queries!First(s, n)[i] = s[i]
<1> DEFINE k == IF Len(s) < n THEN Len(s) ELSE n
<1>1. Len(s) \in Nat /\ k \in 0 .. Len(s)
  OBVIOUS
<1>2. \A i \in 1 .. Len(s) : s[i] \in A
  BY ElementOfSeq
<1> HIDE DEF k
<1>3. /\ SubSeq(s, 1, k) \in Seq(A) /\ Len(SubSeq(s, 1, k)) = k
      /\ \A i \in 1 .. k : SubSeq(s, 1, k)[i] = s[i]
  BY <1>1, <1>2
<1>4. Queries!First(s, n) = SubSeq(s, 1, k)
  BY DEF Queries!First, k
<1> QED
  BY <1>1, <1>3, <1>4 DEF k

\* A sequence made of the elements at a set of indices has what is made of each.
LEMMA EachIs ==
  ASSUME NEW chosen \in SUBSET Nat, IsFiniteSet(chosen), NEW A, NEW made, \A i \in chosen : made[i] \in A
  PROVE  /\ Queries!Each(chosen, made) \in Seq(A)
         /\ Len(Queries!Each(chosen, made)) = Cardinality(chosen)
         /\ \A n \in 1 .. Cardinality(chosen) :
               Queries!Each(chosen, made)[n] = made[Queries!Nth(chosen, n)]
<1>1. Cardinality(chosen) \in Nat
  BY FS_CardinalityType
<1>2. \A n \in 1 .. Cardinality(chosen) : Queries!Nth(chosen, n) \in chosen
  BY NthIn
<1>3. \A n \in 1 .. Cardinality(chosen) : made[Queries!Nth(chosen, n)] \in A
  BY <1>2
<1> QED
  BY <1>1, <1>3, SameNumbers DEF Queries!Each

-----------------------------------------------------------------------------
(* The items of evidence.  One that is retrieved for e, when the mentions  *)
(* at are resolved, is about e, if e is an entity, and says what is then   *)
(* reported of its meeting.                                                *)

\* The topics; the provers know of no literal that it is a string.
Topics == STRING \cup {"entity"}

ItemRecords ==
    [id : Queries!EvidenceIds, type : Queries!EvidenceTypes, entity : Entities \cup {Nobody},
     meeting : Meetings \cup {Nobody}, at : Int, weight : Int, priority : Int, topic : Topics,
     says : Nat, text : BOOLEAN]

\* What is reported, as a set.
Reports(at) == {Report(at)[i] : i \in DOMAIN Report(at)}

Saying(x, m, at) ==
    \E s \in Reports(at) : /\ s.meeting = m /\ s.entity = x.entity
                          /\ s.topic = x.topic /\ s.says = x.says

Named(x) == x.id[1] = x.type /\ x.id[2] = x.entity /\ x.id[3] = x.meeting

ItemsOf(e, at) ==
    {x \in ItemRecords : /\ Named(x)
                         /\ e # Nobody => x.entity = e
                         /\ x.meeting \in Meetings => Saying(x, x.meeting, at)}

\* A report is a list of signals.
LEMMA ReportIs ==
  ASSUME NEW at \in SUBSET Mentions
  PROVE  /\ Report(at) \in Seq(Queries!SignalRecords)
         /\ Nobody \notin Entities /\ Nobody \notin Meetings
BY QueriesAssumption DEF Queries!ConstantsOK

\* The rules are of intents, and the intents of an entity are intents.
LEMMA IntentsAre ==
  /\ DOMAIN Queries!RuleOrder = 1 .. 10
  /\ Queries!EntityIntents = {"ENTITY_DEPENDENCIES", "ENTITY_IMPACTS", "ENTITY_RISKS", "ENTITY_HISTORY",
                              "ENTITY_ACTIONS", "ENTITY_CHANGES", "ENTITY_STATUS"}
  /\ Queries!Intents = Queries!EntityIntents
        \cup {"ORGANISATION_RISKS", "ORGANISATION_CHANGES", "ORGANISATION_PRIORITIES"}
<1>1. DOMAIN Queries!RuleOrder = 1 .. 10
  BY DEF Queries!RuleOrder
<1>2. 1 .. 7 = {1, 2, 3, 4, 5, 6, 7} /\ 1 .. 10 = 1 .. 7 \cup {8, 9, 10}
  OBVIOUS
<1> QED
  BY <1>1, <1>2 DEF Queries!RuleOrder, Queries!EntityIntents, Queries!Intents

\* Priorities and weights are numbers.
LEMMA NumbersOf ==
  /\ \A intent, type : Queries!Priority(intent, type) \in Int
  /\ \A level : Queries!Weight(level) \in Int
BY DEF Queries!Priority, Queries!Weight

\* An item is of an entity, a meeting and a topic as its id says.
LEMMA ItemIs ==
  ASSUME NEW at \in SUBSET Mentions, NEW s \in Reports(at), NEW t \in {s, [s EXCEPT !.key = s.what]},
         NEW type \in Queries!EvidenceTypes, NEW weight \in Int, NEW intent,
         NEW text \in BOOLEAN, NEW e \in {s.entity, Nobody}
  PROVE  Queries!Item(t, type, weight, intent, text) \in ItemsOf(e, at)
<1> DEFINE x == Queries!Item(t, type, weight, intent, text)
<1>1. s \in Queries!SignalRecords
  BY ReportIs DEF Reports
<1>2. /\ t \in Queries!SignalRecords /\ t.entity = s.entity /\ t.meeting = s.meeting
      /\ t.topic = s.topic /\ t.says = s.says
  BY <1>1 DEF Queries!SignalRecords
<1>3. Queries!Priority(intent, type) \in Int
  BY NumbersOf
<1>4. <<type, t.entity, t.meeting, t.key>> \in Queries!EvidenceIds
  BY <1>2 DEF Queries!EvidenceIds, Queries!SignalRecords
<1>5. t.topic \in Topics
  BY <1>2 DEF Topics, Queries!SignalRecords
<1>6. /\ t.entity \in Entities \cup {Nobody} /\ t.meeting \in Meetings \cup {Nobody}
      /\ t.at \in Int /\ t.says \in Nat /\ (text /\ t.text) \in BOOLEAN
  BY <1>2 DEF Queries!SignalRecords
<1>7. x \in ItemRecords /\ Named(x)
  <2>1. x \in ItemRecords
    BY <1>3, <1>4, <1>5, <1>6 DEF Queries!Item, ItemRecords
  <2> QED
    BY <2>1 DEF Queries!Item, Named
<1>8. x.entity = s.entity /\ x.meeting = s.meeting /\ x.topic = s.topic /\ x.says = s.says
  BY <1>2 DEF Queries!Item
<1>9. Saying(x, x.meeting, at)
  BY <1>8 DEF Saying
<1> QED
  BY <1>7, <1>8, <1>9 DEF ItemsOf

\* Each builder makes items of what is reported; with no entity, of any.
LEMMA BuiltItems ==
  ASSUME NEW at \in SUBSET Mentions, NEW e, NEW chosen \in SUBSET DOMAIN Report(at), NEW made,
         \A i \in chosen : made[i] \in ItemsOf(e, at)
  PROVE  Queries!Each(chosen, made) \in Seq(ItemsOf(e, at))
<1>1. Report(at) \in Seq(Queries!SignalRecords)
  BY ReportIs
<1>2. DOMAIN Report(at) = 1 .. Len(Report(at)) /\ Len(Report(at)) \in Nat
  BY <1>1
<1>3. IsFiniteSet(chosen) /\ chosen \in SUBSET Nat
  BY <1>2, UpToFinite, FS_Subset
<1> QED
  BY <1>3, EachIs

\* What is about an entity is reported.
LEMMA AboutIs ==
  ASSUME NEW at \in SUBSET Mentions, NEW source, NEW e, NEW i \in Queries!About(Report(at), source, e)
  PROVE  /\ i \in DOMAIN Report(at) /\ Report(at)[i] \in Reports(at)
         /\ e \in {Report(at)[i].entity, Nobody}
BY DEF Queries!About, Reports

\* Items with a level are items of what is reported.
LEMMA LevelledIs ==
  ASSUME NEW at \in SUBSET Mentions, NEW source, NEW e, NEW type \in Queries!EvidenceTypes, NEW intent,
         NEW text \in BOOLEAN, NEW chosen \in SUBSET Queries!About(Report(at), source, e)
  PROVE  Queries!Each(chosen, Queries!Levelled(Report(at), type, intent, text)) \in Seq(ItemsOf(e, at))
<1>1. ASSUME NEW i \in chosen
      PROVE  Queries!Levelled(Report(at), type, intent, text)[i] \in ItemsOf(e, at)
  <2>1. /\ i \in DOMAIN Report(at) /\ Report(at)[i] \in Reports(at)
        /\ e \in {Report(at)[i].entity, Nobody}
    BY AboutIs
  <2>2. Queries!Item(Report(at)[i], type, Queries!Weight(Report(at)[i].level), intent, text)
           \in ItemsOf(e, at)
    BY <2>1, NumbersOf, ItemIs
  <2> QED
    BY <2>1, <2>2 DEF Queries!Levelled
<1>2. chosen \subseteq DOMAIN Report(at)
  BY AboutIs
<1> QED
  BY <1>1, <1>2, BuiltItems

\* The builders of items with a level.
LEMMA LevelledBuilders ==
  ASSUME NEW at \in SUBSET Mentions, NEW e, NEW intent, NEW text \in BOOLEAN, NEW multiHop
  PROVE  /\ Queries!AttentionEvidence(Report(at), intent, e) \in Seq(ItemsOf(e, at))
         /\ Queries!InsightEvidence(Report(at), intent, e, text) \in Seq(ItemsOf(e, at))
         /\ Queries!ImpactEvidence(Report(at), intent, e, multiHop) \in Seq(ItemsOf(e, at))
         /\ Queries!ActionEvidence(Report(at), intent, e) \in Seq(ItemsOf(e, at))
<1> {"ATTENTION", "INSIGHT", "IMPACT", "ACTION"} \subseteq Queries!EvidenceTypes
  BY DEF Queries!EvidenceTypes
<1>1. Queries!AttentionEvidence(Report(at), intent, e) \in Seq(ItemsOf(e, at))
  BY LevelledIs DEF Queries!AttentionEvidence
<1>2. Queries!InsightEvidence(Report(at), intent, e, text) \in Seq(ItemsOf(e, at))
  BY LevelledIs DEF Queries!InsightEvidence
<1>3. Queries!ImpactEvidence(Report(at), intent, e, multiHop) \in Seq(ItemsOf(e, at))
  BY LevelledIs DEF Queries!ImpactEvidence
<1>4. Queries!ActionEvidence(Report(at), intent, e) \in Seq(ItemsOf(e, at))
  BY LevelledIs DEF Queries!ActionEvidence
<1> QED
  BY <1>1, <1>2, <1>3, <1>4

\* The builder of changes.
LEMMA ChangeBuilder ==
  ASSUME NEW at \in SUBSET Mentions, NEW e, NEW intent, NEW text \in BOOLEAN, NEW limit \in Nat
  PROVE  Queries!ChangeEvidence(Report(at), intent, e, limit, text) \in Seq(ItemsOf(e, at))
<1>1. "ORGANISATION_CHANGE" \in Queries!EvidenceTypes
  BY DEF Queries!EvidenceTypes
<1>2. Queries!Each(Queries!About(Report(at), "change", e),
                   Queries!Levelled(Report(at), "ORGANISATION_CHANGE", intent, text)) \in Seq(ItemsOf(e, at))
  BY <1>1, LevelledIs
<1> QED
  BY <1>2, FirstIs DEF Queries!ChangeEvidence

\* The builder of the timeline, whose items have a weight of their own.
LEMMA TimelineBuilder ==
  ASSUME NEW at \in SUBSET Mentions, NEW e, NEW intent, NEW text \in BOOLEAN
  PROVE  Queries!TimelineEvidence(Report(at), intent, e, text) \in Seq(ItemsOf(e, at))
<1> DEFINE chosen == {i \in Queries!About(Report(at), "timeline", e) :
                        Report(at)[i].what \in {"OBSERVATION", "STATE_TRANSITION"}}
           weight(s) == IF s.what = "OBSERVATION" THEN 1
                        ELSE IF s.level \in {"BLOCKED", "RESOLVED"} THEN 3 ELSE 2
           made == [i \in DOMAIN Report(at) |-> LET s == Report(at)[i] IN
                      Queries!Item(s, s.what, weight(s), intent, text)]
<1>1. ASSUME NEW i \in chosen PROVE made[i] \in ItemsOf(e, at)
  <2>1. /\ i \in DOMAIN Report(at) /\ Report(at)[i] \in Reports(at)
        /\ e \in {Report(at)[i].entity, Nobody}
    BY AboutIs
  <2>2. Report(at)[i].what \in Queries!EvidenceTypes
    BY DEF Queries!EvidenceTypes
  <2>3. weight(Report(at)[i]) \in Int
    OBVIOUS
  <2> HIDE DEF weight
  <2>4. Queries!Item(Report(at)[i], Report(at)[i].what, weight(Report(at)[i]), intent, text)
           \in ItemsOf(e, at)
    BY <2>1, <2>2, <2>3, ItemIs
  <2> QED
    BY <2>1, <2>4
<1>2. chosen \subseteq DOMAIN Report(at)
  BY AboutIs
<1>3. Queries!TimelineEvidence(Report(at), intent, e, text) = Queries!Each(chosen, made)
  BY DEF Queries!TimelineEvidence
<1> HIDE DEF chosen, made
<1> QED
  BY <1>1, <1>2, <1>3, BuiltItems

\* What is remembered of an entity.
LEMMA MemoryBuilder ==
  ASSUME NEW at \in SUBSET Mentions, NEW e, NEW intent
  PROVE  Queries!MemoryEvidence(Report(at), intent, e) \in Seq(ItemsOf(e, at))
<1> DEFINE chosen == Queries!About(Report(at), "memory", e)
           weight(s) == IF s.what = "STATE_TRANSITION" THEN 2 ELSE 1
           type(s) == IF s.what = "CURRENT_STATE" THEN "STATE" ELSE "MEMORY_FACT"
           made == [i \in DOMAIN Report(at) |-> LET s == Report(at)[i] IN
                      Queries!Item([s EXCEPT !.key = s.what], type(s), weight(s), intent, FALSE)]
<1>1. ASSUME NEW i \in chosen PROVE made[i] \in ItemsOf(e, at)
  <2>1. /\ i \in DOMAIN Report(at) /\ Report(at)[i] \in Reports(at)
        /\ e \in {Report(at)[i].entity, Nobody}
    BY AboutIs
  <2>2. type(Report(at)[i]) \in Queries!EvidenceTypes
    BY DEF Queries!EvidenceTypes
  <2>3. weight(Report(at)[i]) \in Int
    OBVIOUS
  <2> HIDE DEF weight, type
  <2>4. Queries!Item([Report(at)[i] EXCEPT !.key = Report(at)[i].what], type(Report(at)[i]),
                     weight(Report(at)[i]), intent, FALSE) \in ItemsOf(e, at)
    BY <2>1, <2>2, <2>3, ItemIs
  <2> QED
    BY <2>1, <2>4
<1>2. chosen \subseteq DOMAIN Report(at)
  BY AboutIs
<1>3. Queries!MemoryEvidence(Report(at), intent, e) = Queries!Each(chosen, made)
  BY DEF Queries!MemoryEvidence
<1> HIDE DEF chosen, made
<1> QED
  BY <1>1, <1>2, <1>3, BuiltItems

\* The builders of direct dependencies, paths, relationships and impacts.
LEMMA LinkBuilders ==
  ASSUME NEW at \in SUBSET Mentions, NEW e, NEW intent, NEW text \in BOOLEAN
  PROVE  /\ Queries!DependencyEvidence(Report(at), intent, e) \in Seq(ItemsOf(e, at))
         /\ Queries!RelationshipEvidence(Report(at), intent, e, text) \in Seq(ItemsOf(e, at))
<1>1. Queries!DependencyEvidence(Report(at), intent, e) \in Seq(ItemsOf(e, at))
  <2> DEFINE chosen == Queries!About(Report(at), "path", e)
             weight(s) == IF s.what = "DIRECT" THEN 3 ELSE 2
             made == [i \in DOMAIN Report(at) |->
                        Queries!Item(Report(at)[i], "DEPENDENCY_PATH", weight(Report(at)[i]), intent, FALSE)]
  <2>1. ASSUME NEW i \in chosen PROVE made[i] \in ItemsOf(e, at)
    <3>1. /\ i \in DOMAIN Report(at) /\ Report(at)[i] \in Reports(at)
          /\ e \in {Report(at)[i].entity, Nobody}
      BY AboutIs
    <3>2. weight(Report(at)[i]) \in Int /\ "DEPENDENCY_PATH" \in Queries!EvidenceTypes
      BY DEF Queries!EvidenceTypes
    <3> HIDE DEF weight
    <3>3. Queries!Item(Report(at)[i], "DEPENDENCY_PATH", weight(Report(at)[i]), intent, FALSE) \in ItemsOf(e, at)
      BY <3>1, <3>2, ItemIs
    <3> QED
      BY <3>1, <3>3
  <2>2. chosen \subseteq DOMAIN Report(at)
    BY AboutIs
  <2>3. Queries!DependencyEvidence(Report(at), intent, e) = Queries!Each(chosen, made)
    BY DEF Queries!DependencyEvidence
  <2> HIDE DEF chosen, made
  <2> QED
    BY <2>1, <2>2, <2>3, BuiltItems
<1>2. Queries!RelationshipEvidence(Report(at), intent, e, text) \in Seq(ItemsOf(e, at))
  <2> DEFINE chosen == Queries!About(Report(at), "relationship", e)
             made == [i \in DOMAIN Report(at) |->
                        Queries!Item(Report(at)[i], "RELATIONSHIP", 3, intent, text)]
  <2>1. ASSUME NEW i \in chosen PROVE made[i] \in ItemsOf(e, at)
    <3>1. /\ i \in DOMAIN Report(at) /\ Report(at)[i] \in Reports(at)
          /\ e \in {Report(at)[i].entity, Nobody}
      BY AboutIs
    <3>2. "RELATIONSHIP" \in Queries!EvidenceTypes /\ 3 \in Int
      BY DEF Queries!EvidenceTypes
    <3>3. Queries!Item(Report(at)[i], "RELATIONSHIP", 3, intent, text) \in ItemsOf(e, at)
      BY <3>1, <3>2, ItemIs
    <3> QED
      BY <3>1, <3>3
  <2>2. chosen \subseteq DOMAIN Report(at)
    BY AboutIs
  <2>3. Queries!RelationshipEvidence(Report(at), intent, e, text) = Queries!Each(chosen, made)
    BY DEF Queries!RelationshipEvidence
  <2> HIDE DEF chosen, made
  <2> QED
    BY <2>1, <2>2, <2>3, BuiltItems
<1> QED
  BY <1>1, <1>2

\* The builder of the portfolio.
LEMMA PortfolioBuilder ==
  ASSUME NEW at \in SUBSET Mentions, NEW intent, NEW riskOnly
  PROVE  Queries!PortfolioEvidence(Report(at), intent, riskOnly) \in Seq(ItemsOf(Nobody, at))
<1> DEFINE chosen == {i \in Queries!About(Report(at), "portfolio", Nobody) :
                        \/ ~riskOnly \/ Report(at)[i].entity = Nobody
                        \/ Report(at)[i].level \in {"CRITICAL", "HIGH"}}
           weight(s) == IF s.entity = Nobody THEN (IF s.level = "CRITICAL" THEN 4 ELSE 3)
                        ELSE Queries!Weight(s.level)
           made == [i \in DOMAIN Report(at) |-> LET s == Report(at)[i] IN
                      Queries!Item(s, "MEMORY_FACT", weight(s), intent, FALSE)]
<1>1. ASSUME NEW i \in chosen PROVE made[i] \in ItemsOf(Nobody, at)
  <2>1. i \in DOMAIN Report(at) /\ Report(at)[i] \in Reports(at)
    BY AboutIs
  <2>2. weight(Report(at)[i]) \in Int /\ "MEMORY_FACT" \in Queries!EvidenceTypes
    BY NumbersOf DEF Queries!EvidenceTypes
  <2> HIDE DEF weight
  <2>3. Queries!Item(Report(at)[i], "MEMORY_FACT", weight(Report(at)[i]), intent, FALSE) \in ItemsOf(Nobody, at)
    BY <2>1, <2>2, ItemIs
  <2> QED
    BY <2>1, <2>3
<1>2. chosen \subseteq DOMAIN Report(at)
  BY AboutIs
<1>3. Queries!PortfolioEvidence(Report(at), intent, riskOnly) = Queries!Each(chosen, made)
  BY DEF Queries!PortfolioEvidence
<1> HIDE DEF chosen, made
<1> QED
  BY <1>1, <1>2, <1>3, BuiltItems

\* Sorting by urgency takes every item to one place.
LEMMA TopBuilder ==
  ASSUME NEW at \in SUBSET Mentions, NEW intent, NEW limit \in Nat
  PROVE  Queries!TopAttentionEvidence(Report(at), intent, limit) \in Seq(ItemsOf(Nobody, at))
<1> DEFINE all == Queries!AttentionEvidence(Report(at), intent, Nobody)
           D == DOMAIN all
           R == {p \in D \X D : \/ all[p[1]].weight > all[p[2]].weight
                                \/ all[p[1]].weight = all[p[2]].weight /\ p[1] < p[2]}
           upTo(i) == {j \in D : \/ all[j].weight > all[i].weight
                                 \/ all[j].weight = all[i].weight /\ j <= i}
           sorted == [n \in D |-> all[CHOOSE i \in D : Queries!Cardinality(upTo(i)) = n]]
<1>1. all \in Seq(ItemsOf(Nobody, at))
  BY LevelledBuilders
<1>2. Queries!TopAttentionEvidence(Report(at), intent, limit) = Queries!First(sorted, limit)
  BY DEF Queries!TopAttentionEvidence
<1> HIDE DEF all
<1>3. D = 1 .. Len(all) /\ Len(all) \in Nat
  BY <1>1
<1>4. IsFiniteSet(D) /\ Cardinality(D) = Len(all)
  <2>1. IsFiniteSet(1 .. Len(all)) /\ Cardinality(1 .. Len(all)) = Len(all)
    BY <1>3, UpToFinite
  <2> QED
    BY <1>3, <2>1
<1>5. \A i \in D : i \in Int /\ all[i] \in ItemsOf(Nobody, at) /\ all[i].weight \in Int
  <2>1. \A i \in D : i \in Int /\ all[i] \in ItemsOf(Nobody, at)
    BY <1>1, <1>3
  <2>2. \A x \in ItemsOf(Nobody, at) : x.weight \in Int
    BY DEF ItemsOf, ItemRecords
  <2> QED
    BY <2>1, <2>2
<1>6. \A i, j \in D : <<j, i>> \in R <=> \/ all[j].weight > all[i].weight
                                         \/ all[j].weight = all[i].weight /\ j < i
  OBVIOUS
<1> HIDE DEF R, D
<1>7. StrictOrder(D, R)
  BY <1>5, <1>6 DEF StrictOrder
<1>8. ASSUME NEW i \in D PROVE upTo(i) = Preceding(D, R, i) \cup {i}
  <2>1. \A j \in D : j \in upTo(i) <=> <<j, i>> \in R \/ j = i
    BY <1>5, <1>6
  <2> QED
    BY <2>1 DEF Preceding
<1> HIDE DEF upTo
<1>9. \A n \in 1 .. Cardinality(D) : \E i \in D : Cardinality(Preceding(D, R, i) \cup {i}) = n
  BY <1>4, <1>7, RankFromOne
<1>10. \A n \in D : \E i \in D : Queries!Cardinality(upTo(i)) = n
  BY <1>3, <1>4, <1>8, <1>9, SameNumbers DEF D
<1>11. \A n \in D : sorted[n] \in ItemsOf(Nobody, at)
  BY <1>5, <1>10
<1>12. sorted \in Seq(ItemsOf(Nobody, at))
  <2>1. D = 1 .. Len(all) /\ sorted = [n \in D |-> sorted[n]]
    BY <1>3
  <2> HIDE DEF sorted
  <2> QED
    BY <1>3, <1>11, <2>1
<1> HIDE DEF sorted
<1> QED
  BY <1>2, <1>12, FirstIs

\* The builder of the entity itself.
LEMMA EntityBuilder ==
  ASSUME NEW at \in SUBSET Mentions, NEW e \in Entities, NEW intent
  PROVE  Queries!EntityEvidence(intent, e) \in Seq(ItemsOf(e, at))
<1> DEFINE x == [id |-> <<"ENTITY", e, Nobody, "entity">>, type |-> "ENTITY", entity |-> e,
                 meeting |-> Nobody, at |-> 1, weight |-> 0,
                 priority |-> Queries!Priority(intent, "ENTITY"), topic |-> "entity", says |-> 0,
                 text |-> FALSE]
<1>1. "entity" \in EvidenceKeys /\ Nobody \notin Meetings
  BY QueriesAssumption DEF Queries!ConstantsOK
<1>2. "ENTITY" \in Queries!EvidenceTypes
  BY DEF Queries!EvidenceTypes
<1>3. x.id \in Queries!EvidenceIds
  BY <1>1, <1>2 DEF Queries!EvidenceIds
<1>4. "entity" \in Topics
  BY DEF Topics
<1>5. x \in ItemRecords
  BY <1>2, <1>3, <1>4, NumbersOf DEF ItemRecords
<1>6. Named(x) /\ x.entity = e /\ x.meeting \notin Meetings
  BY <1>1 DEF Named
<1>7. x \in ItemsOf(e, at)
  BY <1>5, <1>6 DEF ItemsOf
<1>8. Queries!EntityEvidence(intent, e) = <<x>>
  BY DEF Queries!EntityEvidence
<1> HIDE DEF x
<1> QED
  BY <1>7, <1>8

\* What is retrieved for an entity is about it.
LEMMA RetrieveIs ==
  ASSUME NEW at \in SUBSET Mentions, NEW intent, NEW e, NEW limit \in Nat, NEW text \in BOOLEAN
  PROVE  Queries!Retrieve(Report(at), intent, e, limit, text) \in Seq(ItemsOf(e, at))
<1> DEFINE I == Seq(ItemsOf(e, at))
<1>1. <<>> \in I /\ \A s, t \in I : s \o t \in I
  OBVIOUS
<1>2. /\ Queries!AttentionEvidence(Report(at), intent, e) \in I
      /\ Queries!InsightEvidence(Report(at), intent, e, text) \in I
      /\ Queries!ImpactEvidence(Report(at), intent, e, TRUE) \in I
      /\ Queries!ImpactEvidence(Report(at), intent, e, FALSE) \in I
      /\ Queries!ActionEvidence(Report(at), intent, e) \in I
  BY LevelledBuilders
<1>3. /\ Queries!TimelineEvidence(Report(at), intent, e, text) \in I
      /\ Queries!MemoryEvidence(Report(at), intent, e) \in I
      /\ Queries!ChangeEvidence(Report(at), intent, e, limit, text) \in I
  BY TimelineBuilder, MemoryBuilder, ChangeBuilder
<1>4. /\ Queries!DependencyEvidence(Report(at), intent, e) \in I
      /\ Queries!RelationshipEvidence(Report(at), intent, e, text) \in I
  BY LinkBuilders
<1>5. e \in Entities => Queries!EntityEvidence(intent, e) \in I
  BY EntityBuilder
<1>6. e = Nobody =>
         /\ Queries!PortfolioEvidence(Report(at), intent, intent = "ORGANISATION_RISKS") \in I
         /\ Queries!TopAttentionEvidence(Report(at), intent, limit) \in I
  BY PortfolioBuilder, TopBuilder
<1> SUFFICES Queries!Retrieve(Report(at), intent, e, limit, text) \in I
  OBVIOUS
<1> HIDE DEF I
<1> DEFINE timeline == Queries!TimelineEvidence(Report(at), intent, e, text)
           memory == Queries!MemoryEvidence(Report(at), intent, e)
           attention == Queries!AttentionEvidence(Report(at), intent, e)
           insight == Queries!InsightEvidence(Report(at), intent, e, text)
           direct == Queries!ImpactEvidence(Report(at), intent, e, FALSE)
           path == Queries!DependencyEvidence(Report(at), intent, e)
           relationship == Queries!RelationshipEvidence(Report(at), intent, e, text)
           impact == Queries!ImpactEvidence(Report(at), intent, e, TRUE)
           action == Queries!ActionEvidence(Report(at), intent, e)
           change == Queries!ChangeEvidence(Report(at), intent, e, limit, text)
           portfolio == Queries!PortfolioEvidence(Report(at), intent, intent = "ORGANISATION_RISKS")
           top == Queries!TopAttentionEvidence(Report(at), intent, limit)
<1>7. CASE e # Nobody
  <2> DEFINE head == IF e \in Entities THEN Queries!EntityEvidence(intent, e) ELSE <<>>
             rest == CASE intent = "ENTITY_STATUS" -> timeline \o memory \o attention \o insight
                       [] intent = "ENTITY_HISTORY" -> timeline \o memory
                       [] intent = "ENTITY_RISKS" -> attention \o insight \o direct \o timeline
                       [] intent = "ENTITY_DEPENDENCIES" -> path \o relationship
                       [] intent = "ENTITY_IMPACTS" -> impact
                       [] intent = "ENTITY_ACTIONS" -> action \o attention \o insight
                       [] intent = "ENTITY_CHANGES" -> change
                       [] OTHER -> <<>>
  <2>1. Queries!Retrieve(Report(at), intent, e, limit, text) = head \o rest
    BY <1>7 DEF Queries!Retrieve
  <2>2. head \in I
    BY <1>1, <1>5
  <2>3. rest \in I
    <3>1. /\ timeline \in I /\ memory \in I /\ attention \in I /\ insight \in I /\ direct \in I
          /\ path \in I /\ relationship \in I /\ impact \in I /\ action \in I /\ change \in I
      BY <1>2, <1>3, <1>4
    <3> HIDE DEF timeline, memory, attention, insight, direct, path, relationship, impact, action, change
    <3>2. timeline \o memory \in I /\ action \o attention \in I /\ attention \o insight \in I
      BY ONLY <1>1, <3>1
    <3>3. /\ (timeline \o memory) \o attention \in I
          /\ (attention \o insight) \o direct \in I
          /\ (action \o attention) \o insight \in I
      BY ONLY <1>1, <3>1, <3>2
    <3>4. /\ ((timeline \o memory) \o attention) \o insight \in I
          /\ ((attention \o insight) \o direct) \o timeline \in I
          /\ path \o relationship \in I
      BY ONLY <1>1, <3>1, <3>3
    <3> QED
      BY ONLY <1>1, <3>1, <3>2, <3>3, <3>4
  <2> HIDE DEF head, rest
  <2> QED
    BY ONLY <1>1, <2>1, <2>2, <2>3
<1>8. CASE e = Nobody
  <2>1. change \in I /\ portfolio \in I /\ top \in I
    BY <1>3, <1>6, <1>8
  <2>2. Queries!Retrieve(Report(at), intent, e, limit, text) =
           CASE intent = "ORGANISATION_CHANGES" -> change
             [] intent \in {"ORGANISATION_PRIORITIES", "ORGANISATION_RISKS"} -> portfolio \o top
             [] OTHER -> <<>>
    BY <1>8 DEF Queries!Retrieve
  <2> HIDE DEF change, portfolio, top
  <2>3. portfolio \o top \in I
    BY ONLY <1>1, <2>1
  <2> QED
    BY <1>1, <2>1, <2>2, <2>3
<1> QED
  BY <1>7, <1>8

-----------------------------------------------------------------------------
(* Sets of items that have distinct ids: what is read, and the corpus.     *)

DistinctIds(X) == \A x, y \in X : x.id = y.id => x = y

\* The image of a finite set is finite.
LEMMA ImageFinite ==
  ASSUME NEW S, IsFiniteSet(S), NEW f, DOMAIN f = S
  PROVE  IsFiniteSet({f[x] : x \in S})
<1> DEFINE T == {f[x] : x \in S}
           g == [x \in S |-> f[x]]
<1>1. g \in [S -> T] /\ \A t \in T : \E x \in S : g[x] = t
  OBVIOUS
<1>2. g \in Surjection(S, T)
  BY <1>1 DEF Surjection
<1> QED
  BY <1>2, FS_Surjection

\* Of the items of one id the last is kept: they form a set with distinct ids.
LEMMA LastOfIs ==
  ASSUME NEW A, NEW s \in Seq(A)
  PROVE  /\ Queries!LastOf(s) \in SUBSET A
         /\ IsFiniteSet(Queries!LastOf(s))
         /\ DistinctIds(Queries!LastOf(s))
<1>1. DOMAIN s = 1 .. Len(s) /\ Len(s) \in Nat /\ \A i \in 1 .. Len(s) : s[i] \in A
  BY ElementOfSeq
<1> DEFINE last == {j \in DOMAIN s : \A k \in j + 1 .. Len(s) : s[k].id # s[j].id}
           all == {s[i] : i \in 1 .. Len(s)}
<1>2. Queries!LastOf(s) = {s[i] : i \in last}
  BY DEF Queries!LastOf
<1>3. IsFiniteSet(all)
  BY <1>1, UpToFinite, ImageFinite
<1>4. Queries!LastOf(s) \subseteq all
  BY <1>1, <1>2
<1>5. IsFiniteSet(Queries!LastOf(s))
  BY <1>3, <1>4, FS_Subset
<1>6. ASSUME NEW i \in last, NEW j \in last, s[i].id = s[j].id PROVE i = j
  <2>1. i \in Int /\ j \in Int /\ j <= Len(s) /\ i <= Len(s)
    BY <1>1
  <2>2. ~(i < j)
    BY <1>6, <1>1, <2>1
  <2>3. ~(j < i)
    BY <1>6, <1>1, <2>1
  <2> QED
    BY <2>1, <2>2, <2>3
<1>7. DistinctIds(Queries!LastOf(s))
  BY <1>2, <1>6 DEF DistinctIds
<1> QED
  BY <1>1, <1>2, <1>5, <1>7

\* A set of items that a context can be built from.
Evidence(e, at) == {X \in SUBSET ItemsOf(e, at) : IsFiniteSet(X) /\ DistinctIds(X)}

\* What is read for an intent, and kept, is evidence.
LEMMA ReadIs ==
  ASSUME NEW at \in SUBSET Mentions, NEW intent, NEW e, NEW limit \in Nat, NEW text \in BOOLEAN
  PROVE  Queries!LastOf(Queries!Retrieve(Report(at), intent, e, limit, text)) \in Evidence(e, at)
BY RetrieveIs, LastOfIs DEF Evidence

\* So is what each intent adds to the corpus.
LEMMA CorpusReads ==
  ASSUME NEW at \in SUBSET Mentions, NEW intent, NEW e
  PROVE  Queries!LastOf(Queries!Retrieve(Report(at), intent, e, Queries!CorpusLimit, TRUE)) \in Evidence(e, at)
<1>1. Queries!CorpusLimit \in Nat /\ TRUE \in BOOLEAN
  BY DEF Queries!CorpusLimit
<1> QED
  BY <1>1, ReadIs

\* Items of an entity are items for a request that names none.
LEMMA OfNobody ==
  ASSUME NEW at, NEW e
  PROVE  ItemsOf(e, at) \subseteq ItemsOf(Nobody, at)
BY DEF ItemsOf

\* What one intent adds to the corpus: no item of an entity is one of another.
LEMMA PassIs ==
  ASSUME NEW at \in SUBSET Mentions, NEW es \in SUBSET Entities, NEW intent
  PROVE  UNION {Queries!LastOf(Queries!Retrieve(Report(at), intent, e, Queries!CorpusLimit, TRUE)) : e \in es}
            \in Evidence(Nobody, at)
<1> DEFINE read == [e \in es |-> Queries!LastOf(Queries!Retrieve(Report(at), intent, e, Queries!CorpusLimit, TRUE))]
           reads == {read[e] : e \in es}
<1>1. ASSUME NEW e \in es PROVE read[e] \in Evidence(e, at)
  <2>1. Queries!LastOf(Queries!Retrieve(Report(at), intent, e, Queries!CorpusLimit, TRUE)) \in Evidence(e, at)
    BY CorpusReads
  <2> QED
    BY <2>1
<1>2. IsFiniteSet(es) /\ Nobody \notin es
  <2>1. IsFiniteSet(Entities) /\ Nobody \notin Entities
    BY QueriesAssumption, SameNumbers DEF Queries!ConstantsOK
  <2> QED
    BY <2>1, FS_Subset
<1>3. reads = {Queries!LastOf(Queries!Retrieve(Report(at), intent, e, Queries!CorpusLimit, TRUE)) : e \in es}
  OBVIOUS
<1>4. DOMAIN read = es
  OBVIOUS
<1> HIDE DEF read
<1>5. IsFiniteSet(reads)
  BY <1>2, <1>4, ImageFinite
<1>6. IsFiniteSet(UNION reads)
  BY <1>1, <1>5, FS_UNION DEF Evidence
<1>7. UNION reads \subseteq ItemsOf(Nobody, at)
  BY <1>1, OfNobody DEF Evidence
<1>8. ASSUME NEW x \in UNION reads, NEW y \in UNION reads, x.id = y.id PROVE x = y
  <2>1. PICK d \in es : x \in read[d]
    OBVIOUS
  <2>2. PICK e \in es : y \in read[e]
    OBVIOUS
  <2>3. x \in ItemsOf(d, at) /\ y \in ItemsOf(e, at) /\ DistinctIds(read[e])
    BY <1>1, <2>1, <2>2 DEF Evidence
  <2>4. x.entity = d /\ y.entity = e /\ x.entity = x.id[2] /\ y.entity = y.id[2]
    BY <1>2, <2>3 DEF ItemsOf, Named
  <2>5. d = e
    BY <1>8, <2>4
  <2> QED
    BY <1>8, <2>1, <2>2, <2>3, <2>5 DEF DistinctIds
<1>9. UNION reads \in Evidence(Nobody, at)
  BY <1>6, <1>7, <1>8 DEF Evidence, DistinctIds
<1> QED
  BY <1>3, <1>9

\* The last intent that retrieves an id decides, so the corpus has one item of each.
LEMMA CorpusIs ==
  ASSUME NEW at \in SUBSET Mentions, NEW es \in SUBSET Entities
  PROVE  Queries!CorpusOf(Report(at), es) \in Evidence(Nobody, at)
<1> DEFINE D == DOMAIN Queries!CorpusOrder
           asked(i) == IF Queries!CorpusOrder[i] \in Queries!EntityIntents THEN es ELSE {Nobody}
           pass(i) == UNION {Queries!LastOf(Queries!Retrieve(Report(at), Queries!CorpusOrder[i], e, Queries!CorpusLimit, TRUE)) :
                                e \in asked(i)}
           passes == [i \in D |-> pass(i)]
           found == UNION {{<<i, x>> : x \in pass(i)} : i \in D}
           kept == {f \in found : \A g \in found : g[2].id = f[2].id => g[1] <= f[1]}
           corpus == {p[2] : p \in kept}
           all == {passes[i] : i \in D}
<1>1. Queries!CorpusOf(Report(at), es) = corpus
  BY DEF Queries!CorpusOf
<1>2. D = 1 .. 10
  BY DEF Queries!CorpusOrder
<1>3. ASSUME NEW i \in D PROVE passes[i] \in Evidence(Nobody, at)
  <2>1. passes[i] = pass(i)
    OBVIOUS
  <2>2. CASE asked(i) = {Nobody}
    <3>1. pass(i) = Queries!LastOf(Queries!Retrieve(Report(at), Queries!CorpusOrder[i], Nobody, Queries!CorpusLimit, TRUE))
      BY <2>2
    <3>3. Queries!LastOf(Queries!Retrieve(Report(at), Queries!CorpusOrder[i], Nobody, Queries!CorpusLimit, TRUE))
             \in Evidence(Nobody, at)
      BY CorpusReads
    <3> HIDE DEF pass
    <3>2. pass(i) \in Evidence(Nobody, at)
      BY <3>1, <3>3
    <3> QED
      BY <2>1, <3>2
  <2>3. CASE asked(i) = es
    <3>1. UNION {Queries!LastOf(Queries!Retrieve(Report(at), Queries!CorpusOrder[i], e, Queries!CorpusLimit, TRUE)) :
                 e \in es} \in Evidence(Nobody, at)
      BY PassIs
    <3>2. pass(i) \in Evidence(Nobody, at)
      BY <2>3, <3>1
    <3> QED
      BY <2>1, <3>2
  <2> QED
    BY <2>2, <2>3
<1>4. \A f \in found : f[1] \in D /\ f[2] \in passes[f[1]]
  <2> TAKE f \in found
  <2>1. \A i \in D : passes[i] = pass(i)
    OBVIOUS
  <2> HIDE DEF D, pass, passes
  <2>2. PICK i \in D : f \in {<<i, x>> : x \in pass(i)}
    OBVIOUS
  <2> QED
    BY <2>1, <2>2
<1> HIDE DEF passes, found, D
<1>5. \A x \in corpus : \E f \in kept : f[2] = x /\ f[1] \in D /\ x \in passes[f[1]]
  BY <1>4
<1>6. IsFiniteSet(UNION all)
  <2>1. IsFiniteSet(D) /\ DOMAIN passes = D
    BY <1>2, UpToFinite DEF passes
  <2>2. IsFiniteSet(all)
    BY <2>1, ImageFinite
  <2> QED
    BY <1>3, <2>2, FS_UNION DEF Evidence
<1>7. corpus \subseteq UNION all
  BY <1>5
<1>8. corpus \subseteq ItemsOf(Nobody, at)
  BY <1>3, <1>5 DEF Evidence
<1>9. ASSUME NEW x \in corpus, NEW y \in corpus, x.id = y.id PROVE x = y
  <2>1. PICK f \in kept : f[2] = x /\ f[1] \in D /\ x \in passes[f[1]]
    BY <1>5
  <2>2. PICK g \in kept : g[2] = y /\ g[1] \in D /\ y \in passes[g[1]]
    BY <1>5
  <2>3. f[1] <= g[1] /\ g[1] <= f[1]
    BY <1>9, <2>1, <2>2
  <2>4. f[1] = g[1]
    BY <1>2, <2>1, <2>2, <2>3
  <2> QED
    BY <1>3, <1>9, <2>1, <2>2, <2>4 DEF Evidence, DistinctIds
<1>10. corpus \in Evidence(Nobody, at)
  BY <1>6, <1>7, <1>8, <1>9, FS_Subset DEF Evidence, DistinctIds
<1> QED
  BY <1>1, <1>10

\* So the tabulated corpora are evidence.
LEMMA CorporaAre ==
  ASSUME NEW at \in SUBSET Mentions, NEW es \in SUBSET Entities
  PROVE  Corpora[at][es] \in Evidence(Nobody, at)
<1>1. Corpora[at][es] = Queries!CorpusOf(Report(at), es)
  BY QueriesAssumption DEF Queries!ConstantsOK
<1> QED
  BY <1>1, CorpusIs

-----------------------------------------------------------------------------
(* The ranking, and the context made of the best that fit.                 *)

ItemSets == {X \in SUBSET ItemRecords : IsFiniteSet(X) /\ DistinctIds(X) /\ \A x \in X : Named(x)}

\* Evidence is a set of items with distinct ids.
LEMMA EvidenceIsSet == \A e, at : Evidence(e, at) \subseteq ItemSets
BY DEF Evidence, ItemSets, ItemsOf

BeforeIn(X) == {p \in X \X X : Queries!Before(p[1], p[2])}

\* The order of the ranking is strict and total on items with distinct ids.
LEMMA BeforeOrders ==
  ASSUME NEW X \in ItemSets
  PROVE  StrictOrder(X, BeforeIn(X))
<1>1. \A x \in X : /\ x.weight \in Int /\ x.priority \in Int /\ x.at \in Int
                   /\ x.id \in Queries!EvidenceIds
  BY DEF ItemSets, ItemRecords
<1>2. \A a, b \in Queries!EvidenceIds : Hash(a) \in Int /\ (Hash(a) = Hash(b) => a = b)
  BY QueriesAssumption DEF Queries!ConstantsOK
<1>3. \A x, y \in X : Hash(x.id) \in Int /\ (Hash(x.id) = Hash(y.id) => x = y)
  BY <1>1, <1>2 DEF ItemSets, DistinctIds
<1>4. \A x, y \in X : <<x, y>> \in BeforeIn(X) <=> Queries!Before(x, y)
  BY DEF BeforeIn
<1>5. ASSUME NEW x \in X, NEW y \in X, x # y PROVE Queries!Before(x, y) \/ Queries!Before(y, x)
  BY <1>1, <1>3, <1>5 DEF Queries!Before, Queries!HashOrder
<1>6. ASSUME NEW x \in X PROVE ~Queries!Before(x, x)
  BY <1>1, <1>3 DEF Queries!Before, Queries!HashOrder
<1>7. ASSUME NEW x \in X, NEW y \in X, NEW z \in X, Queries!Before(x, y), Queries!Before(y, z)
      PROVE  Queries!Before(x, z)
  BY <1>1, <1>3, <1>7 DEF Queries!Before, Queries!HashOrder
<1> QED
  BY <1>4, <1>5, <1>6, <1>7 DEF StrictOrder

\* How many items come before one.
Above(X, x) == Queries!Cardinality({y \in X : Queries!Before(y, x)})

\* The ranks of the items are the numbers below their count, each once.
LEMMA AboveIs ==
  ASSUME NEW X \in ItemSets
  PROVE  /\ \A x \in X : Above(X, x) \in 0 .. Cardinality(X) - 1
         /\ \A x, y \in X : Above(X, x) = Above(X, y) => x = y
         /\ \A n \in 0 .. Cardinality(X) - 1 : \E x \in X : Above(X, x) = n
         /\ \A x, y \in X : Queries!Before(x, y) => Above(X, x) < Above(X, y)
<1> DEFINE R == BeforeIn(X)
<1>1. StrictOrder(X, R) /\ IsFiniteSet(X)
  BY BeforeOrders DEF ItemSets
<1>2. \A x \in X : {y \in X : Queries!Before(y, x)} = Preceding(X, R, x)
  BY DEF Preceding, BeforeIn
<1>3. \A x \in X : Above(X, x) = Cardinality(Preceding(X, R, x))
  BY <1>2, SameNumbers DEF Above
<1>4. \A x, y \in X : Queries!Before(x, y) => <<x, y>> \in R
  BY DEF BeforeIn
<1> HIDE DEF R
<1>5. /\ \A x \in X : Cardinality(Preceding(X, R, x)) \in 0 .. Cardinality(X) - 1
      /\ \A x, y \in X : Cardinality(Preceding(X, R, x)) = Cardinality(Preceding(X, R, y)) => x = y
      /\ \A n \in 0 .. Cardinality(X) - 1 : \E x \in X : Cardinality(Preceding(X, R, x)) = n
  BY <1>1, RankOnto
<1>6. \A x, y \in X : <<x, y>> \in R =>
         Cardinality(Preceding(X, R, x)) < Cardinality(Preceding(X, R, y))
  BY <1>1, RankGrows
<1>7. \A x \in X : Above(X, x) \in 0 .. Cardinality(X) - 1
  BY <1>3, <1>5
<1>8. \A x, y \in X : Above(X, x) = Above(X, y) => x = y
  BY <1>3, <1>5
<1>9. \A n \in 0 .. Cardinality(X) - 1 : \E x \in X : Above(X, x) = n
  BY <1>3, <1>5
<1>10. \A x, y \in X : Queries!Before(x, y) => Above(X, x) < Above(X, y)
  BY <1>3, <1>4, <1>6
<1> QED
  BY <1>7, <1>8, <1>9, <1>10

\* Ranking lists the items of the set, each once.
LEMMA RankedIs ==
  ASSUME NEW X \in ItemSets
  PROVE  /\ Queries!Ranked(X) \in Seq(X) /\ Len(Queries!Ranked(X)) = Cardinality(X)
         /\ Cardinality(X) \in Nat
         /\ \A n \in 1 .. Cardinality(X) : Queries!Ranked(X)[n] \in X /\ Above(X, Queries!Ranked(X)[n]) = n - 1
<1> DEFINE r == Queries!Ranked(X)
<1>1. Cardinality(X) \in Nat
  BY FS_CardinalityType DEF ItemSets
<1>2. r = [n \in 1 .. Cardinality(X) |-> CHOOSE x \in X : Above(X, x) = n - 1]
  <2>1. r = [n \in 1 .. Queries!Cardinality(X) |-> CHOOSE x \in X : Above(X, x) = n - 1]
    BY DEF Queries!Ranked, Above
  <2> HIDE DEF r
  <2> QED
    BY <2>1, SameNumbers
<1>3. ASSUME NEW n \in 1 .. Cardinality(X) PROVE r[n] \in X /\ Above(X, r[n]) = n - 1
  <2>1. n - 1 \in 0 .. Cardinality(X) - 1
    BY <1>1
  <2>2. \E x \in X : Above(X, x) = n - 1
    BY <2>1, AboveIs
  <2>3. r[n] = CHOOSE x \in X : Above(X, x) = n - 1
    BY <1>2
  <2> QED
    BY <2>2, <2>3
<1>4. DOMAIN r = 1 .. Cardinality(X)
  BY <1>2
<1> HIDE DEF r
<1>5. r = [n \in 1 .. Cardinality(X) |-> r[n]]
  BY <1>2
<1>6. r \in Seq(X) /\ Len(r) = Cardinality(X)
  BY <1>1, <1>3, <1>4, <1>5
<1> QED
  BY <1>1, <1>3, <1>6 DEF r

\* Each item has its place.
LEMMA RankedAt ==
  ASSUME NEW X \in ItemSets, NEW x \in X
  PROVE  /\ Above(X, x) + 1 \in 1 .. Cardinality(X)
         /\ Queries!Ranked(X)[Above(X, x) + 1] = x
<1>1. Above(X, x) \in 0 .. Cardinality(X) - 1 /\ Cardinality(X) \in Nat
  BY AboveIs, RankedIs
<1> DEFINE n == Above(X, x) + 1
<1>2. n \in 1 .. Cardinality(X) /\ n - 1 = Above(X, x)
  BY <1>1
<1>3. Queries!Ranked(X)[n] \in X /\ Above(X, Queries!Ranked(X)[n]) = Above(X, x)
  BY <1>2, RankedIs
<1> QED
  BY <1>2, <1>3, AboveIs

\* The best of a set, ranked again, are the best of it.
LEMMA BestStayBest ==
  ASSUME NEW X \in ItemSets, NEW n \in Nat
  PROVE  LET best == Queries!First(Queries!Ranked(X), n)
             T == {best[i] : i \in DOMAIN best}
         IN  /\ T \in ItemSets /\ T \subseteq X
             /\ Queries!Ranked(T) = best
             /\ Cardinality(T) = Len(best)
<1> DEFINE r == Queries!Ranked(X)
           best == Queries!First(r, n)
           T == {best[i] : i \in DOMAIN best}
           k == Len(best)
<1>1. /\ r \in Seq(X) /\ Len(r) = Cardinality(X) /\ Cardinality(X) \in Nat
      /\ \A i \in 1 .. Cardinality(X) : r[i] \in X /\ Above(X, r[i]) = i - 1
  BY RankedIs
<1> HIDE DEF r
<1>2. /\ best \in Seq(X)
      /\ k = IF Len(r) < n THEN Len(r) ELSE n
      /\ \A i \in 1 .. k : i \in 1 .. Len(r) /\ best[i] = r[i]
  BY <1>1, FirstIs
<1>3. k \in Nat /\ k <= Cardinality(X) /\ DOMAIN best = 1 .. k
  BY <1>1, <1>2
<1>4. \A i \in 1 .. k : best[i] \in X /\ Above(X, best[i]) = i - 1 /\ best[i] = r[i]
  BY <1>1, <1>2
<1> HIDE DEF best
<1>5. T \subseteq X /\ \A i \in 1 .. k : best[i] \in T
  BY <1>3, <1>4
<1>6. IsFiniteSet(T) /\ DistinctIds(T) /\ T \in ItemSets
  BY <1>5, FS_Subset DEF ItemSets, DistinctIds
<1>7. Cardinality(T) = k
  <2> DEFINE f == [i \in 1 .. k |-> best[i]]
  <2>1. f \in [1 .. k -> T]
    BY <1>5
  <2>2. \A i, j \in 1 .. k : f[i] = f[j] => i = j
    BY <1>3, <1>4
  <2>3. \A t \in T : \E i \in 1 .. k : f[i] = t
    BY <1>3
  <2>4. f \in Injection(1 .. k, T) /\ f \in Surjection(1 .. k, T)
    BY <2>1, <2>2, <2>3 DEF Injection, IsInjective, Surjection
  <2>5. IsFiniteSet(1 .. k) /\ Cardinality(1 .. k) = k
    BY <1>3, UpToFinite
  <2> HIDE DEF f
  <2> QED
    BY <2>4, <2>5, FS_Surjection
<1>8. ASSUME NEW i \in 1 .. k PROVE Above(T, best[i]) = i - 1
  <2>1. ASSUME NEW y \in X, Queries!Before(y, best[i]) PROVE y \in T
    <3>1. Above(X, y) < i - 1 /\ Above(X, y) \in Nat
      BY <1>4, <2>1, AboveIs
    <3>2. Above(X, y) + 1 \in 1 .. k /\ r[Above(X, y) + 1] = y
      BY <1>3, <3>1, RankedAt DEF r
    <3> QED
      BY <1>4, <1>5, <3>2
  <2>2. {y \in T : Queries!Before(y, best[i])} = {y \in X : Queries!Before(y, best[i])}
    BY <1>5, <2>1
  <2> QED
    BY <1>4, <2>2 DEF Above
<1>9. ASSUME NEW i \in 1 .. k PROVE Queries!Ranked(T)[i] = best[i]
  <2>1. Above(T, best[i]) = i - 1 /\ Above(T, best[i]) + 1 = i
    BY <1>3, <1>8
  <2> QED
    BY <1>5, <1>6, <2>1, RankedAt
<1>10. Queries!Ranked(T) \in Seq(T) /\ Len(Queries!Ranked(T)) = k
  BY <1>6, <1>7, RankedIs
<1>11. Queries!Ranked(T) = best
  BY <1>2, <1>9, <1>10
<1> QED
  BY <1>5, <1>6, <1>7, <1>11 DEF r, best

\* A nonempty set of numbers with an upper bound has a greatest one.
LEMMA HasGreatest ==
  ASSUME NEW n \in Nat, NEW S \in SUBSET (0 .. n), S # {}
  PROVE  \E m \in S : \A k \in S : k <= m
<1> DEFINE T == {k \in 0 .. n : n - k \in S}
<1>1. T \in SUBSET Nat
  OBVIOUS
<1>2. \A m \in S : n - m \in T
  <2> SUFFICES ASSUME NEW m \in S PROVE n - m \in T
    OBVIOUS
  <2>1. n - m \in 0 .. n /\ n - (n - m) = m
    OBVIOUS
  <2> QED
    BY <2>1
<1>3. PICK t \in T : \A k \in T : t <= k
  BY <1>1, <1>2, HasLeast
<1>4. n - t \in S /\ t \in 0 .. n
  OBVIOUS
<1>5. ASSUME NEW k \in S PROVE k <= n - t
  <2>1. n - k \in T /\ k \in 0 .. n
    BY <1>2
  <2>2. t <= n - k
    BY <1>3, <2>1
  <2> QED
    BY <1>4, <2>1, <2>2
<1> QED
  BY <1>4, <1>5

\* What fits is a prefix.
LEMMA FittingIs ==
  ASSUME NEW A, NEW s \in Seq(A)
  PROVE  /\ Queries!Fitting(s) \in Seq(A) /\ Len(Queries!Fitting(s)) <= Len(s)
         /\ \A i \in 1 .. Len(Queries!Fitting(s)) : i \in 1 .. Len(s) /\ Queries!Fitting(s)[i] = s[i]
<1> DEFINE fit == {n \in 0 .. Len(s) : Queries!Length(s, n) <= Budget}
           k == CHOOSE n \in fit : \A i \in fit : i <= n
<1>1. Len(s) \in Nat /\ \A i \in 1 .. Len(s) : s[i] \in A
  BY ElementOfSeq
<1>2. Queries!Length(s, 0) = 0
  <2>1. {p \in (1 .. 0) \X (1 .. 2) : p[2] <= Queries!Characters(s[p[1]])} = {}
    OBVIOUS
  <2> QED
    BY <2>1, SameNumbers, FS_EmptySet DEF Queries!Length
<1>3. 0 \in fit
  BY <1>1, <1>2, QueriesAssumption DEF Queries!ConstantsOK
<1>4. fit \in SUBSET (0 .. Len(s))
  OBVIOUS
<1> HIDE DEF fit
<1>5. \E n \in fit : \A i \in fit : i <= n
  BY <1>1, <1>3, <1>4, HasGreatest
<1>6. k \in 0 .. Len(s)
  BY <1>4, <1>5
<1>7. Queries!Fitting(s) = SubSeq(s, 1, k)
  BY DEF Queries!Fitting, fit
<1> HIDE DEF k
<1>8. /\ SubSeq(s, 1, k) \in Seq(A) /\ Len(SubSeq(s, 1, k)) = k
      /\ \A i \in 1 .. k : SubSeq(s, 1, k)[i] = s[i]
  BY <1>1, <1>6
<1> QED
  BY <1>1, <1>6, <1>7, <1>8

\* A sequence no longer than asked for is kept whole.
LEMMA FirstOfShort ==
  ASSUME NEW A, NEW s \in Seq(A), NEW n \in Nat, Len(s) <= n
  PROVE  Queries!First(s, n) = s
<1>1. Queries!First(s, n) \in Seq(A) /\ Len(Queries!First(s, n)) = IF Len(s) < n THEN Len(s) ELSE n
  BY FirstIs
<1>2. Len(s) \in Nat /\ Len(Queries!First(s, n)) = Len(s)
  BY <1>1
<1>3. \A i \in 1 .. Len(s) : Queries!First(s, n)[i] = s[i]
  BY <1>2, FirstIs
<1> QED
  BY <1>1, <1>2, <1>3

IdsDiffer(s) == \A i, j \in DOMAIN s : s[i].id = s[j].id => i = j

\* A context shows items of the set, each once and at most as many as asked for.
LEMMA ContextIs ==
  ASSUME NEW X \in ItemSets, NEW max \in Nat
  PROVE  /\ Queries!Context(X, max).items = Queries!Fitting(Queries!First(Queries!Ranked(X), max))
         /\ Queries!Context(X, max).items \in Seq(X)
         /\ Len(Queries!Context(X, max).items) <= max
         /\ IdsDiffer(Queries!Context(X, max).items)
         /\ Queries!Context(X, max).truncated \in BOOLEAN
<1> DEFINE r == Queries!Ranked(X)
           first == Queries!First(r, max)
           items == Queries!Fitting(first)
<1>1. /\ Queries!Context(X, max).items = items
      /\ Queries!Context(X, max).truncated \in BOOLEAN
  BY DEF Queries!Context
<1>2. /\ r \in Seq(X) /\ Len(r) = Cardinality(X) /\ Cardinality(X) \in Nat
      /\ \A n \in 1 .. Cardinality(X) : r[n] \in X /\ Above(X, r[n]) = n - 1
  BY RankedIs
<1> HIDE DEF r
<1>3. /\ first \in Seq(X) /\ Len(first) <= max
      /\ \A i \in 1 .. Len(first) : i \in 1 .. Len(r) /\ first[i] = r[i]
  <2>1. /\ first \in Seq(X) /\ Len(first) = IF Len(r) < max THEN Len(r) ELSE max
        /\ \A i \in 1 .. Len(first) : i \in 1 .. Len(r) /\ first[i] = r[i]
    BY <1>2, FirstIs
  <2> QED
    BY <1>2, <2>1
<1> HIDE DEF first
<1>4. /\ items \in Seq(X) /\ Len(items) <= Len(first)
      /\ \A i \in 1 .. Len(items) : i \in 1 .. Len(first) /\ items[i] = first[i]
  BY <1>3, FittingIs
<1> HIDE DEF items
<1>5. Len(items) \in Nat /\ Len(first) \in Nat /\ DOMAIN items = 1 .. Len(items)
  BY <1>3, <1>4
<1>6. \A i \in DOMAIN items : items[i] \in X /\ Above(X, items[i]) = i - 1
  BY <1>2, <1>3, <1>4, <1>5
<1>7. \A i, j \in DOMAIN items : items[i].id = items[j].id => i = j
  <2> SUFFICES ASSUME NEW i \in DOMAIN items, NEW j \in DOMAIN items, items[i].id = items[j].id
               PROVE  i = j
    OBVIOUS
  <2>1. items[i] = items[j]
    BY <1>6 DEF ItemSets, DistinctIds
  <2> QED
    BY <1>5, <1>6, <2>1
<1> QED
  BY <1>1, <1>3, <1>4, <1>5, <1>7 DEF IdsDiffer, items, first, r

-----------------------------------------------------------------------------
(* The requests.  Their variables are s1, the revisions, s2, the resolved  *)
(* mentions, s3, the index, s4, the request, s5, the preview shown, and    *)
(* s6, the moments there have been.                                        *)

Revisions == [Meetings -> 1 .. MaxRevision]

QueryMoments == [revision : Revisions, observed : SUBSET Mentions]

\* It was said of the meeting at a moment of this revision.
SaidAt(was, x, m, v) == \E w \in was : w.revision[m] = v /\ Saying(x, m, w.observed)

Mentioned == {r.entity : r \in Requests} \cup Entities \cup {Nobody}

IndexRecords ==
    [id : Queries!EvidenceIds, meeting : Meetings, revision : 1 .. MaxRevision,
     hash : [type : Queries!EvidenceTypes, entity : Entities \cup {Nobody}, topic : Topics,
             says : Nat, text : BOOLEAN]]

\* What a record embeds was said of its meeting at a moment of the revision it is stamped with.
IndexOK(index, was) ==
    \A r \in index : /\ r \in IndexRecords /\ r.id[3] = r.meeting
                     /\ SaidAt(was, r.hash, r.meeting, r.revision)

Hits == [item : ItemRecords, meeting : Meetings, revision : 1 .. MaxRevision]

Told == {"unresolved", "ambiguous", "truncated", "unclear", "citation"}

Replies == {0, 200, 502, 503}

Answers ==
    [status : Replies, evidence : Seq(ItemRecords),
     cited : Seq(Queries!EvidenceIds), entity : Mentioned,
     insufficient : BOOLEAN, warnings : SUBSET Told]

QuerySteps == {"idle", "unclear", "resolve", "retrieve", "corpus", "search", "revisions", "context", "done"}

QueryRecords ==
    [pc : QuerySteps, request : Requests \cup {Queries!NoRequest}, preview : BOOLEAN, calm : BOOLEAN,
     failed : BOOLEAN, intent : Queries!Intents \cup {"UNKNOWN"}, entity : Mentioned,
     structured : ItemSets, corpus : ItemSets, hits : SUBSET Hits, semantic : SUBSET ItemRecords,
     asOf : Revisions \cup {<<>>}, items : Seq(ItemRecords), truncated : BOOLEAN, answer : Answers]

\* No items are a set of items, and none is shown twice.
LEMMA EmptyIs == {} \in ItemSets /\ IdsDiffer(<<>>)
BY FS_EmptySet DEF ItemSets, DistinctIds, IdsDiffer

IntentOf(r) == Queries!Classify(r.question.matches)

\* The entity of a clear request.
Meant(r) ==
    IF IntentOf(r) \in Queries!EntityIntents THEN CHOOSE e \in Queries!Matched(r) : TRUE ELSE r.entity

\* Evidence is shown once, and cited only if it is shown, and once.
AnswerOK(a) ==
    /\ IdsDiffer(a.evidence)
    /\ \A i \in DOMAIN a.cited : \E x \in DOMAIN a.evidence : a.evidence[x].id = a.cited[i]
    /\ \A i, j \in DOMAIN a.cited : a.cited[i] = a.cited[j] => i = j

\* What matched are items, one of an id.
MatchesOK(hits) ==
    /\ {h.item : h \in hits} \in ItemSets
    /\ \A h \in hits : h.item.meeting = h.meeting

\* They were said at a moment of the revision matched, and what was found among them at one
\* of the revision looked up.
SaidOK(q, was) ==
    /\ \A h \in q.hits : SaidAt(was, h.item, h.meeting, h.revision)
    /\ \A x \in q.semantic : SaidAt(was, x, x.meeting, q.asOf[x.meeting])

\* That stays so while no more is found and more moments pass.
LEMMA SaidStays ==
  ASSUME NEW q, NEW was, SaidOK(q, was), NEW n, NEW will, was \subseteq will,
         n.hits \in {q.hits, {}}, n.semantic = q.semantic, n.asOf = q.asOf
  PROVE  SaidOK(n, will)
BY DEF SaidOK, SaidAt

\* A search that finds nothing has matched nothing it should not.
LEMMA NothingMatches == MatchesOK({})
<1>1. {h.item : h \in {}} = {}
  OBVIOUS
<1> QED
  BY <1>1, EmptyIs DEF MatchesOK

\* What a request has read, whatever the meetings do meanwhile: it is of the entity meant,
\* and what is shown of it is bounded and has no id twice.
RequestOK(q) ==
    /\ q \in QueryRecords
    /\ q.pc # "idle" => q.request \in Requests /\ q.intent = IntentOf(q.request)
    /\ q.pc = "unclear" => q.intent = "UNKNOWN"
    /\ q.pc = "resolve" => q.intent \in Queries!EntityIntents
    /\ q.pc = "retrieve" => q.intent # "UNKNOWN"
    /\ q.pc \in {"unclear", "retrieve", "corpus", "search", "revisions", "context"} =>
          q.entity = Meant(q.request)
    /\ q.pc \in {"retrieve", "corpus", "search", "revisions", "context"} =>
          (q.intent \in Queries!EntityIntents => Queries!Matched(q.request) = {q.entity})
    /\ q.pc \in {"corpus", "search", "revisions"} /\ q.intent \in Queries!EntityIntents =>
          \A x \in q.structured : x.entity = q.entity
    /\ q.failed => q.hits = {}
    /\ MatchesOK(q.hits)
    /\ q.pc \notin {"context", "done"} => q.items = <<>>
    /\ q.pc \in {"context", "done"} => Len(q.items) <= q.request.max
    /\ IdsDiffer(q.items)
    /\ q.intent \in Queries!EntityIntents =>
          \A i \in DOMAIN q.items : Queries!Matched(q.request) = {q.items[i].entity}
    /\ AnswerOK(q.answer)

\* What a request reads when nothing changes meanwhile, what it finds, and the items of a
\* context built from both.
ReadOf(r, at) == Queries!LastOf(Queries!Retrieve(Report(at), IntentOf(r), Meant(r), 2 * r.max, TRUE))
FoundBy(r, at, index) == Queries!Rehydrated(index, Corpora[at][Entities], r.question)
Undisturbed(r, at, index) ==
    [Queries!Idle EXCEPT !.request = r, !.intent = IntentOf(r), !.entity = Meant(r),
                         !.structured = ReadOf(r, at), !.hits = FoundBy(r, at, index)]
ItemsFor(r, revs, at, index) ==
    Queries!Context(Queries!Supplied(Undisturbed(r, at, index), revs), r.max).items

\* A request that nothing disturbed has read what there is now.
CalmOK(q, revs, at, index) ==
    q.calm =>
        /\ q.pc = "search" => q.corpus = Corpora[at][Entities]
        /\ q.pc \in {"corpus", "search", "revisions"} /\ q.intent # "UNKNOWN" =>
              q.structured = ReadOf(q.request, at)
        /\ q.pc = "revisions" /\ ~q.failed => q.hits = FoundBy(q.request, at, index)
        /\ q.pc = "context" /\ q.intent # "UNKNOWN" =>
              q.items = IF q.failed THEN Queries!Fitting(Queries!First(Queries!Ranked(ReadOf(q.request, at)),
                                                                       q.request.max))
                        ELSE ItemsFor(q.request, revs, at, index)

\* A clear request means one entity, or none is asked for.
Clear(r) ==
    /\ IntentOf(r) # "UNKNOWN"
    /\ IntentOf(r) \in Queries!EntityIntents => \E e \in Entities : Queries!Matched(r) = {e}

\* What a preview showed is what a request reads as long as nothing changes.
ShownOK(shown, revs, at, index) ==
    shown # Queries!NoPreview =>
        /\ shown.request \in Requests
        /\ Clear(shown.request) => shown.items = ItemsFor(shown.request, revs, at, index)

\* The inductive invariant of the queries.
QueriesInv ==
    /\ s1 \in Revisions /\ s2 \in SUBSET Mentions
    /\ s6 \subseteq QueryMoments /\ Queries!Cardinality(s6) <= MaxMoments
    /\ IndexOK(s3, s6)
    /\ RequestOK(s4) /\ SaidOK(s4, s6) /\ (s4.pc = "context" => ~s4.preview)
    /\ CalmOK(s4, s1, s2, s3)
    /\ ShownOK(s5, s1, s2, s3)
    /\ s5 # Queries!NoPreview /\ ~s4.preview => s4.calm

\* What is asked has a limit and an intent, and is of an entity that may be mentioned.
LEMMA RequestsAre ==
  ASSUME NEW r \in Requests
  PROVE  /\ r.max \in Nat /\ 2 * r.max \in Nat /\ r # Queries!NoRequest
         /\ IntentOf(r) \in Queries!Intents \cup {"UNKNOWN"}
         /\ r.entity \in Mentioned
<1>1. /\ DOMAIN r = {"question", "entity", "max", "text"}
      /\ r.max \in Nat \ {0} /\ r.question.matches \subseteq Queries!Intents
  BY QueriesAssumption DEF Queries!ConstantsOK
<1>2. r # Queries!NoRequest
  <2>1. "max" \notin DOMAIN Queries!NoRequest
    BY DEF Queries!NoRequest
  <2> QED
    BY <1>1, <2>1
<1>3. IntentOf(r) \in Queries!Intents \cup {"UNKNOWN"}
  <2> DEFINE P(i) == /\ Queries!RuleOrder[i] \in r.question.matches
                     /\ \A j \in 1 .. i - 1 : Queries!RuleOrder[j] \notin r.question.matches
  <2> SUFFICES ASSUME r.question.matches # {} PROVE IntentOf(r) \in Queries!Intents
    BY DEF IntentOf, Queries!Classify
  <2>1. IntentOf(r) = Queries!RuleOrder[CHOOSE i \in DOMAIN Queries!RuleOrder : P(i)]
    BY DEF IntentOf, Queries!Classify
  <2>2. \E i \in DOMAIN Queries!RuleOrder : P(i)
    <3> DEFINE S == {i \in 1 .. 10 : Queries!RuleOrder[i] \in r.question.matches}
    <3>1. DOMAIN Queries!RuleOrder = 1 .. 10 /\ S # {} /\ S \in SUBSET Nat
      BY <1>1, IntentsAre DEF Queries!Intents
    <3>2. PICK i \in S : \A j \in S : i <= j
      BY <3>1, HasLeast
    <3>3. ASSUME NEW j \in 1 .. i - 1 PROVE j \notin S /\ j \in 1 .. 10
      BY <3>2
    <3>4. P(i)
      BY <3>3
    <3> QED
      BY <3>1, <3>4
  <2> HIDE DEF P
  <2> QED
    BY <2>1, <2>2 DEF Queries!Intents
<1>4. r.max \in Nat /\ 2 * r.max \in Nat
  BY <1>1
<1> QED
  BY <1>2, <1>3, <1>4 DEF Mentioned

\* No answer yet is an answer that claims nothing.
LEMMA NoAnswerIs == Queries!NoAnswer \in Answers /\ AnswerOK(Queries!NoAnswer)
<1>1. Nobody \in Mentioned /\ <<>> \in Seq(ItemRecords) /\ <<>> \in Seq(Queries!EvidenceIds)
  BY DEF Mentioned
<1>2. 0 \in Replies
  BY DEF Replies
<1>3. Queries!NoAnswer \in Answers
  BY <1>1, <1>2 DEF Answers, Queries!NoAnswer
<1>4. Queries!NoAnswer.cited = <<>> /\ Queries!NoAnswer.evidence = <<>> /\ DOMAIN <<>> = {}
  BY DEF Queries!NoAnswer
<1> QED
  BY <1>3, <1>4 DEF AnswerOK, IdsDiffer

\* The answers that cite nothing.
LEMMA CitesNothing ==
  ASSUME NEW a \in Answers, a.cited = Queries!NoAnswer.cited, IdsDiffer(a.evidence)
  PROVE  AnswerOK(a)
<1>1. DOMAIN a.cited = {}
  BY DEF Queries!NoAnswer
<1> QED
  BY <1>1 DEF AnswerOK

\* The answer of a request for which there is not enough evidence.
LEMMA InsufficientIs ==
  ASSUME NEW e \in Mentioned, NEW warnings, warnings \subseteq Told
  PROVE  Queries!Insufficient(e, warnings) \in Answers /\ AnswerOK(Queries!Insufficient(e, warnings))
<1> DEFINE none == Queries!NoAnswer
           Without(status) == [none EXCEPT !.status = status, !.entity = e, !.insufficient = TRUE,
                                           !.warnings = warnings]
<1>1. none \in Answers /\ IdsDiffer(none.evidence)
  BY NoAnswerIs, EmptyIs DEF Queries!NoAnswer
<1>2. 200 \in Replies
  BY DEF Replies
<1>3. Queries!Insufficient(e, warnings) = Without(200)
  BY DEF Queries!Insufficient
<1> HIDE DEF none
<1>4. ASSUME NEW status \in Replies PROVE Without(status) \in Answers /\ AnswerOK(Without(status))
  <2>1. Without(status) \in Answers
    BY <1>1 DEF Answers
  <2>2. Without(status).cited = none.cited /\ Without(status).evidence = none.evidence
    BY <1>1 DEF Answers
  <2> HIDE DEF Without
  <2> QED
    BY <1>1, <2>1, <2>2, CitesNothing DEF none
<1> HIDE DEF Without
<1> QED
  BY <1>2, <1>3, <1>4

\* The answer of a preview.
LEMMA WithoutProvider ==
  ASSUME NEW items \in Seq(ItemRecords), IdsDiffer(items), NEW status \in Replies
  PROVE  LET a == [Queries!NoAnswer EXCEPT !.status = status, !.evidence = items]
         IN  a \in Answers /\ AnswerOK(a)
<1> DEFINE none == Queries!NoAnswer
           a == [none EXCEPT !.status = status, !.evidence = items]
<1>1. none \in Answers
  BY NoAnswerIs
<1> HIDE DEF none
<1>2. a \in Answers
  BY <1>1 DEF Answers
<1>3. a.cited = none.cited /\ a.evidence = items
  BY <1>1 DEF Answers
<1> HIDE DEF a
<1>4. a \in Answers /\ AnswerOK(a)
  BY <1>2, <1>3, CitesNothing DEF none
<1> QED
  BY <1>4 DEF a, none

\* The answer of a request whose provider failed.
LEMMA ProviderFailed ==
  ASSUME NEW status \in Replies
  PROVE  LET a == [Queries!NoAnswer EXCEPT !.status = status]
         IN  a \in Answers /\ AnswerOK(a)
<1> DEFINE none == Queries!NoAnswer
           a == [none EXCEPT !.status = status]
<1>1. none \in Answers /\ IdsDiffer(none.evidence)
  BY NoAnswerIs, EmptyIs DEF Queries!NoAnswer
<1> HIDE DEF none
<1>2. a \in Answers
  BY <1>1 DEF Answers
<1>3. a.cited = none.cited /\ a.evidence = none.evidence
  BY <1>1 DEF Answers
<1> HIDE DEF a
<1>4. a \in Answers /\ AnswerOK(a)
  BY <1>1, <1>2, <1>3, CitesNothing DEF none
<1> QED
  BY <1>4 DEF a, none

\* A client that has not asked has read nothing.
LEMMA IdleIs == RequestOK(Queries!Idle)
<1>1. Queries!NoAnswer \in Answers /\ AnswerOK(Queries!NoAnswer)
  BY NoAnswerIs
<1>2. Nobody \in Mentioned /\ <<>> \in Seq(ItemRecords)
  BY DEF Mentioned
<1>3. "UNKNOWN" \notin Queries!EntityIntents
  BY IntentsAre
<1> HIDE DEF Queries!NoAnswer
<1>4. Queries!Idle.hits = {}
  BY DEF Queries!Idle
<1>5. Queries!Idle \in QueryRecords
  BY <1>1, <1>2, EmptyIs DEF Queries!Idle, QueryRecords, QuerySteps
<1> QED
  BY <1>1, <1>3, <1>5, <1>4, EmptyIs, NothingMatches DEF Queries!Idle, RequestOK

\* A reply keeps what was read and is one that claims no more than it shows.
LEMMA ReplyOK ==
  ASSUME NEW q, RequestOK(q), q.pc # "idle", Len(q.items) <= q.request.max,
         NEW answer \in Answers, AnswerOK(answer)
  PROVE  RequestOK([q EXCEPT !.pc = "done", !.answer = answer])
<1> DEFINE next == [q EXCEPT !.pc = "done", !.answer = answer]
<1>1. q \in QueryRecords
  BY DEF RequestOK
<1>2. next \in QueryRecords
  BY <1>1 DEF QueryRecords, QuerySteps
<1>3. /\ next.pc = "done" /\ next.answer = answer /\ next.request = q.request
      /\ next.intent = q.intent /\ next.failed = q.failed /\ next.hits = q.hits
      /\ next.corpus = q.corpus /\ next.semantic = q.semantic /\ next.asOf = q.asOf
      /\ next.items = q.items
  BY <1>1 DEF QueryRecords
<1> HIDE DEF next
<1>4. RequestOK(next)
  BY <1>2, <1>3 DEF RequestOK
<1> QED
  BY <1>4 DEF next

\* The steps of a request, on any record of one.
Asked(r, preview) ==
    [Queries!Idle EXCEPT !.pc = IF IntentOf(r) = "UNKNOWN" THEN "unclear"
                                ELSE IF IntentOf(r) \in Queries!EntityIntents THEN "resolve" ELSE "retrieve",
                         !.request = r, !.preview = preview, !.intent = IntentOf(r), !.entity = r.entity]

\* Asking starts from nothing read.
LEMMA AskOK ==
  ASSUME NEW r \in Requests, NEW preview \in BOOLEAN
  PROVE  LET q == Asked(r, preview)
         IN  RequestOK(q) /\ q.calm /\ q.preview = preview /\ q.pc \notin {"search", "corpus", "revisions", "context"}
<1> DEFINE q == Asked(r, preview)
           pc == IF IntentOf(r) = "UNKNOWN" THEN "unclear"
                 ELSE IF IntentOf(r) \in Queries!EntityIntents THEN "resolve" ELSE "retrieve"
<1>1. r.entity \in Mentioned /\ IntentOf(r) \in Queries!Intents \cup {"UNKNOWN"}
  BY RequestsAre
<1>2. "UNKNOWN" \notin Queries!EntityIntents
  BY IntentsAre
<1>3. /\ Queries!Idle \in QueryRecords
      /\ Queries!Idle.calm /\ ~Queries!Idle.failed /\ Queries!Idle.hits = {} /\ Queries!Idle.semantic = {}
      /\ Queries!Idle.items = <<>> /\ Queries!Idle.answer = Queries!NoAnswer
  BY IdleIs DEF RequestOK, Queries!Idle
<1>4. Queries!NoAnswer \in Answers /\ AnswerOK(Queries!NoAnswer)
  BY NoAnswerIs
<1>5. pc \in QuerySteps
  BY DEF QuerySteps
<1>6. q = [Queries!Idle EXCEPT !.pc = pc, !.request = r, !.preview = preview,
                                 !.intent = IntentOf(r), !.entity = r.entity]
  BY DEF Asked
<1> HIDE DEF pc
<1>7. q \in QueryRecords
  <2> DEFINE asks == [Queries!Idle EXCEPT !.pc = pc, !.request = r]
  <2>1. asks \in QueryRecords
    BY <1>3, <1>5 DEF QueryRecords
  <2>2. q = [asks EXCEPT !.preview = preview, !.intent = IntentOf(r), !.entity = r.entity]
    BY <1>6
  <2> HIDE DEF asks
  <2> QED
    BY <1>1, <2>1, <2>2 DEF QueryRecords
<1>8. pc \in {"unclear", "retrieve"} => r.entity = Meant(r)
  BY <1>2 DEF Meant, pc
<1>9. /\ pc = "unclear" => IntentOf(r) = "UNKNOWN"
      /\ pc = "resolve" => IntentOf(r) \in Queries!EntityIntents
      /\ pc = "retrieve" => IntentOf(r) # "UNKNOWN" /\ IntentOf(r) \notin Queries!EntityIntents
      /\ pc \notin {"idle", "corpus", "search", "revisions", "context", "done"}
  BY DEF pc
<1>10. /\ q.pc = pc /\ q.request = r /\ q.intent = IntentOf(r) /\ q.entity = r.entity
      /\ q.preview = preview /\ q.calm = Queries!Idle.calm /\ q.failed = Queries!Idle.failed
      /\ q.hits = Queries!Idle.hits /\ q.semantic = Queries!Idle.semantic
      /\ q.items = Queries!Idle.items /\ q.answer = Queries!Idle.answer
  BY <1>3, <1>6 DEF QueryRecords
<1> HIDE DEF q
<1>11. DOMAIN <<>> = {}
  OBVIOUS
<1>12. RequestOK(q)
  BY <1>3, <1>4, <1>7, <1>8, <1>9, <1>10, <1>11, EmptyIs, NothingMatches DEF RequestOK
<1>13. RequestOK(q) /\ q.calm /\ q.preview = preview /\ q.pc \notin {"search", "corpus", "revisions", "context"}
  BY <1>3, <1>9, <1>10, <1>12
<1> QED
  BY <1>13 DEF q

\* Steps that only go on reading keep what there is of items, findings and answer.
LEMMA ReadingOK ==
  ASSUME NEW q, RequestOK(q), q.pc \notin {"idle", "context", "done"},
         NEW n \in QueryRecords, n.pc \in {"retrieve", "corpus", "search", "revisions"},
         n.request = q.request, n.intent = q.intent, n.semantic = q.semantic,
         n.asOf = q.asOf, n.items = q.items, n.answer = q.answer,
         n.entity = Meant(n.request),
         n.pc = "retrieve" => n.intent # "UNKNOWN",
         n.intent \in Queries!EntityIntents => Queries!Matched(n.request) = {n.entity},
         n.pc # "retrieve" /\ n.intent \in Queries!EntityIntents =>
            \A x \in n.structured : x.entity = n.entity,
         n.failed => n.hits = {},
         MatchesOK(n.hits)
  PROVE  RequestOK(n)
BY DEF RequestOK

\* An unclear question goes on to the search, for what the index has on it.
LEMMA UnclearOK ==
  ASSUME NEW q, RequestOK(q), q.pc = "unclear"
  PROVE  RequestOK([q EXCEPT !.pc = "corpus"])
<1> DEFINE n == [q EXCEPT !.pc = "corpus"]
<1>1. q \in QueryRecords
  BY DEF RequestOK
<1>2. n \in QueryRecords
  BY <1>1 DEF QueryRecords, QuerySteps
<1>3. /\ n.pc = "corpus" /\ n.request = q.request /\ n.intent = q.intent /\ n.entity = q.entity
      /\ n.structured = q.structured /\ n.corpus = q.corpus
      /\ n.hits = q.hits /\ n.failed = q.failed /\ n.semantic = q.semantic /\ n.asOf = q.asOf
      /\ n.items = q.items /\ n.answer = q.answer
  BY <1>1 DEF QueryRecords
<1>4. "UNKNOWN" \notin Queries!EntityIntents
  BY IntentsAre
<1> HIDE DEF n
<1>5. RequestOK(n)
  <2>1. /\ q.intent = "UNKNOWN" /\ q.entity = Meant(q.request)
        /\ q.failed => q.hits = {}
        /\ MatchesOK(q.hits)
    BY DEF RequestOK
  <2> QED
    BY <1>2, <1>3, <1>4, <2>1, ReadingOK
<1> QED
  BY <1>5 DEF n

\* When one entity matches it is the one meant.
LEMMA ResolveOK ==
  ASSUME NEW q, RequestOK(q), q.pc = "resolve", NEW e, Queries!Matched(q.request) = {e}
  PROVE  RequestOK([q EXCEPT !.pc = "retrieve", !.entity = CHOOSE x \in Queries!Matched(q.request) : TRUE])
<1> DEFINE matched == Queries!Matched(q.request)
           n == [q EXCEPT !.pc = "retrieve", !.entity = CHOOSE x \in matched : TRUE]
<1>1. q \in QueryRecords /\ q.request \in Requests /\ q.intent = IntentOf(q.request)
  BY DEF RequestOK
<1>2. matched \subseteq Entities
  BY DEF Queries!Matched
<1> HIDE DEF matched
<1>3. (CHOOSE x \in matched : TRUE) = e /\ e \in Mentioned
  BY <1>2 DEF matched, Mentioned
<1>4. n \in QueryRecords
  BY Zenon, <1>1, <1>3 DEF QueryRecords, QuerySteps
<1>5. /\ n.pc = "retrieve" /\ n.request = q.request /\ n.intent = q.intent
      /\ n.entity = CHOOSE x \in matched : TRUE
      /\ n.structured = q.structured /\ n.corpus = q.corpus
      /\ n.hits = q.hits /\ n.failed = q.failed /\ n.semantic = q.semantic /\ n.asOf = q.asOf
      /\ n.items = q.items /\ n.answer = q.answer
  BY <1>1 DEF QueryRecords
<1>6. "UNKNOWN" \notin Queries!EntityIntents
  BY IntentsAre
<1> HIDE DEF n
<1>7. RequestOK(n)
  <2>1. /\ q.intent \in Queries!EntityIntents
        /\ q.failed => q.hits = {}
        /\ MatchesOK(q.hits)
    BY DEF RequestOK
  <2>2. n.entity = Meant(n.request)
    BY <1>1, <1>5, <2>1 DEF Meant, matched
  <2>3. Queries!Matched(n.request) = {n.entity}
    BY <1>3, <1>5
  <2> QED
    BY <1>4, <1>5, <1>6, <2>1, <2>2, <2>3, ReadingOK
<1> QED
  BY <1>7 DEF n, matched

\* Reading for the entity gives items about it.
LEMMA ReadOK ==
  ASSUME NEW at \in SUBSET Mentions, NEW q, RequestOK(q), q.pc = "retrieve"
  PROVE  LET n == [q EXCEPT !.pc = "corpus",
                            !.structured = Queries!LastOf(Queries!Retrieve(Report(at), q.intent, q.entity,
                                                                           2 * q.request.max, TRUE))]
         IN  RequestOK(n) /\ n.structured = ReadOf(n.request, at)
<1> DEFINE read == Queries!LastOf(Queries!Retrieve(Report(at), q.intent, q.entity, 2 * q.request.max, TRUE))
           n == [q EXCEPT !.pc = "corpus", !.structured = read]
<1>1. /\ q \in QueryRecords /\ q.request \in Requests /\ q.intent = IntentOf(q.request)
      /\ q.entity = Meant(q.request) /\ 2 * q.request.max \in Nat /\ TRUE \in BOOLEAN
  BY RequestsAre DEF RequestOK
<1>2. read \in Evidence(q.entity, at)
  BY <1>1, ReadIs
<1>3. read \in ItemSets
  BY <1>2, EvidenceIsSet
<1>4. q.intent \in Queries!EntityIntents => \A x \in read : x.entity = q.entity
  <2> SUFFICES ASSUME q.intent \in Queries!EntityIntents PROVE \A x \in read : x.entity = q.entity
    OBVIOUS
  <2>1. Queries!Matched(q.request) = {q.entity}
    BY DEF RequestOK
  <2>2. Queries!Matched(q.request) \subseteq Entities
    BY DEF Queries!Matched
  <2>3. q.entity # Nobody
    BY <2>1, <2>2, QueriesAssumption DEF Queries!ConstantsOK
  <2> HIDE DEF read
  <2> QED
    BY <1>2, <2>3 DEF Evidence, ItemsOf
<1>5. read = ReadOf(q.request, at)
  BY <1>1 DEF ReadOf
<1> HIDE DEF read
<1>6. n \in QueryRecords
  BY <1>1, <1>3 DEF QueryRecords, QuerySteps
<1>7. /\ n.pc = "corpus" /\ n.request = q.request /\ n.intent = q.intent /\ n.entity = q.entity
      /\ n.structured = read /\ n.corpus = q.corpus
      /\ n.hits = q.hits /\ n.failed = q.failed /\ n.semantic = q.semantic /\ n.asOf = q.asOf
      /\ n.items = q.items /\ n.answer = q.answer
  BY <1>1 DEF QueryRecords
<1> HIDE DEF n
<1>8. RequestOK(n)
  <2>1. /\ q.intent \in Queries!EntityIntents => Queries!Matched(q.request) = {q.entity}
        /\ q.failed => q.hits = {}
        /\ MatchesOK(q.hits)
    BY DEF RequestOK
  <2> QED
    BY <1>1, <1>4, <1>6, <1>7, <2>1, ReadingOK
<1>9. RequestOK(n) /\ n.structured = ReadOf(n.request, at)
  BY <1>5, <1>7, <1>8
<1> QED
  BY <1>9 DEF n, read

\* Reading the corpus gives a set of items.
LEMMA CorpusOK ==
  ASSUME NEW at \in SUBSET Mentions, NEW q, RequestOK(q), q.pc = "corpus"
  PROVE  LET n == [q EXCEPT !.pc = "search", !.corpus = Corpora[at][Entities]]
         IN  RequestOK(n) /\ n.corpus = Corpora[at][Entities]
<1> DEFINE corpus == Corpora[at][Entities]
           n == [q EXCEPT !.pc = "search", !.corpus = corpus]
<1>1. q \in QueryRecords
  BY DEF RequestOK
<1>2. corpus \in ItemSets
  BY CorporaAre, EvidenceIsSet
<1> HIDE DEF corpus
<1>3. n \in QueryRecords
  BY <1>1, <1>2 DEF QueryRecords, QuerySteps
<1>4. /\ n.pc = "search" /\ n.request = q.request /\ n.intent = q.intent /\ n.entity = q.entity
      /\ n.structured = q.structured /\ n.corpus = corpus
      /\ n.hits = q.hits /\ n.failed = q.failed /\ n.semantic = q.semantic /\ n.asOf = q.asOf
      /\ n.items = q.items /\ n.answer = q.answer
  BY <1>1 DEF QueryRecords
<1> HIDE DEF n
<1>5. RequestOK(n)
  <2>1. /\ q.entity = Meant(q.request)
        /\ q.intent \in Queries!EntityIntents => /\ Queries!Matched(q.request) = {q.entity}
                                                 /\ \A x \in q.structured : x.entity = q.entity
        /\ q.failed => q.hits = {}
        /\ MatchesOK(q.hits)
    BY DEF RequestOK
  <2> QED
    BY <1>3, <1>4, <2>1, ReadingOK
<1>6. RequestOK(n) /\ n.corpus = corpus
  BY <1>4, <1>5
<1> QED
  BY <1>6 DEF n, corpus

\* What is found in the index and read again is what the record embeds.
LEMMA SearchFinds ==
  ASSUME NEW corpus \in ItemSets, NEW index, NEW was, IndexOK(index, was), NEW question
  PROVE  LET hits == Queries!Rehydrated(index, corpus, question)
         IN  /\ hits \in SUBSET Hits /\ MatchesOK(hits)
             /\ \A h \in hits : SaidAt(was, h.item, h.meeting, h.revision)
<1> DEFINE hits == Queries!Rehydrated(index, corpus, question)
           items == {h.item : h \in hits}
<1>1. ASSUME NEW h \in hits
      PROVE  \E p \in index \X corpus : /\ p[1].id = p[2].id
                                        /\ p[1].hash = Queries!Representation(p[2])
                                        /\ h = [item |-> p[2], meeting |-> p[1].meeting, revision |-> p[1].revision]
  BY DEF Queries!Rehydrated
<1>2. ASSUME NEW h \in hits
      PROVE  /\ h \in Hits /\ h.item \in corpus /\ h.item.meeting = h.meeting
             /\ SaidAt(was, h.item, h.meeting, h.revision)
  <2>1. PICK p \in index \X corpus : /\ p[1].id = p[2].id
                                     /\ p[1].hash = Queries!Representation(p[2])
                                     /\ h = [item |-> p[2], meeting |-> p[1].meeting, revision |-> p[1].revision]
    BY <1>1
  <2> DEFINE r == p[1]
             x == p[2]
  <2>2. r \in index /\ x \in corpus /\ x \in ItemRecords /\ Named(x)
    BY DEF ItemSets
  <2>3. r \in IndexRecords /\ r.id[3] = r.meeting /\ SaidAt(was, r.hash, r.meeting, r.revision)
    BY <2>2 DEF IndexOK
  <2>4. h = [item |-> x, meeting |-> r.meeting, revision |-> r.revision]
    BY <2>1
  <2>5. r.id = x.id /\ r.hash = Queries!Representation(x)
    BY <2>1
  <2> HIDE DEF r, x
  <2>6. h.item = x /\ h.meeting = r.meeting /\ h.revision = r.revision
    BY <2>4
  <2>7. h \in Hits
    BY <2>2, <2>3, <2>4 DEF Hits, IndexRecords
  <2>8. x.meeting = r.meeting
    BY <2>2, <2>3, <2>5 DEF Named
  <2>9. r.hash.entity = x.entity /\ r.hash.topic = x.topic /\ r.hash.says = x.says
    BY <2>5 DEF Queries!Representation
  <2>10. SaidAt(was, x, r.meeting, r.revision)
    BY <2>3, <2>9 DEF SaidAt, Saying
  <2> QED
    BY <2>2, <2>6, <2>7, <2>8, <2>10
<1> HIDE DEF hits
<1>3. items \subseteq corpus
  BY <1>2
<1>4. items \in ItemSets
  BY <1>3, FS_Subset DEF ItemSets, DistinctIds
<1>5. /\ hits \in SUBSET Hits /\ MatchesOK(hits)
      /\ \A h \in hits : SaidAt(was, h.item, h.meeting, h.revision)
  BY <1>2, <1>4 DEF MatchesOK
<1> QED
  BY <1>5 DEF hits

Searched(q, fails, index) ==
    [q EXCEPT !.pc = "revisions", !.failed = fails, !.corpus = {},
              !.hits = IF fails THEN {} ELSE Queries!Rehydrated(index, q.corpus, q.request.question)]

\* Searching matches items of the index, or nothing when it fails.
LEMMA SearchOK ==
  ASSUME NEW index, NEW was, IndexOK(index, was), NEW q, RequestOK(q), SaidOK(q, was),
         q.pc = "search", NEW fails \in BOOLEAN
  PROVE  LET n == Searched(q, fails, index)
         IN  /\ RequestOK(n) /\ SaidOK(n, was) /\ n.failed = fails /\ n.request = q.request
             /\ ~fails => n.hits = Queries!Rehydrated(index, q.corpus, q.request.question)
<1> DEFINE hits == IF fails THEN {} ELSE Queries!Rehydrated(index, q.corpus, q.request.question)
           n == [q EXCEPT !.pc = "revisions", !.failed = fails, !.corpus = {}, !.hits = hits]
<1>1. q \in QueryRecords
  BY DEF RequestOK
<1>2. q.corpus \in ItemSets
  BY <1>1 DEF QueryRecords
<1>3. /\ hits \in SUBSET Hits /\ MatchesOK(hits)
      /\ \A h \in hits : SaidAt(was, h.item, h.meeting, h.revision)
  BY <1>2, SearchFinds, NothingMatches
<1>4. /\ fails => hits = {}
      /\ ~fails => hits = Queries!Rehydrated(index, q.corpus, q.request.question)
  OBVIOUS
<1> HIDE DEF hits
<1>5. n \in QueryRecords
  BY <1>1, <1>3, EmptyIs DEF QueryRecords, QuerySteps
<1>6. /\ n.pc = "revisions" /\ n.request = q.request /\ n.intent = q.intent /\ n.entity = q.entity
      /\ n.structured = q.structured /\ n.hits = hits
      /\ n.semantic = q.semantic /\ n.asOf = q.asOf /\ n.items = q.items /\ n.answer = q.answer
  BY <1>1 DEF QueryRecords
<1>7. n.failed = fails
  BY <1>1 DEF QueryRecords
<1> HIDE DEF n
<1>8. RequestOK(n)
  <2>1. /\ q.entity = Meant(q.request)
        /\ q.intent \in Queries!EntityIntents => /\ Queries!Matched(q.request) = {q.entity}
                                                 /\ \A x \in q.structured : x.entity = q.entity
    BY DEF RequestOK
  <2>2. n.failed => n.hits = {}
    BY <1>4, <1>6, <1>7
  <2> QED
    BY <1>3, <1>5, <1>6, <2>1, <2>2, ReadingOK
<1>9. SaidOK(n, was)
  BY <1>3, <1>6 DEF SaidOK
<1>10. /\ RequestOK(n) /\ SaidOK(n, was) /\ n.failed = fails /\ n.request = q.request
       /\ ~fails => n.hits = Queries!Rehydrated(index, q.corpus, q.request.question)
  BY <1>4, <1>6, <1>7, <1>8, <1>9
<1> QED
  BY <1>10 DEF n, hits, Searched

\* What is found matched in the current revisions, and is about the entity.
LEMMA FoundIs ==
  ASSUME NEW q, NEW revs
  PROVE  /\ Queries!Found(q, revs) \subseteq {h.item : h \in {k \in q.hits : k.revision = revs[k.meeting]}}
         /\ q.intent # "UNKNOWN" =>
               \A x \in Queries!Found(q, revs) : /\ q.entity \in {Nobody, x.entity}
                                                 /\ \A y \in q.structured : y.id # x.id
<1>1. Queries!Found(q, revs) \subseteq Queries!Current(q.hits, revs)
  BY DEF Queries!Found, Queries!Sufficient, Queries!Candidates, Queries!TopK
<1>2. q.intent # "UNKNOWN" =>
               \A x \in Queries!Found(q, revs) : /\ q.entity \in {Nobody, x.entity}
                                                 /\ \A y \in q.structured : y.id # x.id
  BY DEF Queries!Found, Queries!Candidates
<1> QED
  BY <1>1, <1>2 DEF Queries!Current

\* What is found is a set of items.
LEMMA FoundOK ==
  ASSUME NEW revs \in Revisions, NEW q, RequestOK(q)
  PROVE  /\ Queries!Found(q, revs) \in ItemSets
         /\ q.failed => Queries!Found(q, revs) = {}
         /\ \A was : SaidOK(q, was) =>
               \A x \in Queries!Found(q, revs) : SaidAt(was, x, x.meeting, revs[x.meeting])
<1> DEFINE found == Queries!Found(q, revs)
           items == {h.item : h \in q.hits}
<1>1. items \in ItemSets /\ \A h \in q.hits : h.item.meeting = h.meeting
  BY DEF RequestOK, MatchesOK
<1>2. \A x \in found : \E h \in q.hits : h.revision = revs[h.meeting] /\ x = h.item
  BY FoundIs
<1> HIDE DEF found
<1>3. ASSUME NEW was, SaidOK(q, was)
      PROVE  \A x \in found : SaidAt(was, x, x.meeting, revs[x.meeting])
  BY <1>1, <1>2, <1>3 DEF SaidOK
<1>4. q.failed => found = {}
  BY <1>2 DEF RequestOK
<1> HIDE DEF items
<1>5. found \in ItemSets
  <2>1. found \subseteq {h.item : h \in q.hits}
    BY <1>2
  <2> QED
    BY <1>1, <2>1, FS_Subset DEF ItemSets, DistinctIds, items
<1> QED
  BY <1>3, <1>4, <1>5 DEF found

\* What the context is built from; after a failure, the best of what was read.
LEMMA SuppliedOK ==
  ASSUME NEW revs \in Revisions, NEW q, RequestOK(q), q.pc = "revisions"
  PROVE  /\ Queries!Supplied(q, revs) \in ItemSets
         /\ q.intent \in Queries!EntityIntents => \A x \in Queries!Supplied(q, revs) : x.entity = q.entity
         /\ q.intent # "UNKNOWN" /\ q.failed =>
               Queries!Context(Queries!Supplied(q, revs), q.request.max).items =
                  Queries!Fitting(Queries!First(Queries!Ranked(q.structured), q.request.max))
<1> DEFINE found == Queries!Found(q, revs)
           all == q.structured \cup found
           best == Queries!First(Queries!Ranked(all), q.request.max)
           T == {best[i] : i \in DOMAIN best}
<1>1. /\ found \in ItemSets /\ (q.failed => found = {})
      /\ q.intent # "UNKNOWN" => \A x \in found : /\ q.entity \in {Nobody, x.entity}
                                                  /\ \A y \in q.structured : y.id # x.id
  BY FoundOK, FoundIs
<1>2. q.structured \in ItemSets /\ q.request.max \in Nat
  BY RequestsAre DEF RequestOK, QueryRecords
<1>3. CASE q.intent = "UNKNOWN"
  <2>1. Queries!Supplied(q, revs) = found
    BY <1>3 DEF Queries!Supplied
  <2> QED
    BY <1>1, <1>3, <2>1, IntentsAre
<1>4. CASE q.intent # "UNKNOWN"
  <2>1. Queries!Supplied(q, revs) = T
    BY <1>4 DEF Queries!Supplied
  <2> HIDE DEF found
  <2>2. all \in ItemSets
    <3>1. IsFiniteSet(all)
      BY <1>1, <1>2, FS_Union DEF ItemSets
    <3>2. DistinctIds(all)
      BY <1>1, <1>2, <1>4 DEF ItemSets, DistinctIds
    <3> QED
      BY <1>1, <1>2, <3>1, <3>2 DEF ItemSets
  <2>3. T \in ItemSets /\ T \subseteq all /\ Queries!Ranked(T) = best
    BY <1>2, <2>2, BestStayBest
  <2>4. ASSUME q.intent \in Queries!EntityIntents PROVE \A x \in T : x.entity = q.entity
    <3>1. Queries!Matched(q.request) = {q.entity} /\ \A x \in q.structured : x.entity = q.entity
      BY <2>4 DEF RequestOK
    <3>2. Queries!Matched(q.request) \subseteq Entities
      BY DEF Queries!Matched
    <3>3. q.entity # Nobody
      BY <3>1, <3>2, QueriesAssumption DEF Queries!ConstantsOK
    <3> HIDE DEF T, all
    <3>4. \A x \in all : x.entity = q.entity
      BY <1>1, <1>4, <3>1, <3>3 DEF all
    <3> QED
      BY <2>3, <3>4
  <2>5. ASSUME q.failed
        PROVE  Queries!Context(T, q.request.max).items =
                  Queries!Fitting(Queries!First(Queries!Ranked(q.structured), q.request.max))
    <3>1. all = q.structured
      BY <1>1, <2>5
    <3>2. Queries!Context(T, q.request.max).items = Queries!Fitting(Queries!First(best, q.request.max))
      <4>1. Queries!Context(T, q.request.max).items =
               Queries!Fitting(Queries!First(Queries!Ranked(T), q.request.max))
        BY <1>2, <2>3, ContextIs
      <4> HIDE DEF T, best
      <4> QED
        BY <2>3, <4>1
    <3>3. Queries!Ranked(all) \in Seq(all)
      BY <2>2, RankedIs
    <3>4. best \in Seq(all) /\ Len(best) <= q.request.max
      BY <1>2, <3>3, FirstIs
    <3>5. Queries!First(best, q.request.max) = best
      BY <1>2, <3>4, FirstOfShort
    <3>6. Queries!Context(T, q.request.max).items = Queries!Fitting(best)
      <4> HIDE DEF T, best
      <4> QED
        BY <3>2, <3>5
    <3> HIDE DEF T, all
    <3> QED
      BY <3>1, <3>6
  <2> HIDE DEF T
  <2> QED
    BY <1>4, <2>1, <2>3, <2>4, <2>5
<1> QED
  BY <1>3, <1>4

Built(q, revs) ==
    LET context == Queries!Context(Queries!Supplied(q, revs), q.request.max)
    IN  [q EXCEPT !.pc = "context", !.asOf = revs, !.items = context.items,
                  !.semantic = Queries!Found(q, revs), !.truncated = context.truncated,
                  !.structured = {}, !.hits = {}]

\* The context shows what was supplied, each item once, for the entity meant.
LEMMA ContextOK ==
  ASSUME NEW revs \in Revisions, NEW q, RequestOK(q), q.pc = "revisions"
  PROVE  LET n == Built(q, revs)
         IN  /\ RequestOK(n) /\ n.pc = "context" /\ n.request = q.request /\ n.intent = q.intent
             /\ n.preview = q.preview /\ n.calm = q.calm /\ n.failed = q.failed
             /\ n.entity = q.entity /\ (\A was : SaidOK(q, was) => SaidOK(n, was))
             /\ n.items = Queries!Context(Queries!Supplied(q, revs), q.request.max).items
<1> DEFINE supplied == Queries!Supplied(q, revs)
           found == Queries!Found(q, revs)
           context == Queries!Context(supplied, q.request.max)
           items == context.items
           truncated == context.truncated
           n == [q EXCEPT !.pc = "context", !.asOf = revs, !.items = items,
                          !.semantic = found, !.truncated = truncated,
                          !.structured = {}, !.hits = {}]
<1>1. q \in QueryRecords /\ q.request \in Requests /\ q.request.max \in Nat
  BY RequestsAre DEF RequestOK
<1>2. /\ supplied \in ItemSets
      /\ q.intent \in Queries!EntityIntents => \A x \in supplied : x.entity = q.entity
  BY SuppliedOK
<1>3. /\ found \in SUBSET ItemRecords
      /\ \A was : SaidOK(q, was) => \A x \in found : SaidAt(was, x, x.meeting, revs[x.meeting])
  BY FoundOK DEF ItemSets
<1> HIDE DEF supplied, found
<1>4. /\ items \in Seq(supplied) /\ Len(items) <= q.request.max /\ IdsDiffer(items)
      /\ truncated \in BOOLEAN
  BY <1>1, <1>2, ContextIs
<1> HIDE DEF context
<1>5. items \in Seq(ItemRecords) /\ \A i \in DOMAIN items : items[i] \in supplied
  BY <1>2, <1>4 DEF ItemSets
<1> HIDE DEF items, truncated
<1>6. n \in QueryRecords
  <2> DEFINE f == [q EXCEPT !.pc = "context", !.asOf = revs, !.items = items]
             g == [f EXCEPT !.semantic = found, !.truncated = truncated]
  <2>1. f \in QueryRecords
    BY <1>1, <1>5 DEF QueryRecords, QuerySteps
  <2>2. n = [g EXCEPT !.structured = {}, !.hits = {}]
    OBVIOUS
  <2> HIDE DEF f
  <2>3. g \in QueryRecords
    BY <1>3, <1>4, <2>1 DEF QueryRecords
  <2> HIDE DEF g
  <2>4. {} \in ItemSets /\ {} \in SUBSET Hits
    BY EmptyIs
  <2> DEFINE h == [g EXCEPT !.structured = {}, !.hits = {}]
  <2>5. h \in QueryRecords
    BY <2>3, <2>4 DEF QueryRecords
  <2> HIDE DEF h, n
  <2>6. n = h
    BY <2>2 DEF h
  <2> QED
    BY <2>5, <2>6
<1>7. /\ n.pc = "context" /\ n.request = q.request /\ n.intent = q.intent /\ n.entity = q.entity
      /\ n.hits = {} /\ n.semantic = found /\ n.asOf = revs /\ n.items = items /\ n.answer = q.answer
  BY <1>1 DEF QueryRecords
<1>8. n.failed = q.failed /\ n.preview = q.preview /\ n.calm = q.calm
  BY <1>1 DEF QueryRecords
<1> HIDE DEF n
<1>9. RequestOK(n)
  <2>1. /\ q.intent = IntentOf(q.request) /\ q.entity = Meant(q.request)
        /\ q.intent \in Queries!EntityIntents => Queries!Matched(q.request) = {q.entity}
        /\ AnswerOK(q.answer)
    BY DEF RequestOK
  <2>2. q.intent \in Queries!EntityIntents =>
           \A i \in DOMAIN items : Queries!Matched(q.request) = {items[i].entity}
    BY <1>2, <1>5, <2>1
  <2> QED
    BY <1>1, <1>4, <1>6, <1>7, <1>8, <2>1, <2>2, NothingMatches DEF RequestOK
<1>10. \A was : SaidOK(q, was) => SaidOK(n, was)
  BY <1>3, <1>7 DEF SaidOK
<1>11. /\ RequestOK(n) /\ n.pc = "context" /\ n.request = q.request /\ n.intent = q.intent
       /\ n.preview = q.preview /\ n.calm = q.calm /\ n.failed = q.failed
       /\ n.entity = q.entity /\ n.items = items
       /\ \A was : SaidOK(q, was) => SaidOK(n, was)
  BY <1>7, <1>8, <1>9, <1>10
<1> QED
  BY <1>11 DEF n, items, truncated, context, supplied, found, Built

\* Of what is cited, what is shown, once.
LEMMA ValidatedIs ==
  ASSUME NEW items \in Seq(ItemRecords), NEW A, NEW cited \in Seq(A)
  PROVE  LET valid == Queries!Validated(cited, items)
         IN  /\ valid \in Seq(Queries!EvidenceIds)
             /\ \A i \in DOMAIN valid : \E x \in DOMAIN items : items[x].id = valid[i]
             /\ \A i, j \in DOMAIN valid : valid[i] = valid[j] => i = j
<1> DEFINE valid == Queries!Validated(cited, items)
           kept == {i \in DOMAIN cited : /\ \E x \in DOMAIN items : items[x].id = cited[i]
                                         /\ \A j \in 1 .. i - 1 : cited[j] # cited[i]}
           N == Cardinality(kept)
<1>1. /\ DOMAIN cited = 1 .. Len(cited) /\ Len(cited) \in Nat
      /\ \A x \in DOMAIN items : items[x] \in ItemRecords
  BY ElementOfSeq
<1>2. kept \in SUBSET Nat /\ IsFiniteSet(kept)
  BY <1>1, UpToFinite, FS_Subset
<1>3. /\ \A i \in kept : \E x \in DOMAIN items : items[x].id = cited[i]
      /\ \A i \in kept : cited[i] \in Queries!EvidenceIds
  BY <1>1 DEF ItemRecords
<1>4. \A i, j \in kept : cited[i] = cited[j] => i = j
  <2> SUFFICES ASSUME NEW i \in kept, NEW j \in kept, cited[i] = cited[j], i < j PROVE FALSE
    BY <1>2
  <2>1. i \in 1 .. j - 1
    BY <1>1
  <2> QED
    BY <2>1
<1>5. valid = Queries!Each(kept, cited)
  BY DEF Queries!Validated
<1> HIDE DEF kept, valid
<1>6. /\ valid \in Seq(Queries!EvidenceIds) /\ Len(valid) = N
      /\ \A n \in 1 .. N : valid[n] = cited[Queries!Nth(kept, n)]
  <2>1. /\ Queries!Each(kept, cited) \in Seq(Queries!EvidenceIds)
        /\ Len(Queries!Each(kept, cited)) = Cardinality(kept)
        /\ \A n \in 1 .. Cardinality(kept) : Queries!Each(kept, cited)[n] = cited[Queries!Nth(kept, n)]
    BY <1>2, <1>3, EachIs
  <2> QED
    BY <1>5, <2>1
<1>7. kept \in SUBSET Int
  BY <1>2
<1>8. /\ \A n \in 1 .. N : Queries!Nth(kept, n) \in kept
      /\ \A m, n \in 1 .. N : Queries!Nth(kept, m) = Queries!Nth(kept, n) => m = n
  BY <1>2, <1>7, NthIn
<1> HIDE DEF N
<1>9. DOMAIN valid = 1 .. N
  BY <1>6
<1>10. \A i \in DOMAIN valid : \E x \in DOMAIN items : items[x].id = valid[i]
  <2> SUFFICES ASSUME NEW i \in DOMAIN valid PROVE \E x \in DOMAIN items : items[x].id = valid[i]
    OBVIOUS
  <2>1. Queries!Nth(kept, i) \in kept /\ valid[i] = cited[Queries!Nth(kept, i)]
    BY <1>6, <1>8, <1>9
  <2> QED
    BY <1>3, <2>1
<1>11. \A i, j \in DOMAIN valid : valid[i] = valid[j] => i = j
  <2> SUFFICES ASSUME NEW i \in DOMAIN valid, NEW j \in DOMAIN valid, valid[i] = valid[j] PROVE i = j
    OBVIOUS
  <2>1. /\ Queries!Nth(kept, i) \in kept /\ Queries!Nth(kept, j) \in kept
        /\ cited[Queries!Nth(kept, i)] = cited[Queries!Nth(kept, j)]
    BY <1>6, <1>8, <1>9
  <2>2. Queries!Nth(kept, i) = Queries!Nth(kept, j)
    BY <1>4, <2>1
  <2> QED
    BY <1>8, <1>9, <2>2
<1> QED
  BY <1>6, <1>10, <1>11 DEF valid

-----------------------------------------------------------------------------
(* The steps keep the invariant of the queries.                            *)

\* The steps of the pipeline disturb a request, but not what it has read.
LEMMA DisturbedKeeps ==
  ASSUME QueriesInv, Queries!Disturbed, s1' \in Revisions, s2' \in SUBSET Mentions,
         s6 \subseteq s6', s6' \subseteq QueryMoments, Queries!Cardinality(s6') <= MaxMoments,
         IndexOK(s3', s6')
  PROVE  QueriesInv'
<1> DEFINE n == [s4 EXCEPT !.calm = FALSE]
<1>1. /\ RequestOK(s4) /\ s4 \in QueryRecords /\ (s4.pc = "context" => ~s4.preview)
      /\ SaidOK(s4, s6)
  BY DEF QueriesInv, RequestOK
<1>2. n \in QueryRecords /\ n.calm = FALSE
  BY <1>1 DEF QueryRecords
<1>3. /\ n.pc = s4.pc /\ n.request = s4.request /\ n.intent = s4.intent /\ n.entity = s4.entity
      /\ n.structured = s4.structured /\ n.hits = s4.hits /\ n.semantic = s4.semantic
      /\ n.asOf = s4.asOf /\ n.items = s4.items /\ n.answer = s4.answer
  BY <1>1 DEF QueryRecords
<1>4. n.failed = s4.failed /\ n.preview = s4.preview
  BY <1>1 DEF QueryRecords
<1>5. s4' = n /\ s5' = Queries!NoPreview
  BY DEF Queries!Disturbed
<1> HIDE DEF n
<1>6. RequestOK(n) /\ (n.pc = "context" => ~n.preview)
  BY <1>1, <1>2, <1>3, <1>4 DEF RequestOK
<1>7. SaidOK(n, s6')
  BY <1>1, <1>3, SaidStays
<1> QED
  BY <1>2, <1>5, <1>6, <1>7 DEF QueriesInv, CalmOK, ShownOK

\* What a run writes was said at the moment it was found, and is stamped with its revision.
LEMMA RecordsOK ==
  ASSUME NEW m \in Meetings, NEW was, was \subseteq QueryMoments, NEW moment \in was,
         NEW es \in SUBSET Entities
  PROVE  IndexOK(Queries!Records(m, moment, es), was)
<1> DEFINE at == moment.observed
           v == moment.revision[m]
<1>1. at \in SUBSET Mentions /\ v \in 1 .. MaxRevision
  BY DEF QueryMoments, Revisions
<1>2. Queries!Records(m, moment, es) =
         {[id |-> x.id, meeting |-> m, revision |-> v, hash |-> Queries!Representation(x)] :
             x \in {y \in Corpora[at][es] : y.meeting = m}}
  BY DEF Queries!Records, Queries!MeetingEvidence
<1>3. \A x, n : Saying(x, n, at) /\ moment.revision[n] = v => SaidAt(was, x, n, v)
  BY DEF SaidAt
<1>4. Corpora[at][es] \in Evidence(Nobody, at)
  BY <1>1, CorporaAre
<1> HIDE DEF at
<1>5. SUFFICES ASSUME NEW x \in Corpora[at][es], x.meeting = m
               PROVE  LET r == [id |-> x.id, meeting |-> m, revision |-> v,
                                hash |-> Queries!Representation(x)]
                      IN  /\ r \in IndexRecords /\ r.id[3] = r.meeting
                          /\ SaidAt(was, r.hash, r.meeting, r.revision)
  BY <1>2 DEF IndexOK
<1> HIDE DEF v
<1>6. x \in ItemRecords /\ x.id[3] = x.meeting /\ Saying(x, m, at)
  BY <1>4, <1>5 DEF Evidence, ItemsOf, Named
<1> DEFINE hash == Queries!Representation(x)
<1>7. /\ hash \in [type : Queries!EvidenceTypes, entity : Entities \cup {Nobody}, topic : Topics,
                   says : Nat, text : BOOLEAN]
      /\ hash.entity = x.entity /\ hash.topic = x.topic /\ hash.says = x.says
  BY <1>6 DEF Queries!Representation, ItemRecords
<1> HIDE DEF hash
<1>8. SaidAt(was, hash, m, v)
  <2>1. Saying(hash, m, at)
    BY <1>6, <1>7 DEF Saying
  <2> QED
    BY <1>3, <2>1 DEF v
<1>9. x.id \in Queries!EvidenceIds /\ x.id[3] = m
  BY <1>5, <1>6 DEF ItemRecords
<1>10. LET r == [id |-> x.id, meeting |-> m, revision |-> v, hash |-> hash]
       IN  /\ r \in IndexRecords /\ r.id[3] = r.meeting
           /\ SaidAt(was, r.hash, r.meeting, r.revision)
  BY <1>1, <1>7, <1>8, <1>9 DEF IndexRecords
<1> QED
  BY <1>10 DEF hash

\* What was said at the moments there have been is said at them still.
LEMMA IndexStays ==
  ASSUME NEW index, NEW was, NEW will, IndexOK(index, was), was \subseteq will
  PROVE  IndexOK(index, will)
BY DEF IndexOK, SaidAt

\* A revision, or a mention, makes a moment.
LEMMA MomentKeeps ==
  ASSUME QueriesInv, Queries!Disturbed, Queries!Noted, s3' = s3,
         s1' \in Revisions, s2' \in SUBSET Mentions
  PROVE  QueriesInv'
<1>1. s6' = s6 \cup {[revision |-> s1', observed |-> s2']} /\ Queries!Cardinality(s6') <= MaxMoments
  BY DEF Queries!Noted
<1>2. s6 \subseteq s6' /\ s6' \subseteq QueryMoments
  BY <1>1 DEF QueriesInv, QueryMoments
<1>3. IndexOK(s3', s6')
  BY <1>2, IndexStays DEF QueriesInv
<1> QED
  BY <1>1, <1>2, <1>3, DisturbedKeeps

\* The steps of the meetings: a revision, a mention resolved or ambiguous, an indexing.
LEMMA RefreshKeeps ==
  ASSUME QueriesInv, NEW m \in Meetings, Queries!Refresh(m)
  PROVE  QueriesInv'
<1>1. s1 \in Revisions /\ s2 \in SUBSET Mentions /\ MaxRevision \in Nat
  BY QueriesAssumption DEF QueriesInv, Queries!ConstantsOK
<1>2. s1' \in Revisions
  BY <1>1 DEF Queries!Refresh, Revisions
<1> QED
  BY <1>1, <1>2, MomentKeeps DEF Queries!Refresh

LEMMA MentionKeeps ==
  ASSUME QueriesInv, NEW k \in Mentions, Queries!Observe(k) \/ Queries!Withdraw(k)
  PROVE  QueriesInv'
<1>1. s1 \in Revisions /\ s2 \in SUBSET Mentions
  BY DEF QueriesInv
<1>2. s2' \in SUBSET Mentions
  BY <1>1 DEF Queries!Observe, Queries!Withdraw
<1> QED
  BY <1>1, <1>2, MomentKeeps DEF Queries!Observe, Queries!Withdraw

LEMMA IndexKeeps ==
  ASSUME QueriesInv, NEW m \in Meetings, Queries!Index(m)
  PROVE  QueriesInv'
<1>1. /\ s1 \in Revisions /\ s2 \in SUBSET Mentions /\ s6 \subseteq QueryMoments
      /\ Queries!Cardinality(s6) <= MaxMoments /\ IndexOK(s3, s6)
  BY DEF QueriesInv
<1>2. s1' = s1 /\ s2' = s2 /\ s6' = s6 /\ Queries!Disturbed
  BY DEF Queries!Index
<1>3. PICK fetched \in s6 :
         \E entities \in {Queries!Named(m, w) : w \in {v \in s6 : v.revision[m] = fetched.revision[m]}} :
            \A r \in s3' : r \in s3 \/ r \in Queries!Records(m, fetched, entities)
  BY DEF Queries!Index
<1>8. PICK entities \in {Queries!Named(m, w) : w \in {v \in s6 : v.revision[m] = fetched.revision[m]}} :
         \A r \in s3' : r \in s3 \/ r \in Queries!Records(m, fetched, entities)
  BY <1>3
<1>4. entities \in SUBSET Entities
  <2>1. PICK w \in s6 : entities = Queries!Named(m, w)
    BY <1>8
  <2>2. w.observed \subseteq Mentions
    BY <1>1 DEF QueryMoments
  <2> QED
    BY <2>1, <2>2, QueriesAssumption DEF Queries!Named, Queries!ConstantsOK
<1>5. IndexOK(Queries!Records(m, fetched, entities), s6)
  BY <1>1, <1>4, RecordsOK
<1>7. IndexOK(s3', s6')
  BY <1>1, <1>2, <1>5, <1>8 DEF IndexOK
<1> QED
  BY <1>1, <1>2, <1>7, DisturbedKeeps

\* A step of the request, while nothing is answered.
LEMMA StepKeeps ==
  ASSUME QueriesInv, NEW n, Queries!Step(n), RequestOK(n), SaidOK(n, s6),
         n.calm = s4.calm, n.preview = s4.preview,
         CalmOK(n, s1, s2, s3), n.pc = "context" => ~n.preview
  PROVE  QueriesInv'
<1>1. s4' = n /\ s1' = s1 /\ s2' = s2 /\ s3' = s3 /\ s5' = s5 /\ s6' = s6
  BY DEF Queries!Step
<1> QED
  BY <1>1 DEF QueriesInv

\* Every reply ends the request.
LEMMA ReplyKeeps ==
  ASSUME QueriesInv, NEW n, RequestOK(n), SaidOK(n, s6), n.pc # "idle", Len(n.items) <= n.request.max,
         n.calm = s4.calm, n.preview = s4.preview,
         n.preview /\ n.calm /\ ~n.failed /\ Clear(n.request) => n.items = ItemsFor(n.request, s1, s2, s3),
         NEW answer \in Answers, AnswerOK(answer), Queries!Reply(n, answer)
  PROVE  QueriesInv'
<1> DEFINE done == [n EXCEPT !.pc = "done", !.answer = answer]
<1>1. RequestOK(done)
  BY Zenon, ReplyOK
<1>2. n \in QueryRecords /\ n.request \in Requests
  BY DEF RequestOK
<1>3. done.pc = "done" /\ done.preview = n.preview /\ done.calm = n.calm
  BY <1>2 DEF QueryRecords
<1>4. s4' = done /\ s1' = s1 /\ s2' = s2 /\ s3' = s3 /\ s6' = s6
  BY DEF Queries!Reply
<1>9. SaidOK(done, s6)
  <2>1. done.hits = n.hits /\ done.semantic = n.semantic /\ done.asOf = n.asOf
    BY <1>2 DEF QueryRecords
  <2> HIDE DEF done
  <2> QED
    BY <2>1, SaidStays
<1>5. s5' = IF n.preview /\ n.calm /\ ~n.failed THEN [request |-> n.request, items |-> n.items] ELSE s5
  BY DEF Queries!Reply
<1> HIDE DEF done
<1>6. CalmOK(done, s1, s2, s3)
  BY <1>3 DEF CalmOK
<1>7. CASE n.preview /\ n.calm /\ ~n.failed
  <2>1. s5'.request = n.request /\ s5'.items = n.items
    BY <1>5, <1>7
  <2>2. ShownOK(s5', s1, s2, s3)
    BY <1>2, <1>7, <2>1 DEF ShownOK
  <2> QED
    BY <1>1, <1>3, <1>4, <1>6, <1>7, <1>9, <2>2 DEF QueriesInv
<1>8. CASE ~(n.preview /\ n.calm /\ ~n.failed)
  <2>1. s5' = s5
    BY <1>5, <1>8
  <2> QED
    BY <1>1, <1>3, <1>4, <1>6, <1>9, <2>1 DEF QueriesInv
<1> QED
  BY <1>7, <1>8

\* The steps of the request, one lemma each.
LEMMA AskKeeps ==
  ASSUME QueriesInv, NEW r \in Requests, NEW preview \in BOOLEAN, Queries!Ask(r, preview)
  PROVE  QueriesInv'
<1> DEFINE n == Asked(r, preview)
<1>1. s4' = n /\ s1' = s1 /\ s2' = s2 /\ s3' = s3 /\ s6' = s6
  BY DEF Queries!Ask, IntentOf, Asked
<1>2. s5' = IF preview THEN Queries!NoPreview ELSE s5
  BY DEF Queries!Ask
<1>3. /\ RequestOK(n) /\ n.calm /\ n.preview = preview
      /\ n.pc \notin {"search", "corpus", "revisions", "context"}
  BY AskOK
<1>6. SaidOK(n, s6)
  <2>1. /\ Queries!Idle \in QueryRecords
        /\ Queries!Idle.hits = {} /\ Queries!Idle.semantic = {}
    BY IdleIs DEF RequestOK, Queries!Idle
  <2>2. n.hits = {} /\ n.semantic = {}
    BY <2>1 DEF Asked, QueryRecords
  <2> HIDE DEF n
  <2> QED
    BY <2>2 DEF SaidOK
<1> HIDE DEF n
<1>4. CalmOK(n, s1, s2, s3)
  BY <1>3 DEF CalmOK
<1>5. ShownOK(s5', s1, s2, s3)
  BY <1>2 DEF QueriesInv, ShownOK
<1> QED
  BY <1>1, <1>3, <1>4, <1>5, <1>6 DEF QueriesInv

LEMMA UnclearKeeps ==
  ASSUME QueriesInv, Queries!Unclear
  PROVE  QueriesInv'
<1>1. /\ RequestOK(s4) /\ s4 \in QueryRecords /\ s4.pc = "unclear" /\ s4.intent = "UNKNOWN"
      /\ s4.request \in Requests /\ s4.items = <<>> /\ s4.entity \in Mentioned /\ s4.request.max \in Nat
      /\ IntentOf(s4.request) = "UNKNOWN" /\ SaidOK(s4, s6)
  BY RequestsAre DEF QueriesInv, RequestOK, QueryRecords, Queries!Unclear
<1>2. CASE s4.preview \/ s4.request.question.tokens = 0
  <2>1. Queries!Reply(s4, Queries!Insufficient(s4.entity, {}))
    BY <1>2 DEF Queries!Unclear
  <2>2. Queries!Insufficient(s4.entity, {}) \in Answers /\ AnswerOK(Queries!Insufficient(s4.entity, {}))
    BY <1>1, InsufficientIs
  <2>3. ~Clear(s4.request) /\ Len(s4.items) <= s4.request.max
    BY <1>1 DEF Clear
  <2> QED
    BY <1>1, <2>1, <2>2, <2>3, ReplyKeeps
<1>3. CASE ~(s4.preview \/ s4.request.question.tokens = 0)
  <2> DEFINE n == [s4 EXCEPT !.pc = "corpus"]
  <2>1. Queries!Step(n)
    BY <1>3 DEF Queries!Unclear
  <2>2. RequestOK(n)
    BY <1>1, UnclearOK
  <2>3. n.pc = "corpus" /\ n.intent = "UNKNOWN" /\ n.calm = s4.calm /\ n.preview = s4.preview
    BY <1>1 DEF QueryRecords
  <2>4. n.hits = s4.hits /\ n.semantic = s4.semantic /\ n.asOf = s4.asOf
    BY <1>1 DEF QueryRecords
  <2> HIDE DEF n
  <2>5. CalmOK(n, s1, s2, s3)
    BY <2>3 DEF CalmOK
  <2>6. SaidOK(n, s6)
    BY <1>1, <2>4, SaidStays
  <2> QED
    BY <2>1, <2>2, <2>3, <2>5, <2>6, StepKeeps
<1> QED
  BY <1>2, <1>3

LEMMA ResolveKeeps ==
  ASSUME QueriesInv, Queries!Resolve
  PROVE  QueriesInv'
<1> DEFINE matched == Queries!Matched(s4.request)
<1>1. /\ RequestOK(s4) /\ s4 \in QueryRecords /\ s4.pc = "resolve" /\ s4.intent \in Queries!EntityIntents
      /\ s4.request \in Requests /\ s4.items = <<>> /\ s4.request.max \in Nat
      /\ s4.intent = IntentOf(s4.request) /\ SaidOK(s4, s6)
  BY RequestsAre DEF QueriesInv, RequestOK, Queries!Resolve
<1>2. IsFiniteSet(matched)
  <2>1. matched \subseteq Entities
    BY DEF Queries!Matched
  <2> QED
    BY <2>1, QueriesAssumption, SameNumbers, FS_Subset DEF Queries!ConstantsOK
<1>3. CASE Queries!Cardinality(matched) = 1
  <2> DEFINE n == [s4 EXCEPT !.pc = "retrieve", !.entity = CHOOSE e \in matched : TRUE]
  <2>1. Queries!Step(n)
    BY <1>3 DEF Queries!Resolve
  <2>2. \E e : matched = {e}
    BY <1>2, <1>3, SameNumbers, FS_Singleton
  <2>3. RequestOK(n)
    BY Zenon, <1>1, <2>2, ResolveOK
  <2>4. n.pc = "retrieve" /\ n.calm = s4.calm /\ n.preview = s4.preview
    BY <1>1 DEF QueryRecords
  <2>5. n.hits = s4.hits /\ n.semantic = s4.semantic /\ n.asOf = s4.asOf
    BY <1>1 DEF QueryRecords
  <2> HIDE DEF n
  <2>6. CalmOK(n, s1, s2, s3)
    BY <2>4 DEF CalmOK
  <2>7. SaidOK(n, s6)
    BY <1>1, <2>5, SaidStays
  <2> QED
    BY <2>1, <2>3, <2>4, <2>6, <2>7, StepKeeps
<1>4. CASE Queries!Cardinality(matched) # 1
  <2> DEFINE n == [s4 EXCEPT !.entity = Nobody]
             warnings == {IF matched = {} THEN "unresolved" ELSE "ambiguous"}
  <2>1. Queries!Reply(n, Queries!Insufficient(Nobody, warnings))
    BY <1>4 DEF Queries!Resolve
  <2>2. Queries!Insufficient(Nobody, warnings) \in Answers /\ AnswerOK(Queries!Insufficient(Nobody, warnings))
    <3>1. Nobody \in Mentioned
      BY DEF Mentioned
    <3>2. warnings = {"unresolved"} \/ warnings = {"ambiguous"}
      OBVIOUS
    <3> HIDE DEF warnings
    <3>3. warnings \subseteq Told
      BY <3>2 DEF Told
    <3> QED
      BY <3>1, <3>3, InsufficientIs
  <2>3. n \in QueryRecords
    BY <1>1 DEF QueryRecords, Mentioned
  <2>4. /\ n.pc = "resolve" /\ n.request = s4.request /\ n.intent = s4.intent
        /\ n.structured = s4.structured /\ n.hits = s4.hits /\ n.semantic = s4.semantic
        /\ n.asOf = s4.asOf /\ n.items = s4.items /\ n.answer = s4.answer
    BY <1>1 DEF QueryRecords
  <2>5. n.failed = s4.failed /\ n.preview = s4.preview /\ n.calm = s4.calm
    BY <1>1 DEF QueryRecords
  <2> HIDE DEF n, warnings
  <2>6. RequestOK(n)
    BY <1>1, <2>3, <2>4, <2>5 DEF RequestOK
  <2>7. ~Clear(n.request)
    <3> SUFFICES ASSUME NEW e \in Entities, matched = {e} PROVE FALSE
      BY <1>1, <2>4 DEF Clear
    <3> QED
      BY <1>4, SameNumbers, FS_Singleton
  <2>8. Len(n.items) <= n.request.max
    BY <1>1, <2>4
  <2>9. SaidOK(n, s6)
    BY <1>1, <2>4, SaidStays
  <2> QED
    BY <2>1, <2>2, <2>4, <2>5, <2>6, <2>7, <2>8, <2>9, ReplyKeeps
<1> QED
  BY <1>3, <1>4

LEMMA StructuredKeeps ==
  ASSUME QueriesInv, Queries!ReadStructured
  PROVE  QueriesInv'
<1> DEFINE read == Queries!LastOf(Queries!Retrieve(Report(s2), s4.intent, s4.entity,
                                                   2 * s4.request.max, TRUE))
           n == [s4 EXCEPT !.pc = "corpus", !.structured = read]
<1>1. /\ RequestOK(s4) /\ s4 \in QueryRecords /\ s4.pc = "retrieve" /\ s2 \in SUBSET Mentions
      /\ SaidOK(s4, s6)
  BY DEF QueriesInv, RequestOK, Queries!ReadStructured
<1>2. Queries!Step(n)
  BY DEF Queries!ReadStructured, Queries!Signals
<1>3. RequestOK(n) /\ n.structured = ReadOf(n.request, s2)
  BY Zenon, <1>1, ReadOK
<1> HIDE DEF read
<1>4. n.pc = "corpus" /\ n.calm = s4.calm /\ n.preview = s4.preview
  BY <1>1 DEF QueryRecords
<1>5. n.hits = s4.hits /\ n.semantic = s4.semantic /\ n.asOf = s4.asOf
  BY <1>1 DEF QueryRecords
<1> HIDE DEF n
<1>6. CalmOK(n, s1, s2, s3)
  BY <1>3, <1>4 DEF CalmOK
<1>7. SaidOK(n, s6)
  BY <1>1, <1>5, SaidStays
<1> QED
  BY <1>2, <1>3, <1>4, <1>6, <1>7, StepKeeps

LEMMA CorpusKeeps ==
  ASSUME QueriesInv, Queries!ReadCorpus
  PROVE  QueriesInv'
<1> DEFINE corpus == Corpora[s2][Entities]
           n == [s4 EXCEPT !.pc = "search", !.corpus = corpus]
<1>1. /\ RequestOK(s4) /\ s4 \in QueryRecords /\ s4.pc = "corpus" /\ s2 \in SUBSET Mentions
      /\ SaidOK(s4, s6)
  BY DEF QueriesInv, RequestOK, Queries!ReadCorpus
<1>2. Queries!Step(n)
  BY DEF Queries!ReadCorpus
<1>3. RequestOK(n) /\ n.corpus = corpus
  BY Zenon, <1>1, CorpusOK
<1>4. s4.calm /\ s4.intent # "UNKNOWN" => s4.structured = ReadOf(s4.request, s2)
  BY <1>1 DEF QueriesInv, CalmOK
<1> HIDE DEF corpus
<1>5. /\ n.pc = "search" /\ n.request = s4.request /\ n.intent = s4.intent
      /\ n.structured = s4.structured /\ n.calm = s4.calm /\ n.preview = s4.preview
  BY <1>1 DEF QueryRecords
<1>6. n.hits = s4.hits /\ n.semantic = s4.semantic /\ n.asOf = s4.asOf
  BY <1>1 DEF QueryRecords
<1> HIDE DEF n
<1>7. CalmOK(n, s1, s2, s3)
  BY <1>3, <1>4, <1>5 DEF CalmOK, corpus
<1>8. SaidOK(n, s6)
  BY <1>1, <1>6, SaidStays
<1> QED
  BY <1>2, <1>3, <1>5, <1>7, <1>8, StepKeeps

LEMMA SearchKeeps ==
  ASSUME QueriesInv, NEW fails \in BOOLEAN, Queries!Search(fails)
  PROVE  QueriesInv'
<1> DEFINE n == Searched(s4, fails, s3)
<1>1. /\ RequestOK(s4) /\ s4 \in QueryRecords /\ s4.pc = "search" /\ IndexOK(s3, s6)
      /\ SaidOK(s4, s6)
  BY DEF QueriesInv, RequestOK, Queries!Search
<1>2. Queries!Step(n)
  BY DEF Queries!Search, Searched
<1>3. /\ RequestOK(n) /\ SaidOK(n, s6) /\ n.failed = fails
      /\ ~fails => n.hits = Queries!Rehydrated(s3, s4.corpus, s4.request.question)
  BY <1>1, SearchOK
<1>4. s4.calm => /\ s4.corpus = Corpora[s2][Entities]
                 /\ s4.intent # "UNKNOWN" => s4.structured = ReadOf(s4.request, s2)
  BY <1>1 DEF QueriesInv, CalmOK
<1>5. /\ n.pc = "revisions" /\ n.request = s4.request /\ n.intent = s4.intent
      /\ n.structured = s4.structured
  BY <1>1 DEF QueryRecords, Searched
<1>6. n.calm = s4.calm /\ n.preview = s4.preview
  BY <1>1 DEF QueryRecords, Searched
<1> HIDE DEF n
<1>7. CalmOK(n, s1, s2, s3)
  BY <1>3, <1>4, <1>5, <1>6 DEF CalmOK, FoundBy
<1> QED
  BY <1>2, <1>3, <1>5, <1>6, <1>7, StepKeeps

\* What is supplied depends on what was asked and read only.
LEMMA SameSupplied ==
  ASSUME NEW a, NEW b, NEW revs, a.request = b.request, a.intent = b.intent, a.entity = b.entity,
         a.structured = b.structured, a.hits = b.hits
  PROVE  Queries!Supplied(a, revs) = Queries!Supplied(b, revs)
<1>1. Queries!Found(a, revs) = Queries!Found(b, revs)
  BY DEF Queries!Found
<1> QED
  BY <1>1 DEF Queries!Supplied

\* What a request reads when nothing changes, by field.
LEMMA UndisturbedIs ==
  ASSUME NEW r, NEW at, NEW index
  PROVE  LET u == Undisturbed(r, at, index)
         IN  /\ u.request = r /\ u.intent = IntentOf(r) /\ u.entity = Meant(r)
             /\ u.structured = ReadOf(r, at) /\ u.hits = FoundBy(r, at, index)
<1>1. Queries!Idle \in QueryRecords
  BY IdleIs DEF RequestOK
<1> QED
  BY <1>1 DEF Undisturbed, QueryRecords

LEMMA BuildKeeps ==
  ASSUME QueriesInv, Queries!BuildContext
  PROVE  QueriesInv'
<1> DEFINE n == Built(s4, s1)
           supplied == Queries!Supplied(s4, s1)
<1>1. /\ RequestOK(s4) /\ s4 \in QueryRecords /\ s4.pc = "revisions" /\ s1 \in Revisions
      /\ s4.request \in Requests /\ s4.intent = IntentOf(s4.request) /\ s4.entity = Meant(s4.request)
      /\ s4.entity \in Mentioned /\ SaidOK(s4, s6)
  BY DEF QueriesInv, RequestOK, QueryRecords, Queries!BuildContext
<1>2. /\ RequestOK(n) /\ SaidOK(n, s6) /\ n.pc = "context" /\ n.request = s4.request /\ n.intent = s4.intent
      /\ n.preview = s4.preview /\ n.calm = s4.calm /\ n.failed = s4.failed
      /\ n.items = Queries!Context(supplied, s4.request.max).items
  BY <1>1, ContextOK
<1>3. \/ s4.preview /\ Queries!Preview(n)
      \/ s4.intent = "UNKNOWN" /\ Queries!Reply(n, Queries!Insufficient(s4.entity, {}))
      \/ ~s4.preview /\ Queries!Step(n)
  BY DEF Queries!BuildContext, Built
<1>4. n.items \in Seq(ItemRecords) /\ IdsDiffer(n.items) /\ Len(n.items) <= n.request.max
  BY <1>2 DEF RequestOK, QueryRecords
<1>5. ASSUME s4.calm, s4.intent # "UNKNOWN", s4.failed
      PROVE  n.items = Queries!Fitting(Queries!First(Queries!Ranked(ReadOf(s4.request, s2)), s4.request.max))
  <2>1. s4.structured = ReadOf(s4.request, s2)
    BY <1>1, <1>5 DEF QueriesInv, CalmOK
  <2>2. n.items = Queries!Fitting(Queries!First(Queries!Ranked(s4.structured), s4.request.max))
    BY <1>1, <1>2, <1>5, SuppliedOK
  <2> QED
    BY <2>1, <2>2
<1>6. ASSUME s4.calm, s4.intent # "UNKNOWN", ~s4.failed
      PROVE  n.items = ItemsFor(s4.request, s1, s2, s3)
  <2> DEFINE u == Undisturbed(s4.request, s2, s3)
  <2>1. s4.structured = ReadOf(s4.request, s2) /\ s4.hits = FoundBy(s4.request, s2, s3)
    BY <1>1, <1>6 DEF QueriesInv, CalmOK
  <2>2. /\ u.request = s4.request /\ u.intent = IntentOf(s4.request) /\ u.entity = Meant(s4.request)
        /\ u.structured = ReadOf(s4.request, s2) /\ u.hits = FoundBy(s4.request, s2, s3)
    BY UndisturbedIs
  <2>3. Queries!Supplied(u, s1) = supplied
    <3> HIDE DEF u
    <3> QED
      BY <1>1, <2>1, <2>2, SameSupplied
  <2> QED
    BY <1>2, <2>3 DEF ItemsFor
<1> HIDE DEF n, supplied
<1>7. CASE s4.preview /\ Queries!Preview(n)
  <2> DEFINE answer == [Queries!NoAnswer EXCEPT !.status = 200, !.evidence = n.items]
  <2>1. Queries!Reply(n, answer)
    BY <1>7 DEF Queries!Preview
  <2>2. 200 \in Replies
    BY DEF Replies
  <2>3. answer \in Answers /\ AnswerOK(answer)
    BY Zenon, <1>4, <2>2, WithoutProvider
  <2>4. n.preview /\ n.calm /\ ~n.failed /\ Clear(n.request) => n.items = ItemsFor(n.request, s1, s2, s3)
    BY <1>1, <1>2, <1>6 DEF Clear
  <2> HIDE DEF answer
  <2> QED
    BY <1>2, <1>4, <2>1, <2>3, <2>4, ReplyKeeps
<1>8. CASE s4.intent = "UNKNOWN" /\ Queries!Reply(n, Queries!Insufficient(s4.entity, {}))
  <2>1. Queries!Insufficient(s4.entity, {}) \in Answers /\ AnswerOK(Queries!Insufficient(s4.entity, {}))
    BY <1>1, InsufficientIs
  <2>2. ~Clear(n.request)
    BY <1>1, <1>2, <1>8 DEF Clear
  <2> QED
    BY <1>2, <1>4, <1>8, <2>1, <2>2, ReplyKeeps
<1>9. CASE ~s4.preview /\ Queries!Step(n)
  <2>1. CalmOK(n, s1, s2, s3)
    BY <1>2, <1>5, <1>6 DEF CalmOK
  <2> QED
    BY <1>2, <1>9, <2>1, StepKeeps
<1> QED
  BY <1>3, <1>7, <1>8, <1>9

\* What ends a request that has its context.
LEMMA ContextKeeps ==
  ASSUME QueriesInv, s4.pc = "context", NEW answer \in Answers, AnswerOK(answer), Queries!Reply(s4, answer)
  PROVE  QueriesInv'
<1>1. RequestOK(s4) /\ SaidOK(s4, s6) /\ ~s4.preview /\ Len(s4.items) <= s4.request.max
  BY DEF QueriesInv, RequestOK
<1> QED
  BY <1>1, ReplyKeeps

LEMMA NothingKeeps ==
  ASSUME QueriesInv, Queries!NothingFound
  PROVE  QueriesInv'
<1>1. s4.pc = "context" /\ s4.entity \in Mentioned
  BY DEF QueriesInv, RequestOK, QueryRecords, Queries!NothingFound
<1>2. Queries!Warnings \subseteq Told
  BY DEF Queries!Warnings, Told
<1>3. Queries!Insufficient(s4.entity, Queries!Warnings) \in Answers
      /\ AnswerOK(Queries!Insufficient(s4.entity, Queries!Warnings))
  BY <1>1, <1>2, InsufficientIs
<1>4. Queries!Reply(s4, Queries!Insufficient(s4.entity, Queries!Warnings))
  BY DEF Queries!NothingFound
<1> QED
  BY <1>1, <1>3, <1>4, ContextKeeps

LEMMA FailsKeeps ==
  ASSUME QueriesInv, NEW status \in {502, 503}, Queries!ProviderFails(status)
  PROVE  QueriesInv'
<1> DEFINE answer == [Queries!NoAnswer EXCEPT !.status = status]
<1>1. s4.pc = "context" /\ Queries!Reply(s4, answer)
  BY DEF Queries!ProviderFails
<1>2. status \in Replies
  BY DEF Replies
<1>3. answer \in Answers /\ AnswerOK(answer)
  BY <1>2, ProviderFailed
<1> HIDE DEF answer
<1> QED
  BY <1>1, <1>3, ContextKeeps

LEMMA AnswerKeeps ==
  ASSUME QueriesInv, NEW cited \in Queries!Citations, NEW insufficient \in BOOLEAN,
         Queries!Answer(cited, insufficient)
  PROVE  QueriesInv'
<1> DEFINE valid == Queries!Validated(cited, s4.items)
           warnings == Queries!Warnings
                       \cup (IF \E i \in DOMAIN cited : \A x \in DOMAIN s4.items : s4.items[x].id # cited[i]
                             THEN {"citation"} ELSE {})
           Given(status) == [status |-> status, evidence |-> s4.items, cited |-> valid, entity |-> s4.entity,
                             insufficient |-> insufficient, warnings |-> warnings]
<1>1. /\ s4.pc = "context" /\ s4.items \in Seq(ItemRecords) /\ IdsDiffer(s4.items)
      /\ s4.entity \in Mentioned
  BY DEF QueriesInv, RequestOK, QueryRecords, Queries!Answer
<1>2. Queries!Reply(s4, Given(200))
  BY DEF Queries!Answer
<1>3. cited \in Seq(Queries!Cited)
  <2> DEFINE C == Queries!Cited
  <2>1. cited = <<>> \/ \E a, b \in C : cited = <<a, b>>
    BY DEF Queries!Citations
  <2> HIDE DEF C
  <2>2. <<>> \in Seq(C)
    OBVIOUS
  <2>3. ASSUME NEW a \in C, NEW b \in C PROVE <<a, b>> \in Seq(C)
    OBVIOUS
  <2>4. cited \in Seq(C)
    BY <2>1, <2>2, <2>3
  <2> QED
    BY <2>4 DEF C
<1>4. /\ valid \in Seq(Queries!EvidenceIds)
      /\ \A i \in DOMAIN valid : \E x \in DOMAIN s4.items : s4.items[x].id = valid[i]
      /\ \A i, j \in DOMAIN valid : valid[i] = valid[j] => i = j
  BY <1>1, <1>3, ValidatedIs
<1>5. warnings \subseteq Told
  BY DEF Queries!Warnings, Told
<1> HIDE DEF valid, warnings
<1>6. ASSUME NEW status \in Replies PROVE Given(status) \in Answers /\ AnswerOK(Given(status))
  <2>1. Given(status) \in Answers
    BY <1>1, <1>4, <1>5 DEF Answers
  <2>2. Given(status).evidence = s4.items /\ Given(status).cited = valid
    OBVIOUS
  <2> HIDE DEF Given
  <2> QED
    BY <1>1, <1>4, <2>1, <2>2 DEF AnswerOK
<1>7. 200 \in Replies
  BY DEF Replies
<1> HIDE DEF Given
<1>8. Given(200) \in Answers /\ AnswerOK(Given(200))
  BY <1>6, <1>7
<1> QED
  BY <1>1, <1>2, <1>8, ContextKeeps

LEMMA CloseKeeps ==
  ASSUME QueriesInv, Queries!Close
  PROVE  QueriesInv'
<1>1. s4' = Queries!Idle /\ s1' = s1 /\ s2' = s2 /\ s3' = s3 /\ s5' = s5 /\ s6' = s6
  BY DEF Queries!Close, Queries!Step
<1>2. RequestOK(Queries!Idle) /\ SaidOK(Queries!Idle, s6)
  BY IdleIs DEF Queries!Idle, SaidOK
<1>3. Queries!Idle.calm /\ Queries!Idle.pc = "idle"
  BY DEF Queries!Idle
<1>4. CalmOK(Queries!Idle, s1, s2, s3)
  BY <1>3 DEF CalmOK
<1> HIDE DEF Queries!Idle
<1> QED
  BY <1>1, <1>2, <1>3, <1>4 DEF QueriesInv

\* The inductive invariant holds at first, and is kept.
LEMMA QueriesStart == Queries!Init => QueriesInv
<1> SUFFICES ASSUME Queries!Init PROVE QueriesInv
  OBVIOUS
<1>1. {MaxRevision, MaxMoments} \subseteq Nat \ {0}
  BY QueriesAssumption DEF Queries!ConstantsOK
<1>2. s1 \in Revisions /\ s2 \in SUBSET Mentions
  BY <1>1 DEF Queries!Init, Revisions
<1>3. /\ s3 = {} /\ s4 = Queries!Idle /\ s5 = Queries!NoPreview
      /\ s6 = {[revision |-> s1, observed |-> s2]}
  BY DEF Queries!Init
<1>4. s6 \subseteq QueryMoments
  BY <1>2, <1>3 DEF QueryMoments
<1>5. Queries!Cardinality(s6) <= MaxMoments
  <2>1. Cardinality(s6) = 1
    BY <1>3, FS_Singleton
  <2>2. Queries!Cardinality(s6) = 1
    BY <2>1, SameNumbers
  <2> QED
    BY <1>1, <2>2
<1>6. IndexOK(s3, s6)
  BY <1>3 DEF IndexOK
<1>7. RequestOK(s4) /\ SaidOK(s4, s6) /\ s4.pc = "idle"
  BY <1>3, IdleIs DEF Queries!Idle, SaidOK
<1>8. CalmOK(s4, s1, s2, s3) /\ ShownOK(s5, s1, s2, s3)
  BY <1>3, <1>7 DEF CalmOK, ShownOK
<1> QED
  BY <1>2, <1>3, <1>4, <1>5, <1>6, <1>7, <1>8 DEF QueriesInv

LEMMA QueriesKeep ==
  ASSUME QueriesInv, [Queries!Next]_(<<s1, s2, s3, s4, s5, s6>>)
  PROVE  QueriesInv'
<1>1. CASE UNCHANGED <<s1, s2, s3, s4, s5, s6>>
  BY <1>1 DEF QueriesInv
<1>2. CASE Queries!Next
  <2>1. ASSUME NEW m \in Meetings, Queries!Refresh(m) \/ Queries!Index(m) PROVE QueriesInv'
    BY <2>1, RefreshKeeps, IndexKeeps
  <2>6. ASSUME NEW k \in Mentions, Queries!Observe(k) \/ Queries!Withdraw(k) PROVE QueriesInv'
    BY <2>6, MentionKeeps
  <2>2. ASSUME NEW r \in Requests, NEW preview \in BOOLEAN, Queries!Ask(r, preview) PROVE QueriesInv'
    BY <2>2, AskKeeps
  <2>3. ASSUME NEW fails \in BOOLEAN, Queries!Search(fails) PROVE QueriesInv'
    BY <2>3, SearchKeeps
  <2>4. ASSUME NEW cited \in Queries!Citations, NEW insufficient \in BOOLEAN,
               Queries!Answer(cited, insufficient)
        PROVE  QueriesInv'
    BY <2>4, AnswerKeeps
  <2>5. ASSUME NEW status \in {502, 503}, Queries!ProviderFails(status) PROVE QueriesInv'
    BY <2>5, FailsKeeps
  <2> QED
    BY <1>2, <2>1, <2>2, <2>3, <2>4, <2>5, <2>6, UnclearKeeps, ResolveKeeps, StructuredKeeps, CorpusKeeps,
       BuildKeeps, NothingKeeps, CloseKeeps DEF Queries!Next
<1> QED
  BY <1>1, <1>2

\* What the invariant says of the queries.
LEMMA QueriesClaim ==
  ASSUME QueriesInv
  PROVE  /\ Queries!TypeOK /\ Queries!CitationsGrounded /\ Queries!EntityFocus
         /\ Queries!SemanticOfRevision /\ Queries!FailureKeepsStructured /\ Queries!PreviewAgrees
<1>1. RequestOK(s4) /\ s4 \in QueryRecords /\ s4.answer \in Answers /\ s4.answer.status \in Replies
  BY DEF QueriesInv, RequestOK, QueryRecords, Answers
<1>2. Queries!TypeOK
  <2>1. /\ s1 \in [Meetings -> 1 .. MaxRevision] /\ s2 \subseteq Mentions
        /\ Queries!Cardinality(s6) <= MaxMoments
    BY DEF QueriesInv, Revisions
  <2>2. s4.pc \in {"context", "done"} => Len(s4.items) <= s4.request.max
    BY <1>1 DEF RequestOK
  <2> QED
    BY <1>1, <2>1, <2>2 DEF Queries!TypeOK, Replies
<1>3. Queries!CitationsGrounded
  BY <1>1 DEF RequestOK, AnswerOK, IdsDiffer, Queries!CitationsGrounded
<1>4. Queries!EntityFocus
  BY <1>1 DEF RequestOK, Queries!EntityFocus
<1>5. Queries!SemanticOfRevision
  <2>1. SaidOK(s4, s6)
    BY DEF QueriesInv
  <2>2. ASSUME NEW x \in s4.semantic
        PROVE  \E moment \in s6 :
                  /\ moment.revision[x.meeting] = s4.asOf[x.meeting]
                  /\ Saying(x, x.meeting, moment.observed)
    BY <2>1 DEF SaidOK, SaidAt
  <2>3. ASSUME NEW x \in s4.semantic
        PROVE  \E moment \in s6 :
                  /\ moment.revision[x.meeting] = s4.asOf[x.meeting]
                  /\ \E i \in DOMAIN Report(moment.observed) :
                        LET s == Report(moment.observed)[i] IN
                        /\ s.meeting = x.meeting /\ s.entity = x.entity
                        /\ s.topic = x.topic /\ s.says = x.says
    <3>1. PICK moment \in s6 : /\ moment.revision[x.meeting] = s4.asOf[x.meeting]
                               /\ Saying(x, x.meeting, moment.observed)
      BY <2>2
    <3>2. PICK i \in DOMAIN Report(moment.observed) :
             LET s == Report(moment.observed)[i] IN
             /\ s.meeting = x.meeting /\ s.entity = x.entity
             /\ s.topic = x.topic /\ s.says = x.says
      BY <3>1 DEF Saying, Reports
    <3> QED
      BY <3>1, <3>2
  <2> QED
    BY <2>3 DEF Queries!SemanticOfRevision
<1>6. s4.pc = "context" => /\ s4.request \in Requests /\ s4.intent = IntentOf(s4.request)
                           /\ s4.entity = Meant(s4.request)
  BY <1>1 DEF RequestOK
<1>7. Queries!FailureKeepsStructured
  <2> SUFFICES ASSUME s4.failed, s4.calm, s4.intent # "UNKNOWN", s4.pc = "context"
               PROVE  s4.items = Queries!Fitting(Queries!First(Queries!Ranked(
                         Queries!LastOf(Queries!Retrieve(Report(s2), s4.intent, s4.entity,
                                                         2 * s4.request.max, TRUE))), s4.request.max))
    BY DEF Queries!FailureKeepsStructured, Queries!Signals
  <2> QED
    BY <1>6 DEF QueriesInv, CalmOK, ReadOf
<1>8. Queries!PreviewAgrees
  <2> SUFFICES ASSUME s4.pc = "context", ~s4.failed, s4.intent # "UNKNOWN", s5.request = s4.request
               PROVE  s4.items = s5.items
    BY DEF Queries!PreviewAgrees
  <2>1. s5 # Queries!NoPreview
    BY <1>6, RequestsAre DEF Queries!NoPreview
  <2>2. s4.calm
    BY <2>1 DEF QueriesInv
  <2>3. Clear(s4.request)
    <3>1. s4.intent \in Queries!EntityIntents => Queries!Matched(s4.request) = {s4.entity}
      BY <1>1 DEF RequestOK
    <3>2. Queries!Matched(s4.request) \subseteq Entities
      BY DEF Queries!Matched
    <3> QED
      BY <1>6, <3>1, <3>2 DEF Clear
  <2>4. s5.items = ItemsFor(s4.request, s1, s2, s3)
    BY <2>1, <2>3 DEF QueriesInv, ShownOK
  <2>5. s4.items = ItemsFor(s4.request, s1, s2, s3)
    BY <2>2 DEF QueriesInv, CalmOK
  <2> QED
    BY <2>4, <2>5
<1> QED
  BY <1>2, <1>3, <1>4, <1>5, <1>7, <1>8

PartOfQueries == part = "queries" => QueriesInv

\* For any entities, meetings, requests and signals, limits and budget: an answer cites what
\* it shows, about the one entity meant; what the search found was said at a moment of the
\* revision looked up; a search that
\* fails costs nothing that was read; and a preview shows what the answer rests on.
THEOREM AnswersAreGrounded == Spec => []AnswersGrounded
<1>1. Init => PartOfQueries
  BY QueriesStart DEF Init, PartOfQueries
<1>2. PartOfQueries /\ [Next]_vars => PartOfQueries'
  <2> SUFFICES ASSUME PartOfQueries, [Next]_vars, part' = "queries" PROVE QueriesInv'
    BY DEF PartOfQueries
  <2>1. part = "queries" /\ QueriesInv
    BY DEF PartOfQueries, Next, vars
  <2>2. [Queries!Next]_(<<s1, s2, s3, s4, s5, s6>>)
    BY <2>1 DEF Next, vars
  <2> QED
    BY <2>1, <2>2, QueriesKeep
<1>3. PartOfQueries => AnswersGrounded
  BY QueriesClaim DEF PartOfQueries, AnswersGrounded
<1> QED
  BY <1>1, <1>2, <1>3, PTL DEF Spec

=============================================================================
