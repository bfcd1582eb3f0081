----------------------------- MODULE StoreProofs -----------------------------
(***************************************************************************)
(* The properties of the Store run, for any constants: of the threads on   *)
(* the store the theorems of SharedStoreProofs, carried to the three       *)
(* instances in MCStore; of the migration an invariant of its own.         *)
(***************************************************************************)
EXTENDS MCStore, FiniteSetTheorems, TLAPS

USE RequestsAssumption

DatabaseP == INSTANCE SharedStoreProofs WITH
    Backend <- "database", MayFail <- FALSE,
    stored <- s1, tx <- s2, thread <- s3, acked <- s4, crashes <- s5
FailingP == INSTANCE SharedStoreProofs WITH
    Threads <- FewThreads, Backend <- "database", MayFail <- TRUE, MaxRequests <- MoreRequests,
    stored <- s1, tx <- s2, thread <- s3, acked <- s4, crashes <- s5
MemoryP == INSTANCE SharedStoreProofs WITH
    Backend <- "memory", MayFail <- FALSE,
    stored <- s1, tx <- s2, thread <- s3, acked <- s4, crashes <- s5

\* The invariants of the three parts.
PartsInv ==
    /\ part = "database" => DatabaseP!IInv /\ DatabaseP!NInv
    /\ part = "failing" => FailingP!IInv
    /\ part = "memory" => MemoryP!IInv

-----------------------------------------------------------------------------
(* The instance of the specification and that of its proofs are the same.  *)

\* The steps and the first states of Database.
LEMMA SameDatabase ==
  /\ Database!Init => DatabaseP!Init
  /\ Database!Next => DatabaseP!Next
<1>1. Database!Init => DatabaseP!Init
  BY DEF Database!Init, Database!Idle, Database!Empty, DatabaseP!Init, DatabaseP!Idle, DatabaseP!Empty
<1>2. Database!Next => DatabaseP!Next
  BY DEF Database!Next, Database!Step, Database!Crash, Database!Send, Database!Read,
         Database!Begin, Database!WriteMeeting, Database!WriteJob, Database!Commit,
         Database!CommitFails, Database!CheckInMemory, Database!SaveInMemory,
         Database!EnqueueInMemory, Database!EnqueueAgain, Database!Connection,
         Database!Idle, Database!At, Database!Go, Database!Give, Database!Done,
         Database!Lock, Database!Mine, Database!Change, Database!Answer,
         Database!Accepts, Database!Refused, Database!WithJob, Database!AfterSave,
         Database!vars, Database!Init, Database!Empty, DatabaseP!Next, DatabaseP!Step,
         DatabaseP!Crash, DatabaseP!Send, DatabaseP!Read, DatabaseP!Begin,
         DatabaseP!WriteMeeting, DatabaseP!WriteJob, DatabaseP!Commit,
         DatabaseP!CommitFails, DatabaseP!CheckInMemory, DatabaseP!SaveInMemory,
         DatabaseP!EnqueueInMemory, DatabaseP!EnqueueAgain, DatabaseP!Connection,
         DatabaseP!Idle, DatabaseP!At, DatabaseP!Go, DatabaseP!Give, DatabaseP!Done,
         DatabaseP!Lock, DatabaseP!Mine, DatabaseP!Change, DatabaseP!Answer,
         DatabaseP!Accepts, DatabaseP!Refused, DatabaseP!WithJob, DatabaseP!AfterSave,
         DatabaseP!vars, DatabaseP!Init, DatabaseP!Empty
<1> QED
  BY <1>1, <1>2

\* The steps and the first states of Failing.
LEMMA SameFailing ==
  /\ Failing!Init => FailingP!Init
  /\ Failing!Next => FailingP!Next
<1>1. Failing!Init => FailingP!Init
  BY DEF Failing!Init, Failing!Idle, Failing!Empty, FailingP!Init, FailingP!Idle, FailingP!Empty
<1>2. Failing!Next => FailingP!Next
  BY DEF Failing!Next, Failing!Step, Failing!Crash, Failing!Send, Failing!Read,
         Failing!Begin, Failing!WriteMeeting, Failing!WriteJob, Failing!Commit,
         Failing!CommitFails, Failing!CheckInMemory, Failing!SaveInMemory,
         Failing!EnqueueInMemory, Failing!EnqueueAgain, Failing!Connection,
         Failing!Idle, Failing!At, Failing!Go, Failing!Give, Failing!Done,
         Failing!Lock, Failing!Mine, Failing!Change, Failing!Answer, Failing!Accepts,
         Failing!Refused, Failing!WithJob, Failing!AfterSave, Failing!vars,
         Failing!Init, Failing!Empty, FailingP!Next, FailingP!Step, FailingP!Crash,
         FailingP!Send, FailingP!Read, FailingP!Begin, FailingP!WriteMeeting,
         FailingP!WriteJob, FailingP!Commit, FailingP!CommitFails,
         FailingP!CheckInMemory, FailingP!SaveInMemory, FailingP!EnqueueInMemory,
         FailingP!EnqueueAgain, FailingP!Connection, FailingP!Idle, FailingP!At,
         FailingP!Go, FailingP!Give, FailingP!Done, FailingP!Lock, FailingP!Mine,
         FailingP!Change, FailingP!Answer, FailingP!Accepts, FailingP!Refused,
         FailingP!WithJob, FailingP!AfterSave, FailingP!vars, FailingP!Init,
         FailingP!Empty
<1> QED
  BY <1>1, <1>2

\* The steps and the first states of Memory.
LEMMA SameMemory ==
  /\ Memory!Init => MemoryP!Init
  /\ Memory!Next => MemoryP!Next
<1>1. Memory!Init => MemoryP!Init
  BY DEF Memory!Init, Memory!Idle, Memory!Empty, MemoryP!Init, MemoryP!Idle, MemoryP!Empty
<1>2. Memory!Next => MemoryP!Next
  BY DEF Memory!Next, Memory!Step, Memory!Crash, Memory!Send, Memory!Read,
         Memory!Begin, Memory!WriteMeeting, Memory!WriteJob, Memory!Commit,
         Memory!CommitFails, Memory!CheckInMemory, Memory!SaveInMemory,
         Memory!EnqueueInMemory, Memory!EnqueueAgain, Memory!Connection, Memory!Idle,
         Memory!At, Memory!Go, Memory!Give, Memory!Done, Memory!Lock, Memory!Mine,
         Memory!Change, Memory!Answer, Memory!Accepts, Memory!Refused, Memory!WithJob,
         Memory!AfterSave, Memory!vars, Memory!Init, Memory!Empty, MemoryP!Next,
         MemoryP!Step, MemoryP!Crash, MemoryP!Send, MemoryP!Read, MemoryP!Begin,
         MemoryP!WriteMeeting, MemoryP!WriteJob, MemoryP!Commit, MemoryP!CommitFails,
         MemoryP!CheckInMemory, MemoryP!SaveInMemory, MemoryP!EnqueueInMemory,
         MemoryP!EnqueueAgain, MemoryP!Connection, MemoryP!Idle, MemoryP!At,
         MemoryP!Go, MemoryP!Give, MemoryP!Done, MemoryP!Lock, MemoryP!Mine,
         MemoryP!Change, MemoryP!Answer, MemoryP!Accepts, MemoryP!Refused,
         MemoryP!WithJob, MemoryP!AfterSave, MemoryP!vars, MemoryP!Init, MemoryP!Empty
<1> QED
  BY <1>1, <1>2

-----------------------------------------------------------------------------
\* The part is chosen at the start, and every step is one of its module.
LEMMA PartSteps ==
  ASSUME [Next]_vars
  PROVE  /\ part' = part
         /\ part = "database" => [DatabaseP!Next]_(DatabaseP!vars)
         /\ part = "failing" => [FailingP!Next]_(FailingP!vars)
         /\ part = "memory" => [MemoryP!Next]_(MemoryP!vars)
<1>1. part' = part
  BY DEF Next, vars
<1>2. part = "database" => Database!Next \/ UNCHANGED <<s1, s2, s3, s4, s5>>
  BY DEF Next, vars
<1>3. part = "failing" => Failing!Next \/ UNCHANGED <<s1, s2, s3, s4, s5>>
  BY DEF Next, vars
<1>4. part = "memory" => Memory!Next \/ UNCHANGED <<s1, s2, s3, s4, s5>>
  BY DEF Next, vars
<1> QED
  BY <1>1, <1>2, <1>3, <1>4, SameDatabase, SameFailing, SameMemory
     DEF DatabaseP!vars, FailingP!vars, MemoryP!vars

\* Each part starts in its invariant.
LEMMA PartsInit == Init => PartsInv
<1> SUFFICES ASSUME Init PROVE PartsInv
  OBVIOUS
<1>1. /\ part = "database" => DatabaseP!Init
      /\ part = "failing" => FailingP!Init
      /\ part = "memory" => MemoryP!Init
  BY SameDatabase, SameFailing, SameMemory DEF Init
<1> QED
  BY <1>1, DatabaseP!InitHolds, DatabaseP!NearInit, FailingP!InitHolds, MemoryP!InitHolds
     DEF PartsInv

\* Every step keeps the invariant of the part it is of; where COMMITs fail the
\* meeting does not go back, and where they do not the step is one of the log.
LEMMA PartsStep ==
  ASSUME PartsInv, [Next]_vars
  PROVE  /\ PartsInv'
         /\ part = "failing" => Failing!RevisionNeverFalls
         /\ [Log!Accept]_(Log!logvars)
<1>1. part' = part
  BY PartSteps
<1>2. CASE part = "database"
  <2>1. DatabaseP!IInv /\ DatabaseP!NInv /\ [DatabaseP!Next]_(DatabaseP!vars)
    BY <1>2, PartSteps DEF PartsInv
  <2>2. DatabaseP!IInv'
    BY <2>1, DatabaseP!StepHolds
  <2>3. /\ DatabaseP!NInv'
        /\ \/ s1'.rev = s1.rev + 1 /\ s1'.jobs = s1.jobs \cup {s1.rev + 1}
           \/ s1'.rev = s1.rev /\ s1'.jobs = s1.jobs
    BY <2>1, DatabaseP!NearHolds
  <2> QED
    BY <1>1, <1>2, <2>2, <2>3 DEF PartsInv, Log!Accept, Log!logvars
<1>3. CASE part = "failing"
  <2>1. FailingP!IInv /\ [FailingP!Next]_(FailingP!vars)
    BY <1>3, PartSteps DEF PartsInv
  <2>2. FailingP!IInv' /\ FailingP!RevisionNeverFalls
    BY <2>1, FailingP!StepHolds
  <2> QED
    BY <1>1, <1>3, <2>2
       DEF PartsInv, Failing!RevisionNeverFalls, FailingP!RevisionNeverFalls, Log!logvars
<1>4. CASE part = "memory"
  <2>1. MemoryP!IInv /\ [MemoryP!Next]_(MemoryP!vars)
    BY <1>4, PartSteps DEF PartsInv
  <2>2. MemoryP!IInv'
    BY <2>1, MemoryP!StepHolds
  <2> QED
    BY <1>1, <1>4, <2>2 DEF PartsInv, Log!logvars
<1> QED
  BY <1>1, <1>2, <1>3, <1>4 DEF PartsInv, Log!logvars

\* The invariants give what the run claims of the states.
LEMMA PartsClaim ==
  PartsInv =>
    /\ part = "database" => Database!TypeOK /\ Database!AckedIsStored
    /\ part = "failing"  => Failing!TypeOK /\ Failing!CurrentHasJob
    /\ part = "memory"   => Memory!TypeOK /\ Memory!AckedHasJob
<1> SUFFICES ASSUME PartsInv
             PROVE  /\ part = "database" => Database!TypeOK /\ Database!AckedIsStored
                    /\ part = "failing"  => Failing!TypeOK /\ Failing!CurrentHasJob
                    /\ part = "memory"   => Memory!TypeOK /\ Memory!AckedHasJob
  OBVIOUS
<1>1. part = "database" => DatabaseP!TypeOK /\ DatabaseP!AckedIsStored
  BY DatabaseP!TypesHold, DatabaseP!AckedFollows DEF PartsInv
<1>2. part = "failing" => FailingP!TypeOK /\ FailingP!CurrentHasJob
  BY FailingP!TypesHold DEF PartsInv, FailingP!IInv, FailingP!Owed
<1>3. part = "memory" => MemoryP!TypeOK /\ MemoryP!AckedHasJob
  BY MemoryP!TypesHold DEF PartsInv, MemoryP!IInv, MemoryP!Rows
<1>4. DatabaseP!TypeOK => Database!TypeOK
  BY DEF DatabaseP!TypeOK, Database!TypeOK, DatabaseP!Mine, Database!Mine
<1>5. FailingP!TypeOK => Failing!TypeOK
  BY DEF FailingP!TypeOK, Failing!TypeOK, FailingP!Mine, Failing!Mine
<1>6. MemoryP!TypeOK => Memory!TypeOK
  BY DEF MemoryP!TypeOK, Memory!TypeOK, MemoryP!Mine, Memory!Mine
<1> QED
  BY <1>1, <1>2, <1>3, <1>4, <1>5, <1>6
     DEF DatabaseP!AckedIsStored, Database!AckedIsStored,
         FailingP!CurrentHasJob, Failing!CurrentHasJob,
         MemoryP!AckedHasJob, Memory!AckedHasJob

\* The invariants of the parts hold in every reachable state.
THEOREM PartsInvariant == Spec => []PartsInv
<1>1. PartsInv /\ [Next]_vars => PartsInv'
  BY PartsStep
<1> QED
  BY <1>1, PartsInit, PTL DEF Spec

\* What a client was told of is in the database; the meeting has the job of
\* its revision and never goes back, also when transactions fail; in memory a
\* client was told of a revision only when it has its job.
THEOREM Requests == Spec => RequestsKept
<1>1. PartsInv /\ [Next]_vars => [part = "failing" => Failing!RevisionNeverFalls]_vars
  BY PartsStep
<1> QED
  BY <1>1, PartsClaim, PartsInvariant, PTL DEF Spec, RequestsKept

\* On the database the threads implement the promise of MeetingLog.
THEOREM LogKept == Spec => ImplementsLog
<1>1. PartsInv /\ [Next]_vars => [Log!Accept]_(Log!logvars)
  BY PartsStep
<1>2. Init => Log!LogInit
  BY DEF Init, Database!Init, Database!Empty, Log!LogInit
<1> QED
  BY <1>1, <1>2, PartsInvariant, PTL DEF Spec, ImplementsLog, Log!LogSpec

-----------------------------------------------------------------------------
(* The migration.  Its variables are s1, the processes started, s2, the    *)
(* version the database was at, s3, the database, s4, the connections, and *)
(* s5, the stops.  First what the statements of the program are.           *)

Db   == [schema : SUBSET Opening!Objects(SCHEMA_VERSION), versions : SUBSET (1 .. SCHEMA_VERSION)]
Conn == [status : {"down", "migrating", "ready", "duplicate", "locked"},
         pc : 0 .. Len(Program) + 1, txn : BOOLEAN, wrote : BOOLEAN, stale : BOOLEAN,
         saw : BOOLEAN, view : Db]

Sub(d, e) == d.schema \subseteq e.schema /\ d.versions \subseteq e.versions

\* Statement i makes something; it is an ALTER without a look.
Making(i)  == i \in DOMAIN Program /\ Opening!Makes(Program[i])
Altering(i) == i \in DOMAIN Program /\ Program[i].kind = "alter"

\* A version that is recorded has its schema and the older versions.
Consistent(d) ==
    \A v \in d.versions : Opening!Objects(v) \subseteq d.schema /\ 1 .. v \subseteq d.versions

\* What the statements before pc do is in d ...
DoneTo(pc, d) ==
    \A i \in DOMAIN Program : i < pc =>
       /\ Making(i) => Program[i].on \in d.schema
       /\ Program[i].kind = "version" => Program[i].step \in d.versions

\* ... of a version in d all statements are before pc, and so is what made that which d
\* has and e has not.
Behind(pc, d)   == \A i \in DOMAIN Program : Program[i].step \in d.versions => i < pc
NewTo(pc, d, e) == \A i : Making(i) /\ Program[i].on \in d.schema /\ Program[i].on \notin e.schema
                          => i < pc

SeenBy(c, d) == IF c.txn THEN c.view ELSE d

\* The snapshot of a transaction: it is that of the database unless somebody wrote since,
\* and what it has been written to has all the database has.
ViewOK(c, d) ==
    /\ Behind(c.pc, c.view) /\ NewTo(c.pc, c.view, d)
    /\ c.wrote => Sub(d, c.view)
    /\ ~ c.wrote => Sub(c.view, d) /\ (~ c.stale => c.view = d)

ConnOK(c, d) ==
    /\ c \in Conn
    /\ c.status = "migrating" =>
          /\ c.pc # 0 /\ Consistent(SeenBy(c, d)) /\ DoneTo(c.pc, SeenBy(c, d))
          /\ c.pc \in DOMAIN Program /\ Program[c.pc].kind = "add" /\ c.saw =>
                Program[c.pc].on \in SeenBy(c, d).schema
    /\ c.txn => c.status = "migrating" /\ ViewOK(c, d)
    /\ c.wrote => c.txn
    /\ c.status = "ready" => d = Opening!Database(SCHEMA_VERSION)

\* Between an ALTER and the version it belongs to.
InStep(c, i) ==
    /\ Altering(i) /\ c.status = "migrating" /\ i < c.pc
    /\ c.pc \in DOMAIN Program /\ Program[c.pc].step = Program[i].step

\* One process writes at a time, and one is in a step with an ALTER: the others
\* have not come to it, and its version is not there yet.
OneWriter == \A p, q \in Processes : s4[p].wrote /\ s4[q].wrote => p = q
OneInStep ==
    \A p \in Processes : \A i \in DOMAIN Program : InStep(s4[p], i) =>
       /\ \A q \in Processes : q # p /\ s4[q].status = "migrating" => s4[q].pc <= i
       /\ Program[i].step \notin s3.versions
       /\ Program[i].step \notin SeenBy(s4[p], s3).versions

TornBy(d, i) == Altering(i) /\ Program[i].on \in d.schema /\ Program[i].step \notin d.versions

\* Unless a process was stopped, who made a column is about to record its version.
Owned ==
    s5 = 0 => \A i : TornBy(s3, i) => \E p \in Processes : ~ s4[p].txn /\ InStep(s4[p], i)

\* From version 5 on all is done in the transaction.
Newer ==
    s2 >= 5 =>
       /\ \A i : ~ TornBy(s3, i)
       /\ \A p \in Processes : s4[p].status = "migrating" =>
             /\ s4[p].txn
             /\ \A i \in DOMAIN Program : Program[i].kind = "commit" => i < s4[p].pc

\* A process that is alone fails only on a column without its version.
AloneOK(c, d) ==
    /\ c.status = "migrating" =>
          /\ ~ c.stale /\ Behind(c.pc, SeenBy(c, d))
          /\ c.pc \in DOMAIN Program /\ Program[c.pc].kind = "add" =>
                (c.saw <=> Program[c.pc].on \in SeenBy(c, d).schema)
    /\ c.status \in {"duplicate", "locked"} => \E i : TornBy(d, i)
IsAlone == \A p, q \in s1 : p = q
Lonely  == IsAlone => \A p \in Processes : AloneOK(s4[p], s3)

MigrationTypes ==
    /\ s1 \subseteq Processes /\ s2 \in 0 .. SCHEMA_VERSION /\ s5 \in 0 .. MaxStops
    /\ s3 \in Db /\ Consistent(s3) /\ 1 .. s2 \subseteq s3.versions
    /\ s4 \in [Processes -> Conn]
    /\ \A p \in Processes : ConnOK(s4[p], s3)
    /\ \A p \in Processes : p \notin s1 => s4[p].status = "down"

MigrationInv == MigrationTypes /\ OneWriter /\ OneInStep /\ Owned /\ Newer /\ Lonely

\* The program.
LEMMA Statements ==
  /\ Len(Program) \in Nat /\ DOMAIN Program = 1 .. Len(Program) /\ SCHEMA_VERSION = 6
  /\ \A i \in DOMAIN Program : i \in Nat /\ Program[i].step \in 1 .. 6
  /\ \A i, j \in DOMAIN Program : i < j =>
        /\ Program[i].step <= Program[j].step
        /\ Program[i].kind = "version" => Program[i].step < Program[j].step
        /\ Program[i].kind = "alter" /\ Program[i].step = Program[j].step =>
              Program[j].kind \in {"alter", "version"}
  /\ \A i, j : Making(i) /\ Making(j) /\ Program[i].on = Program[j].on => i = j
  /\ \A v \in 1 .. 6 : \E i \in DOMAIN Program :
        Program[i].kind = "version" /\ Program[i].step = v
  /\ \A i \in DOMAIN Program : Program[i].kind = "add" =>
        /\ i - 1 \in DOMAIN Program /\ Program[i - 1].kind = "look"
        /\ Program[i - 1].step = Program[i].step /\ Program[i - 1].on = Program[i].on
  /\ \A i \in DOMAIN Program : Program[i].kind = "commit" => Program[i].step <= 5
  /\ \A i : Altering(i) => Making(i)
  /\ \A i : Making(i) <=> i \in DOMAIN Program /\ Program[i].kind \in {"create", "alter", "add"}
<1>1. Len(Program) \in Nat /\ DOMAIN Program = 1 .. Len(Program) /\ SCHEMA_VERSION = 6
  BY ProgramAssumption DEF Opening!ProgramOK, SCHEMA_VERSION
<1>2. \A i \in DOMAIN Program : i \in Nat /\ Program[i].step \in 1 .. 6
  BY <1>1, ProgramAssumption DEF Opening!ProgramOK
<1>3. \A i, j \in DOMAIN Program : i < j =>
        /\ Program[i].step <= Program[j].step
        /\ Program[i].kind = "version" => Program[i].step < Program[j].step
        /\ Program[i].kind = "alter" /\ Program[i].step = Program[j].step =>
              Program[j].kind \in {"alter", "version"}
        /\ Opening!Makes(Program[i]) /\ Opening!Makes(Program[j]) => Program[i].on # Program[j].on
  BY ProgramAssumption DEF Opening!ProgramOK
<1>4. \A i, j : Making(i) /\ Making(j) /\ Program[i].on = Program[j].on => i = j
  <2> SUFFICES ASSUME NEW i, NEW j, Making(i), Making(j), Program[i].on = Program[j].on, i # j
               PROVE  FALSE
    OBVIOUS
  <2>1. i < j \/ j < i
    BY <1>2 DEF Making
  <2> QED
    BY <1>3, <2>1 DEF Making
<1>5. \A v \in 1 .. 6 : \E i \in DOMAIN Program :
        Program[i].kind = "version" /\ Program[i].step = v
  BY <1>1, ProgramAssumption DEF Opening!ProgramOK
<1>6. /\ \A i \in DOMAIN Program : Program[i].kind = "add" =>
            /\ i - 1 \in DOMAIN Program /\ Program[i - 1].kind = "look"
            /\ Program[i - 1].step = Program[i].step /\ Program[i - 1].on = Program[i].on
      /\ \A i \in DOMAIN Program : Program[i].kind = "commit" => Program[i].step <= 5
  BY ProgramAssumption DEF Opening!ProgramOK
<1>7. /\ \A i : Altering(i) => Making(i)
      /\ \A i : Making(i) <=> i \in DOMAIN Program /\ Program[i].kind \in {"create", "alter", "add"}
  BY DEF Altering, Making, Opening!Makes
<1> QED
  BY <1>1, <1>2, <1>3, <1>4, <1>5, <1>6, <1>7

\* The part of it that most steps need.
LEMMA Positions ==
  /\ \A i \in DOMAIN Program : i \in Nat /\ Program[i].step \in 1 .. 6
  /\ 0 .. Len(Program) + 1 \subseteq Nat
  BY Statements

\* What a version has.
LEMMA ObjectsAre ==
  /\ \A v, x : x \in Opening!Objects(v) <=>
                 \E i : Making(i) /\ Program[i].step <= v /\ Program[i].on = x
  /\ \A v : Opening!Database(v).schema = Opening!Objects(v)
  /\ \A v : Opening!Database(v).versions = 1 .. v
  /\ \A v \in 0 .. 6 : Opening!Database(v) \in Db /\ Consistent(Opening!Database(v))
<1>1. \A v, x : x \in Opening!Objects(v) <=>
                  \E i : Making(i) /\ Program[i].step <= v /\ Program[i].on = x
  BY DEF Opening!Objects, Making
<1>2. /\ \A v : Opening!Database(v).schema = Opening!Objects(v)
      /\ \A v : Opening!Database(v).versions = 1 .. v
  BY DEF Opening!Database
<1>3. ASSUME NEW v \in 0 .. 6, NEW w \in 0 .. v
      PROVE  Opening!Objects(w) \subseteq Opening!Objects(v)
  <2> SUFFICES ASSUME NEW x \in Opening!Objects(w) PROVE x \in Opening!Objects(v)
    OBVIOUS
  <2>1. PICK i : Making(i) /\ Program[i].step <= w /\ Program[i].on = x
    BY <1>1
  <2>2. Program[i].step \in 1 .. 6
    BY <2>1, Statements DEF Making
  <2>3. Program[i].step <= v
    BY <2>1, <2>2
  <2> QED
    BY <1>1, <2>1, <2>3
<1>4. ASSUME NEW v \in 0 .. 6
      PROVE  Opening!Database(v) \in Db /\ Consistent(Opening!Database(v))
  <2>1. Opening!Objects(v) \subseteq Opening!Objects(6) /\ 1 .. v \subseteq 1 .. 6
    BY <1>3
  <2>2. \A w \in 1 .. v : Opening!Objects(w) \subseteq Opening!Objects(v) /\ 1 .. w \subseteq 1 .. v
    BY <1>3
  <2>3. SCHEMA_VERSION = 6
    BY Statements
  <2>4. Opening!Database(v) \in Db
    BY <2>1, <2>3 DEF Db, Opening!Database
  <2> QED
    BY <1>2, <2>2, <2>4 DEF Consistent
<1> QED
  BY <1>1, <1>2, <1>4

\* The newest version recorded; where the migration resumes.
LEMMA ResumesAt ==
  ASSUME NEW d \in Db, Consistent(d)
  PROVE  LET n == Opening!Resume(Opening!Current(d.versions)) IN
         /\ n \in 1 .. Len(Program) + 1
         /\ \A i \in DOMAIN Program : i < n <=> Program[i].step \in d.versions
<1> DEFINE V == d.versions   v == Opening!Current(V)
<1>1. V \subseteq 1 .. 6 /\ \A w \in V : 1 .. w \subseteq V
  BY Statements DEF Db, Consistent
<1>2. v \in 0 .. 6 /\ V = 1 .. v
  <2>1. CASE V = {}
    BY <2>1 DEF Opening!Current
  <2>2. CASE V # {}
    <3>1. \E m \in V : \A w \in V : m >= w
      <4>1. CASE 6 \in V
        BY <1>1, <4>1
      <4>2. CASE 6 \notin V /\ 5 \in V
        BY <1>1, <4>2
      <4>3. CASE 6 \notin V /\ 5 \notin V /\ 4 \in V
        BY <1>1, <4>3
      <4>4. CASE 6 \notin V /\ 5 \notin V /\ 4 \notin V /\ 3 \in V
        BY <1>1, <4>4
      <4>5. CASE 6 \notin V /\ 5 \notin V /\ 4 \notin V /\ 3 \notin V
        <5>1. \A w \in V : w = 1 \/ w = 2
          BY <1>1, <4>5
        <5> QED
          BY <2>2, <5>1
      <4> QED
        BY <4>1, <4>2, <4>3, <4>4, <4>5
    <3>2. v = CHOOSE m \in V : \A w \in V : m >= w
      BY <2>2 DEF Opening!Current, Opening!Max
    <3>3. v \in V /\ \A w \in V : v >= w
      BY <3>1, <3>2
    <3>4. 1 .. v \subseteq V /\ v \in 1 .. 6
      BY <1>1, <3>3
    <3>5. V \subseteq 1 .. v
      BY <1>1, <3>3, <3>4
    <3> HIDE DEF v, V
    <3>6. V = 1 .. v
      BY <3>4, <3>5
    <3> QED
      BY <3>4, <3>6
  <2> QED
    BY <2>1, <2>2
<1> HIDE DEF v, V
<1>3. \E k \in 0 .. Len(Program) : \A i \in DOMAIN Program : Program[i].step <= v <=> i <= k
  <2>1. CASE v = 0
    <3>1. ASSUME NEW i \in DOMAIN Program PROVE Program[i].step <= v <=> i <= 0
      <4>1. i \in 1 .. Len(Program) /\ Len(Program) \in Nat
        BY Statements
      <4>2. Program[i].step \in 1 .. 6
        BY Statements
      <4> QED
        BY <2>1, <4>1, <4>2
    <3>2. 0 \in 0 .. Len(Program)
      BY Statements
    <3> QED
      BY <3>1, <3>2
  <2>2. CASE v # 0
    <3>1. PICK k \in DOMAIN Program : Program[k].kind = "version" /\ Program[k].step = v
      BY <1>2, <2>2, Statements
    <3>2. \A i \in DOMAIN Program : Program[i].step <= v <=> i <= k
      <4> SUFFICES ASSUME NEW i \in DOMAIN Program PROVE Program[i].step <= v <=> i <= k
        OBVIOUS
      <4>1. Program[i].step \in 1 .. 6 /\ i \in Nat /\ k \in Nat
        BY Statements
      <4>2. /\ i < k => Program[i].step <= Program[k].step
            /\ k < i => Program[k].step < Program[i].step
        BY <3>1, Statements
      <4> QED
        BY <1>2, <3>1, <4>1, <4>2
    <3>3. k \in 0 .. Len(Program)
      BY Statements
    <3> QED
      BY <3>2, <3>3
  <2> QED
    BY <2>1, <2>2
<1>4. PICK k \in 0 .. Len(Program) : \A i \in DOMAIN Program : Program[i].step <= v <=> i <= k
  BY <1>3
<1>5. Cardinality(1 .. k) = k
  BY <1>4, FS_Interval, Statements
<1>6. Opening!Resume(v) = k + 1
  <2> DEFINE S == {i \in DOMAIN Program : Program[i].step <= v}
  <2>1. Opening!Cardinality(S) = Cardinality(S)
    BY DEF Opening!Cardinality, Cardinality
  <2>2. Len(Program) \in Nat /\ DOMAIN Program = 1 .. Len(Program)
    BY Statements
  <2>3. S = 1 .. k
    BY <1>4, <2>2
  <2> QED
    BY <1>5, <2>1, <2>3 DEF Opening!Resume
<1>7. \A i \in DOMAIN Program : i <= k <=> Program[i].step \in V
  <2> SUFFICES ASSUME NEW i \in DOMAIN Program PROVE i <= k <=> Program[i].step \in V
    OBVIOUS
  <2>1. Program[i].step \in 1 .. 6
    BY Statements
  <2>2. Program[i].step <= v <=> i <= k
    BY <1>4
  <2>3. Program[i].step <= v <=> Program[i].step \in V
    BY <1>2, <2>1
  <2> QED
    BY <2>2, <2>3
<1> QED
  BY <1>4, <1>6, <1>7, Statements DEF v, V

-----------------------------------------------------------------------------
(* A step of the migration.                                                *)

\* p becomes n and the database e; who writes to it publishes it.
Moves(p, n, e) ==
    /\ s1' = s1 /\ s2' = s2 /\ s3' = e
    /\ \/ e = s3 /\ s4' = [s4 EXCEPT ![p] = n]
       \/ Opening!Free(p) /\ s4' = Opening!Published(p, n)

\* The connection of another process, as far as the invariant compares it.
Same(c, x) ==
    /\ x.status = c.status /\ x.pc = c.pc /\ x.txn = c.txn /\ x.wrote = c.wrote
    /\ x.saw = c.saw /\ x.view = c.view

\* A connection that writes nothing keeps its promise when the database grows.
LEMMA Grown ==
  ASSUME NEW d \in Db, NEW e \in Db, Sub(d, e), Consistent(e),
         NEW c, ConnOK(c, d), ~ c.wrote, NEW x, x = [c EXCEPT !.stale = @ \/ c.txn]
  PROVE  ConnOK(x, e) /\ Same(c, x)
<1>1. c \in Conn
  BY DEF ConnOK
<1>2. Same(c, x) /\ x.stale = (c.stale \/ c.txn) /\ x \in Conn
  BY <1>1 DEF Conn, Same
<1>3. CASE c.txn
  <2>1. SeenBy(x, e) = SeenBy(c, d)
    BY <1>2, <1>3 DEF SeenBy, Same
  <2>2. ViewOK(x, e)
    BY <1>2, <1>3 DEF ConnOK, ViewOK, Same, Sub, NewTo
  <2> QED
    BY <1>2, <1>3, <2>1, <2>2 DEF ConnOK, Same
<1>4. CASE ~ c.txn
  <2>1. SeenBy(x, e) = e /\ SeenBy(c, d) = d
    BY <1>2, <1>4 DEF SeenBy, Same
  <2>2. c.status = "migrating" =>
          /\ DoneTo(x.pc, e)
          /\ x.pc \in DOMAIN Program /\ Program[x.pc].kind = "add" /\ x.saw =>
                Program[x.pc].on \in e.schema
    BY <1>2, <2>1 DEF ConnOK, Same, DoneTo, Sub
  <2>3. c.status = "ready" => e = Opening!Database(SCHEMA_VERSION)
    <3> SUFFICES ASSUME c.status = "ready" PROVE e = Opening!Database(SCHEMA_VERSION)
      OBVIOUS
    <3>1. d = Opening!Database(SCHEMA_VERSION)
      BY DEF ConnOK
    <3>2. e.schema = Opening!Objects(SCHEMA_VERSION) /\ e.versions = 1 .. SCHEMA_VERSION
      BY <3>1, ObjectsAre DEF Db, Sub
    <3>3. e = [schema |-> e.schema, versions |-> e.versions]
      BY DEF Db
    <3> QED
      BY <3>2, <3>3 DEF Opening!Database
  <2> QED
    BY <1>2, <1>4, <2>1, <2>2, <2>3 DEF ConnOK, Same
<1> QED
  BY <1>3, <1>4

\* The connections after a step.
LEMMA Others ==
  ASSUME MigrationTypes, NEW p \in Processes, NEW n, NEW e \in Db, Moves(p, n, e),
         Sub(s3, e), Consistent(e), ConnOK(n, e), s5' \in 0 .. MaxStops,
         p \in s1
  PROVE  /\ MigrationTypes' /\ s4'[p] = n
         /\ \A q \in Processes : q # p => Same(s4[q], s4'[q])
         /\ IsAlone => \A q \in Processes : q # p => s4'[q] = s4[q]
<1>1. n \in Conn /\ s4 \in [Processes -> Conn] /\ \A q \in Processes : ConnOK(s4[q], s3)
  BY DEF ConnOK, MigrationTypes
<1>2. s3 \in Db
  BY DEF MigrationTypes
<1>3. CASE e = s3 /\ s4' = [s4 EXCEPT ![p] = n]
  <2>1. s4' \in [Processes -> Conn] /\ s4'[p] = n /\ \A q \in Processes : q # p => s4'[q] = s4[q]
    BY <1>1, <1>3
  <2>2. \A q \in Processes : ConnOK(s4'[q], s3')
    BY <1>1, <1>3, <2>1 DEF Moves
  <2> QED
    BY <2>1, <2>2, <1>3 DEF MigrationTypes, Moves, Same, Sub
<1>4. CASE Opening!Free(p) /\ s4' = Opening!Published(p, n)
  <2>1. ASSUME NEW q \in Processes, q # p
        PROVE  s4'[q] = [s4[q] EXCEPT !.stale = @ \/ s4[q].txn] /\ ~ s4[q].wrote
    BY <1>1, <1>4, <2>1 DEF Opening!Published, Opening!Free, Opening!Writer, ConnOK
  <2>2. s4'[p] = n /\ DOMAIN s4' = Processes
    BY <1>4 DEF Opening!Published
  <2>3. ASSUME NEW q \in Processes, q # p PROVE ConnOK(s4'[q], e) /\ Same(s4[q], s4'[q])
    BY <1>1, <1>2, <2>1, <2>3, Grown
  <2>4. \A q \in Processes : ConnOK(s4'[q], s3') /\ s4'[q] \in Conn
    BY <2>2, <2>3 DEF Moves, ConnOK
  <2>5. s4' \in [Processes -> Conn]
    BY <1>4, <2>4 DEF Opening!Published
  <2>6. \A q \in Processes : q \notin s1 => s4'[q].status = "down"
    BY <2>2, <2>3 DEF MigrationTypes, Same
  <2>7. ASSUME IsAlone, NEW q \in Processes, q # p PROVE s4'[q] = s4[q]
    <3>1. q \notin s1
      BY <2>7 DEF IsAlone
    <3>2. ~ s4[q].txn /\ s4[q] \in Conn
      BY <1>1, <3>1 DEF MigrationTypes, ConnOK
    <3>3. s4'[q] = [s4[q] EXCEPT !.stale = @ \/ s4[q].txn]
      BY <2>1, <2>7
    <3> HIDE <2>1, <2>7
    <3> QED
      BY <3>2, <3>3 DEF Conn
  <2>8. s3' = e /\ s1' = s1 /\ s2' = s2
    BY DEF Moves
  <2>9. 1 .. s2 \subseteq e.versions
    BY DEF MigrationTypes, Sub
  <2>10. MigrationTypes'
    BY <2>4, <2>5, <2>6, <2>8, <2>9 DEF MigrationTypes
  <2> QED
    BY <2>2, <2>3, <2>7, <2>10
<1> QED
  BY <1>3, <1>4 DEF Moves
\* p may write: it has begun to, or its snapshot is the newest and nobody else writes.
CanWrite(p) == IF s4[p].txn THEN s4[p].wrote \/ (~ s4[p].stale /\ Opening!Free(p))
               ELSE Opening!Free(p)

\* Who may write sees all that the others and the database have.
LEMMA Newest ==
  ASSUME MigrationTypes, OneWriter, NEW p \in Processes, s4[p].status = "migrating", CanWrite(p)
  PROVE  /\ Opening!Free(p) /\ Sub(s3, SeenBy(s4[p], s3))
         /\ \A q \in Processes : q # p /\ s4[q].status = "migrating" =>
               Sub(SeenBy(s4[q], s3), SeenBy(s4[p], s3))
<1>1. \A q \in Processes : ConnOK(s4[q], s3)
  BY DEF MigrationTypes
<1>2. Opening!Free(p)
  BY <1>1 DEF CanWrite, OneWriter, Opening!Free, Opening!Writer
<1>3. Sub(s3, SeenBy(s4[p], s3))
  BY <1>1 DEF CanWrite, SeenBy, ConnOK, ViewOK, Sub
<1>4. ASSUME NEW q \in Processes, q # p, s4[q].status = "migrating"
      PROVE  Sub(SeenBy(s4[q], s3), s3)
  <2>1. ~ (s4[q].txn /\ s4[q].wrote)
    BY <1>2, <1>4 DEF Opening!Free, Opening!Writer
  <2> QED
    BY <1>1, <2>1 DEF SeenBy, ConnOK, ViewOK, Sub
<1> QED
  BY <1>2, <1>3, <1>4 DEF Sub

\* The statements of a step are together.
LEMMA StepTogether ==
  ASSUME NEW i \in DOMAIN Program, NEW j \in Nat, NEW k \in DOMAIN Program,
         i < j, j <= k, Program[i].step = Program[k].step
  PROVE  j \in DOMAIN Program /\ Program[j].step = Program[i].step
<1>1. i \in 1 .. Len(Program) /\ k \in 1 .. Len(Program) /\ Len(Program) \in Nat
  BY Statements
<1>2. j \in DOMAIN Program
  BY <1>1, Statements
<1>3. /\ Program[i].step <= Program[j].step /\ (j < k => Program[j].step <= Program[k].step)
      /\ Program[i].step \in 1 .. 6 /\ Program[j].step \in 1 .. 6
  BY <1>2, Statements
<1>4. j < k \/ j = k
  BY <1>1
<1> QED
  BY <1>2, <1>3, <1>4

\* What holds of pairs of processes is kept when p passes only an ALTER it does, or
\* versions that are there, and records only what it has passed.
LEMMA PairsKeep ==
  ASSUME MigrationTypes, OneWriter, OneInStep,
         NEW p \in Processes, NEW n, NEW e \in Db, Moves(p, n, e), Sub(s3, e),
         ConnOK(n, e), s4'[p] = n, \A q \in Processes : q # p => Same(s4[q], s4'[q]),
         n.wrote => s4[p].wrote \/ Opening!Free(p),
         \A i : Altering(i) /\ n.status = "migrating" /\ i < n.pc =>
            \/ s4[p].status = "migrating" /\ i < s4[p].pc /\ s4[p].pc <= n.pc
            \/ /\ s4[p].status = "migrating" /\ i = s4[p].pc /\ CanWrite(p)
               /\ Program[i].on \notin SeenBy(s4[p], s3).schema
            \/ Program[i].step \in s3.versions,
         \A i : Altering(i) /\ Program[i].step \in e.versions /\ Program[i].step \notin s3.versions
                => s4[p].status = "migrating" /\ i < s4[p].pc,
         \A i : InStep(n, i) => /\ Program[i].step \notin e.versions
                                /\ Program[i].step \notin SeenBy(n, e).versions
  PROVE  OneWriter' /\ OneInStep'
<1>1. \A q \in Processes : ConnOK(s4[q], s3) /\ s4[q] \in Conn
  BY DEF MigrationTypes, ConnOK
<1>2. OneWriter'
  BY <1>1 DEF OneWriter, Same, Opening!Free, Opening!Writer, ConnOK
<1>3. s3' = e
  BY DEF Moves
<1>4. ASSUME NEW i \in DOMAIN Program, InStep(n, i), NEW q \in Processes, q # p,
             s4[q].status = "migrating"
      PROVE  s4[q].pc <= i
  <2>1. Altering(i) /\ n.status = "migrating" /\ i < n.pc /\ n.pc \in DOMAIN Program
        /\ Program[n.pc].step = Program[i].step
    BY <1>4 DEF InStep
  <2>2. CASE s4[p].status = "migrating" /\ i < s4[p].pc /\ s4[p].pc <= n.pc
    <3>1. s4[p].pc \in Nat
      BY <1>1, Statements DEF Conn
    <3>2. InStep(s4[p], i)
      BY <2>1, <2>2, <3>1, StepTogether DEF InStep
    <3> QED
      BY <1>4, <3>2 DEF OneInStep
  <2>3. CASE /\ s4[p].status = "migrating" /\ i = s4[p].pc /\ CanWrite(p)
             /\ Program[i].on \notin SeenBy(s4[p], s3).schema
    <3>1. Sub(SeenBy(s4[q], s3), SeenBy(s4[p], s3))
      BY <1>4, <2>3, Newest
    <3>2. Program[i].on \notin SeenBy(s4[q], s3).schema
      BY <2>3, <3>1 DEF Sub
    <3>3. DoneTo(s4[q].pc, SeenBy(s4[q], s3)) /\ Making(i)
      BY <1>1, <1>4, <2>1, Statements DEF ConnOK
    <3>4. ~ (i < s4[q].pc)
      BY <3>2, <3>3 DEF DoneTo
    <3>5. s4[q].pc \in Nat /\ i \in Nat
      BY <1>1, Statements DEF Conn
    <3> QED
      BY <3>4, <3>5
  <2>4. CASE Program[i].step \in s3.versions
    BY <1>4, <2>4 DEF Sub
  <2> QED
    BY <2>1, <2>2, <2>3, <2>4
<1>5. ASSUME NEW i \in DOMAIN Program, NEW q \in Processes, q # p, InStep(s4[q], i)
      PROVE  /\ n.status = "migrating" => n.pc <= i
             /\ Program[i].step \notin e.versions
             /\ Program[i].step \notin SeenBy(s4'[q], e).versions
  <2>1. /\ s4[p].status = "migrating" => s4[p].pc <= i
        /\ Program[i].step \notin s3.versions
        /\ Program[i].step \notin SeenBy(s4[q], s3).versions
    BY <1>5 DEF OneInStep
  <2>2. Altering(i) /\ s4[q].status = "migrating" /\ i < s4[q].pc
    BY <1>5 DEF InStep
  <2>3. s4[p].pc \in Nat /\ i \in Nat /\ n.pc \in Nat
    BY <1>1, Positions DEF Conn, ConnOK
  <2>4. Program[i].step \notin e.versions
    BY <2>1, <2>2, <2>3
  <2>5. ASSUME n.status = "migrating", i < n.pc PROVE FALSE
    <3>1. /\ s4[p].status = "migrating" /\ i = s4[p].pc /\ CanWrite(p)
          /\ Program[i].on \notin SeenBy(s4[p], s3).schema
      BY <2>1, <2>2, <2>3, <2>5
    <3>2. Sub(SeenBy(s4[q], s3), SeenBy(s4[p], s3))
      BY <1>5, <2>2, <3>1, Newest
    <3>3. DoneTo(s4[q].pc, SeenBy(s4[q], s3)) /\ Making(i)
      BY <1>1, <2>2, Statements DEF ConnOK
    <3>4. Program[i].on \in SeenBy(s4[q], s3).schema
      BY <2>2, <3>3 DEF DoneTo
    <3> QED
      BY <3>1, <3>2, <3>4 DEF Sub
  <2>6. Program[i].step \notin SeenBy(s4'[q], e).versions
    BY <1>5, <2>1, <2>4 DEF SeenBy, Same
  <2> QED
    BY <2>3, <2>4, <2>5, <2>6
<1>6. \A q \in Processes : q # p => /\ \A i : InStep(s4'[q], i) <=> InStep(s4[q], i)
                                    /\ s4'[q].status = s4[q].status /\ s4'[q].pc = s4[q].pc
  BY DEF InStep, Same
<1>7. ASSUME NEW q \in Processes, NEW i \in DOMAIN Program, InStep(s4'[q], i)
      PROVE  /\ \A r \in Processes : r # q /\ s4'[r].status = "migrating" => s4'[r].pc <= i
             /\ Program[i].step \notin e.versions
             /\ Program[i].step \notin SeenBy(s4'[q], e).versions
  <2>1. CASE q = p
    BY <1>4, <1>6, <1>7, <2>1
  <2>2. CASE q # p
    <3>1. InStep(s4[q], i)
      BY <1>6, <1>7, <2>2
    <3>2. \A r \in Processes : r # q /\ s4[r].status = "migrating" => s4[r].pc <= i
      BY <3>1 DEF OneInStep
    <3> QED
      BY <1>5, <1>6, <2>2, <3>1, <3>2
  <2> QED
    BY <2>1, <2>2
<1>8. OneInStep'
  BY <1>3, <1>7 DEF OneInStep
<1> QED
  BY <1>2, <1>8
\* What a step owes: p, which was started, becomes n and the database e.
LEMMA StepKeeps ==
  ASSUME MigrationInv, NEW p \in Processes, p \in s1, NEW n, NEW e \in Db, Moves(p, n, e),
         Sub(s3, e), Consistent(e), ConnOK(n, e), s5' \in 0 .. MaxStops,
         n.wrote => s4[p].wrote \/ Opening!Free(p),
         \A i : Altering(i) /\ n.status = "migrating" /\ i < n.pc =>
            \/ s4[p].status = "migrating" /\ i < s4[p].pc /\ s4[p].pc <= n.pc
            \/ /\ s4[p].status = "migrating" /\ i = s4[p].pc /\ CanWrite(p)
               /\ Program[i].on \notin SeenBy(s4[p], s3).schema
            \/ Program[i].step \in s3.versions,
         \A i : Altering(i) /\ Program[i].step \in e.versions /\ Program[i].step \notin s3.versions
                => s4[p].status = "migrating" /\ i < s4[p].pc,
         \A i : InStep(n, i) => /\ Program[i].step \notin e.versions
                                /\ Program[i].step \notin SeenBy(n, e).versions,
         s5' = 0 => /\ s5 = 0
                    /\ \A i : TornBy(e, i) /\ ~ TornBy(s3, i) => ~ n.txn /\ InStep(n, i)
                    /\ \A i : TornBy(e, i) /\ ~ s4[p].txn /\ InStep(s4[p], i)
                              => ~ n.txn /\ InStep(n, i),
         s2 >= 5 => /\ \A i : ~ TornBy(e, i)
                    /\ n.status = "migrating" =>
                          /\ n.txn
                          /\ \A i \in DOMAIN Program : Program[i].kind = "commit" => i < n.pc,
         IsAlone => AloneOK(n, e)
  PROVE  MigrationInv'
<1>1. /\ MigrationTypes' /\ s4'[p] = n
      /\ \A q \in Processes : q # p => Same(s4[q], s4'[q])
      /\ IsAlone => \A q \in Processes : q # p => s4'[q] = s4[q]
  BY Others DEF MigrationInv
<1>2. OneWriter' /\ OneInStep'
  BY <1>1, PairsKeep DEF MigrationInv
<1>3. s1' = s1 /\ s2' = s2 /\ s3' = e
  BY DEF Moves
<1>4. Owned'
  <2> SUFFICES ASSUME s5' = 0, NEW i, TornBy(e, i)
               PROVE  \E q \in Processes : ~ s4'[q].txn /\ InStep(s4'[q], i)
    BY <1>3 DEF Owned
  <2>1. CASE ~ TornBy(s3, i)
    BY <1>1, <2>1
  <2>2. CASE TornBy(s3, i)
    <3>1. PICK q \in Processes : ~ s4[q].txn /\ InStep(s4[q], i)
      BY <2>2 DEF MigrationInv, Owned
    <3>2. CASE q = p
      BY <1>1, <3>1, <3>2
    <3>3. CASE q # p
      BY <1>1, <3>1, <3>3 DEF Same, InStep
    <3> QED
      BY <3>2, <3>3
  <2> QED
    BY <2>1, <2>2
<1>5. Newer'
  <2> SUFFICES ASSUME s2 >= 5
               PROVE  /\ \A i : ~ TornBy(e, i)
                      /\ \A q \in Processes : s4'[q].status = "migrating" =>
                            /\ s4'[q].txn
                            /\ \A i \in DOMAIN Program :
                                  Program[i].kind = "commit" => i < s4'[q].pc
    BY <1>3 DEF Newer
  <2> QED
    BY <1>1 DEF MigrationInv, Newer, Same
<1>6. Lonely'
  <2> SUFFICES ASSUME IsAlone, NEW q \in Processes PROVE AloneOK(s4'[q], e)
    BY <1>3 DEF Lonely, IsAlone
  <2>1. CASE q = p
    BY <1>1, <2>1
  <2>2. CASE q # p
    <3>1. q \notin s1
      BY <2>2 DEF IsAlone
    <3>2. s4'[q].status = "down"
      BY <1>1, <1>3, <3>1 DEF MigrationTypes
    <3> QED
      BY <3>2 DEF AloneOK
  <2> QED
    BY <2>1, <2>2
<1> QED
  BY <1>1, <1>2, <1>4, <1>5, <1>6 DEF MigrationInv

\* What a statement makes of a database.
Made(d, i) ==
    [schema   |-> IF Making(i) THEN d.schema \cup {Program[i].on} ELSE d.schema,
     versions |-> IF Program[i].kind = "version" THEN d.versions \cup {Program[i].step}
                  ELSE d.versions]

LEMMA Advances ==
  ASSUME NEW d \in Db, Consistent(d), NEW i \in DOMAIN Program, DoneTo(i, d)
  PROVE  LET to == Made(d, i) IN
         /\ to \in Db /\ Consistent(to) /\ DoneTo(i + 1, to) /\ Sub(d, to)
         /\ Behind(i, d) => Behind(i + 1, to)
         /\ \A j : Making(j) /\ Program[j].on \in to.schema /\ Program[j].on \notin d.schema
                   => j = i /\ Making(i)
         /\ \A v \in to.versions : v \notin d.versions
                   => v = Program[i].step /\ Program[i].kind = "version"
         /\ Program[i].kind = "version" => Program[i].step \in to.versions
         /\ Program[i].kind # "version" => to.versions = d.versions
<1> DEFINE to == Made(d, i)
<1>1. /\ to.schema = IF Making(i) THEN d.schema \cup {Program[i].on} ELSE d.schema
      /\ to.versions = IF Program[i].kind = "version" THEN d.versions \cup {Program[i].step}
                       ELSE d.versions
      /\ to = [schema |-> to.schema, versions |-> to.versions]
  BY DEF Made
<1> HIDE DEF to
<1>2. i \in Nat /\ Program[i].step \in 1 .. 6 /\ SCHEMA_VERSION = 6
  BY Statements
<1>3. to \in Db
  <2>1. Making(i) => Program[i].on \in Opening!Objects(SCHEMA_VERSION)
    BY <1>2, ObjectsAre
  <2>2. to.schema \in SUBSET Opening!Objects(SCHEMA_VERSION)
    BY <1>1, <2>1 DEF Db
  <2>3. to.versions \in SUBSET (1 .. SCHEMA_VERSION)
    BY <1>1, <1>2 DEF Db
  <2> QED
    BY <1>1, <2>2, <2>3 DEF Db
<1>4. Sub(d, to)
  BY <1>1 DEF Sub
<1>5. ASSUME Program[i].kind = "version"
      PROVE  /\ Opening!Objects(Program[i].step) \subseteq d.schema
             /\ \A w \in 1 .. Program[i].step : w = Program[i].step \/ w \in d.versions
  <2>1. \A j \in DOMAIN Program : Program[j].step <= Program[i].step => j <= i
    <3> SUFFICES ASSUME NEW j \in DOMAIN Program, Program[j].step <= Program[i].step, i < j
                 PROVE  FALSE
      BY Statements
    <3>1. Program[i].step < Program[j].step /\ Program[j].step \in 1 .. 6
      BY <1>5, Statements
    <3> QED
      BY <1>2, <3>1
  <2>2. ASSUME NEW x \in Opening!Objects(Program[i].step) PROVE x \in d.schema
    <3>1. PICK j : Making(j) /\ Program[j].step <= Program[i].step /\ Program[j].on = x
      BY ObjectsAre
    <3>2. j # i /\ j \in DOMAIN Program /\ j \in Nat
      BY <1>5, <3>1, Statements DEF Making
    <3>3. j < i
      BY <1>2, <2>1, <3>1, <3>2
    <3> QED
      BY <3>1, <3>2, <3>3 DEF DoneTo
  <2>3. ASSUME NEW w \in 1 .. Program[i].step, w # Program[i].step PROVE w \in d.versions
    <3>1. w \in 1 .. 6
      BY <1>2
    <3>2. PICK j \in DOMAIN Program : Program[j].kind = "version" /\ Program[j].step = w
      BY <3>1, Statements
    <3>3. j \in Nat /\ j <= i /\ j # i
      BY <1>2, <2>1, <2>3, <3>2, Positions
    <3> QED
      BY <1>2, <3>2, <3>3 DEF DoneTo
  <2> QED
    BY <2>2, <2>3
<1>6. Consistent(to)
  <2> SUFFICES ASSUME NEW v \in to.versions
               PROVE  Opening!Objects(v) \subseteq to.schema /\ 1 .. v \subseteq to.versions
    BY DEF Consistent
  <2>1. CASE v \in d.versions
    BY <1>4, <2>1 DEF Consistent, Sub
  <2>2. CASE v \notin d.versions
    <3>1. v = Program[i].step /\ Program[i].kind = "version"
      BY <1>1, <2>2
    <3> QED
      BY <1>1, <1>4, <1>5, <3>1 DEF Sub
  <2> QED
    BY <2>1, <2>2
<1>7. DoneTo(i + 1, to)
  <2> SUFFICES ASSUME NEW j \in DOMAIN Program, j < i + 1
               PROVE  /\ Making(j) => Program[j].on \in to.schema
                      /\ Program[j].kind = "version" => Program[j].step \in to.versions
    BY DEF DoneTo
  <2>1. j < i \/ j = i
    BY <1>2, Positions
  <2>2. CASE j < i
    BY <1>4, <2>2 DEF DoneTo, Sub
  <2>3. CASE j = i
    BY <1>1, <2>3
  <2> QED
    BY <2>1, <2>2, <2>3
<1>8. Behind(i, d) => Behind(i + 1, to)
  <2> SUFFICES ASSUME Behind(i, d), NEW j \in DOMAIN Program, Program[j].step \in to.versions
               PROVE  j < i + 1
    BY DEF Behind
  <2>1. j \in Nat
    BY Statements
  <2>2. CASE Program[j].step \in d.versions
    BY <1>2, <2>1, <2>2 DEF Behind
  <2>3. CASE Program[j].step = Program[i].step /\ Program[i].kind = "version"
    <3>1. i < j => Program[i].step < Program[j].step
      BY <2>3, Statements
    <3> QED
      BY <1>2, <2>1, <2>3, <3>1
  <2> QED
    BY <1>1, <2>2, <2>3
<1>9. \A j : Making(j) /\ Program[j].on \in to.schema /\ Program[j].on \notin d.schema
              => j = i /\ Making(i)
  <2> SUFFICES ASSUME NEW j, Making(j), Program[j].on \in to.schema, Program[j].on \notin d.schema
               PROVE  j = i /\ Making(i)
    OBVIOUS
  <2>1. Making(i) /\ Program[j].on = Program[i].on
    BY <1>1
  <2>2. \A k, l : Making(k) /\ Making(l) /\ Program[k].on = Program[l].on => k = l
    BY Statements
  <2> QED
    BY <2>1, <2>2
<1> QED
  BY <1>1, <1>3, <1>4, <1>6, <1>7, <1>8, <1>9 DEF to

\* What comes next in the program.
LEMMA StatementAt ==
  ASSUME NEW i \in DOMAIN Program
  PROVE  /\ i + 1 \in DOMAIN Program /\ Program[i + 1].kind = "add" =>
               Program[i].kind = "look" /\ Program[i].on = Program[i + 1].on
         /\ \A j : Altering(j) /\ j < i /\ Program[j].step = Program[i].step =>
               Program[i].kind \in {"alter", "version"}
         /\ \A j \in DOMAIN Program :
               j <= i /\ i + 1 \in DOMAIN Program /\ Program[i + 1].step = Program[j].step =>
                  Program[i].step = Program[j].step /\ Program[i].kind # "version"
         /\ \A j : Altering(j) /\ j <= i /\ Program[j].step = Program[i].step
                      /\ Program[i].kind # "version" =>
               i + 1 \in DOMAIN Program /\ Program[i + 1].step = Program[j].step
         /\ \A j : Altering(j) /\ Program[j].step = Program[i].step
                      /\ Program[i].kind = "version" => j < i
         /\ \A j : Altering(j) /\ j < i /\ Program[i].kind = "commit" =>
               \E k \in DOMAIN Program :
                  k < i /\ Program[k].kind = "version" /\ Program[k].step = Program[j].step
<1>1. i \in Nat /\ Program[i].step \in 1 .. 6 /\ i + 1 \in Nat
  BY Statements
<1>2. ASSUME i + 1 \in DOMAIN Program, Program[i + 1].kind = "add"
      PROVE  Program[i].kind = "look" /\ Program[i].on = Program[i + 1].on
  <2>1. (i + 1) - 1 = i
    BY <1>1
  <2>2. Program[(i + 1) - 1].kind = "look" /\ Program[(i + 1) - 1].on = Program[i + 1].on
    BY <1>2, Statements
  <2> QED
    BY <2>1, <2>2
<1>3. \A j : Altering(j) /\ j < i /\ Program[j].step = Program[i].step =>
         Program[i].kind \in {"alter", "version"}
  BY Statements DEF Altering
<1>4. ASSUME NEW j \in DOMAIN Program, j <= i, i + 1 \in DOMAIN Program,
             Program[i + 1].step = Program[j].step
      PROVE  Program[i].step = Program[j].step /\ Program[i].kind # "version"
  <2>1. j \in Nat /\ Program[j].step \in 1 .. 6 /\ i < i + 1 /\ i <= i + 1
    BY <1>1, Statements
  <2>2. Program[i].step = Program[j].step
    <3>1. CASE j = i
      BY <3>1
    <3>2. CASE j < i
      BY <1>1, <1>4, <2>1, <3>2, StepTogether
    <3> QED
      BY <1>1, <1>4, <2>1, <3>1, <3>2
  <2>3. Program[i].kind = "version" => Program[i].step < Program[i + 1].step
    BY <1>4, <2>1, Statements
  <2> QED
    BY <1>1, <1>4, <2>2, <2>3
<1>5. ASSUME NEW j, Altering(j)
      PROVE  \E k \in DOMAIN Program : /\ Program[k].kind = "version"
                                       /\ Program[k].step = Program[j].step
                                       /\ j < k /\ j \in Nat /\ k \in Nat
  <2>1. j \in DOMAIN Program /\ Program[j].kind = "alter"
    BY <1>5 DEF Altering
  <2>2. j \in Nat /\ Program[j].step \in 1 .. 6
    BY <2>1, Statements
  <2>3. PICK k \in DOMAIN Program : Program[k].kind = "version" /\ Program[k].step = Program[j].step
    BY <2>2, Statements
  <2>4. k \in Nat /\ (k < j => Program[k].step < Program[j].step) /\ k # j
    BY <2>1, <2>3, Statements
  <2> QED
    BY <2>2, <2>3, <2>4
<1>6. ASSUME NEW j, Altering(j), j <= i, Program[j].step = Program[i].step,
             Program[i].kind # "version"
      PROVE  i + 1 \in DOMAIN Program /\ Program[i + 1].step = Program[j].step
  <2>1. PICK k \in DOMAIN Program : /\ Program[k].kind = "version"
                                    /\ Program[k].step = Program[j].step
                                    /\ j < k /\ j \in Nat /\ k \in Nat
    BY <1>5, <1>6
  <2>2. k # i /\ (k < i => Program[k].step < Program[i].step)
    BY <1>6, <2>1, Statements
  <2>3. i + 1 <= k /\ j < i + 1
    BY <1>1, <1>6, <2>1, <2>2
  <2>4. j \in DOMAIN Program
    BY <1>6 DEF Altering
  <2> QED
    BY <1>1, <2>1, <2>3, <2>4, StepTogether
<1>7. ASSUME NEW j, Altering(j), Program[j].step = Program[i].step, Program[i].kind = "version"
      PROVE  j < i
  <2>1. j \in DOMAIN Program /\ j \in Nat /\ j # i
    BY <1>7, Statements DEF Altering
  <2>2. i < j => Program[i].step < Program[j].step
    BY <1>7, <2>1, Statements
  <2> QED
    BY <1>1, <1>7, <2>1, <2>2
<1>8. ASSUME NEW j, Altering(j), j < i, Program[i].kind = "commit"
      PROVE  \E k \in DOMAIN Program :
                k < i /\ Program[k].kind = "version" /\ Program[k].step = Program[j].step
  <2>1. PICK k \in DOMAIN Program : /\ Program[k].kind = "version"
                                    /\ Program[k].step = Program[j].step
                                    /\ j < k /\ j \in Nat /\ k \in Nat
    BY <1>5, <1>8
  <2>2. k # i /\ j \in DOMAIN Program
    BY <1>8, <2>1 DEF Altering
  <2>3. ASSUME i < k PROVE FALSE
    <3>1. Program[i].step = Program[j].step
      BY <1>1, <1>8, <2>1, <2>2, <2>3, StepTogether
    <3> QED
      BY <1>3, <1>8, <3>1
  <2> QED
    BY <1>1, <2>1, <2>2, <2>3
<1> QED
  BY <1>2, <1>3, <1>4, <1>6, <1>7, <1>8

\* p does the statement it is at, in its transaction or on the database, or passes over it.
LEMMA Works ==
  ASSUME MigrationInv, NEW p \in Processes, p \in s1, s4[p].status = "migrating",
         NEW i, i = s4[p].pc, i \in DOMAIN Program, Program[i].kind # "commit",
         NEW S, S = SeenBy(s4[p], s3), NEW to, to = Made(S, i),
         NEW n \in Conn, NEW e, Moves(p, n, e), s5' = s5,
         n.status = "migrating", n.pc = i + 1, n.txn = s4[p].txn, n.stale = s4[p].stale,
         n.txn => e = s3 /\ n.view = to, ~ n.txn => e = to, n.wrote => n.txn,
         \/ n.wrote = s4[p].wrote /\ to = S
         \/ CanWrite(p) /\ n.wrote = n.txn,
         Program[i].kind = "alter" => CanWrite(p) /\ Program[i].on \notin S.schema,
         Program[i].kind = "look" => (n.saw <=> Program[i].on \in S.schema)
  PROVE  MigrationInv'
<1>1. /\ ConnOK(s4[p], s3) /\ s4[p] \in Conn /\ s3 \in Db /\ Consistent(s3)
      /\ s5 \in 0 .. MaxStops
  BY DEF MigrationInv, MigrationTypes
<1>2. S \in Db /\ Consistent(S) /\ DoneTo(i, S)
  BY <1>1 DEF ConnOK, SeenBy, Conn
<1>3. i \in Nat /\ Program[i].step \in 1 .. 6
  BY Statements
<1>4. /\ to \in Db /\ Consistent(to) /\ DoneTo(i + 1, to) /\ Sub(S, to)
      /\ Behind(i, S) => Behind(i + 1, to)
      /\ \A j : Making(j) /\ Program[j].on \in to.schema /\ Program[j].on \notin S.schema
                => j = i /\ Making(i)
      /\ \A v \in to.versions : v \notin S.versions
                => v = Program[i].step /\ Program[i].kind = "version"
      /\ Program[i].kind = "version" => Program[i].step \in to.versions
      /\ Program[i].kind # "version" => to.versions = S.versions
  BY <1>2, Advances
<1>5. SeenBy(n, e) = to /\ (~ n.txn => S = s3)
  BY DEF SeenBy
<1>6. e \in Db /\ Sub(s3, e) /\ Consistent(e)
  BY <1>1, <1>4, <1>5 DEF Sub
<1>7. CanWrite(p) => Opening!Free(p) /\ Sub(s3, S)
  BY Newest DEF MigrationInv
<1>8. n.txn => ViewOK(n, e)
  <2> SUFFICES ASSUME n.txn PROVE ViewOK(n, s3)
    BY <1>5
  <2>1. n.view = to /\ ViewOK(s4[p], s3) /\ S = s4[p].view
    BY <1>1 DEF ConnOK, SeenBy
  <2>2. Behind(n.pc, n.view)
    BY <1>4, <2>1 DEF ViewOK
  <2>3. NewTo(n.pc, n.view, s3)
    <3> SUFFICES ASSUME NEW j, Making(j), Program[j].on \in to.schema, Program[j].on \notin s3.schema
                 PROVE  j < i + 1
      BY <2>1 DEF NewTo
    <3>1. CASE Program[j].on \in S.schema
      <4>1. j < i /\ j \in Nat
        BY <2>1, <3>1, Statements DEF ViewOK, NewTo, Making
      <4> QED
        BY <1>3, <4>1
    <3>2. CASE Program[j].on \notin S.schema
      BY <1>3, <1>4, <3>2
    <3> QED
      BY <3>1, <3>2
  <2>4. CASE n.wrote = s4[p].wrote /\ to = S
    BY <2>1, <2>2, <2>3, <2>4 DEF ViewOK
  <2>5. CASE CanWrite(p) /\ n.wrote = n.txn
    BY <1>4, <1>7, <2>1, <2>2, <2>3, <2>5 DEF ViewOK, Sub
  <2> QED
    BY <2>4, <2>5
<1>9. i + 1 \in DOMAIN Program /\ Program[i + 1].kind = "add" =>
         (n.saw <=> Program[i + 1].on \in to.schema)
  <2> SUFFICES ASSUME i + 1 \in DOMAIN Program, Program[i + 1].kind = "add"
               PROVE  n.saw <=> Program[i + 1].on \in to.schema
    OBVIOUS
  <2>1. Program[i].kind = "look" /\ Program[i].on = Program[i + 1].on
    BY StatementAt
  <2>2. to.schema = S.schema
    BY <2>1 DEF Made, Making, Opening!Makes
  <2> QED
    BY <2>1, <2>2
<1>10. ConnOK(n, e)
  <2>1. i + 1 # 0
    BY <1>3
  <2> QED
    BY <1>4, <1>5, <1>8, <1>9, <2>1 DEF ConnOK
<1>11. n.wrote => s4[p].wrote \/ Opening!Free(p)
  BY <1>7
<1>12. \A j : Altering(j) => j \in DOMAIN Program /\ j \in Nat /\ Program[j].kind = "alter"
                              /\ Making(j)
  BY Statements DEF Altering
<1>13. \A j : Altering(j) /\ n.status = "migrating" /\ j < n.pc =>
            \/ s4[p].status = "migrating" /\ j < s4[p].pc /\ s4[p].pc <= n.pc
            \/ /\ s4[p].status = "migrating" /\ j = s4[p].pc /\ CanWrite(p)
               /\ Program[j].on \notin SeenBy(s4[p], s3).schema
            \/ Program[j].step \in s3.versions
  <2> SUFFICES ASSUME NEW j, Altering(j), j < i + 1
               PROVE  \/ j < i /\ i <= i + 1
                      \/ j = i /\ CanWrite(p) /\ Program[j].on \notin S.schema
    OBVIOUS
  <2>1. j < i \/ j = i
    BY <1>3, <1>12
  <2> QED
    BY <1>3, <1>12, <2>1
<1>14. \A j : Altering(j) /\ Program[j].step \in e.versions /\ Program[j].step \notin s3.versions
                => s4[p].status = "migrating" /\ j < s4[p].pc
  <2> SUFFICES ASSUME NEW j, Altering(j), Program[j].step \in e.versions,
                      Program[j].step \notin s3.versions
               PROVE  j < i
    OBVIOUS
  <2>1. ~ n.txn /\ e = to /\ S = s3
    BY <1>5
  <2>2. Program[j].step = Program[i].step /\ Program[i].kind = "version"
    BY <1>4, <2>1
  <2> QED
    BY <2>2, StatementAt
<1>15. ASSUME NEW j, InStep(n, j)
       PROVE  /\ Altering(j) /\ j <= i /\ Program[i].step = Program[j].step
              /\ Program[i].kind = "alter"
              /\ j = i \/ InStep(s4[p], j)
  <2>1. Altering(j) /\ j < i + 1 /\ i + 1 \in DOMAIN Program
        /\ Program[i + 1].step = Program[j].step
    BY <1>15 DEF InStep
  <2>2. j <= i /\ j \in DOMAIN Program /\ (j = i \/ j < i)
    BY <1>3, <1>12, <2>1
  <2>3. Program[i].step = Program[j].step /\ Program[i].kind # "version"
    BY <2>1, <2>2, StatementAt
  <2>4. j < i => Program[i].kind \in {"alter", "version"}
    BY <2>1, <2>3, StatementAt
  <2>5. Program[i].kind = "alter"
    BY <1>12, <2>1, <2>2, <2>3, <2>4
  <2> QED
    BY <2>1, <2>2, <2>3, <2>5 DEF InStep
<1>16. \A j : InStep(n, j) => /\ Program[j].step \notin e.versions
                              /\ Program[j].step \notin SeenBy(n, e).versions
  <2> SUFFICES ASSUME NEW j, InStep(n, j)
               PROVE  Program[j].step \notin e.versions /\ Program[j].step \notin to.versions
    BY <1>5
  <2>1. /\ Altering(j) /\ Program[i].step = Program[j].step /\ Program[i].kind = "alter"
        /\ j = i \/ InStep(s4[p], j)
    BY <1>15
  <2>2. to.versions = S.versions /\ e.versions = s3.versions
    BY <1>4, <1>5, <2>1
  <2>3. CASE j = i
    <3>1. Making(i)
      BY <1>12, <2>1, <2>3
    <3>2. Program[i].on \in Opening!Objects(Program[i].step)
      BY <1>3, <3>1, ObjectsAre
    <3>3. Program[i].step \notin S.versions
      BY <1>2, <2>1, <3>2 DEF Consistent
    <3> QED
      BY <1>7, <2>1, <2>2, <3>3 DEF Sub
  <2>4. CASE InStep(s4[p], j)
    BY <1>12, <2>1, <2>2, <2>4 DEF MigrationInv, OneInStep
  <2> QED
    BY <2>1, <2>3, <2>4
<1>17. ASSUME NEW j, Altering(j), j <= i, Program[j].step = Program[i].step,
              Program[i].kind = "alter"
       PROVE  InStep(n, j)
  <2>1. i + 1 \in DOMAIN Program /\ Program[i + 1].step = Program[j].step
    BY <1>17, StatementAt
  <2>2. j < i + 1
    BY <1>3, <1>12, <1>17
  <2> QED
    BY <1>17, <2>1, <2>2 DEF InStep
<1>18. ASSUME NEW j, TornBy(e, j), ~ TornBy(s3, j) PROVE ~ n.txn /\ InStep(n, j)
  <2>1. ~ n.txn /\ e = to /\ S = s3 /\ Altering(j)
    BY <1>5, <1>18 DEF TornBy
  <2>2. Program[j].on \in to.schema /\ Program[j].on \notin S.schema
    BY <1>4, <1>18, <2>1 DEF TornBy, Sub
  <2>3. j = i
    BY <1>4, <1>12, <2>1, <2>2
  <2> QED
    BY <1>3, <1>12, <1>17, <2>1, <2>3
<1>19. ASSUME NEW j, TornBy(e, j), ~ s4[p].txn, InStep(s4[p], j) PROVE ~ n.txn /\ InStep(n, j)
  <2>1. Altering(j) /\ j < i /\ Program[i].step = Program[j].step /\ ~ n.txn /\ e = to
    BY <1>19 DEF InStep
  <2>2. Program[i].kind \in {"alter", "version"}
    BY <2>1, StatementAt
  <2>3. Program[i].kind # "version"
    BY <1>4, <1>19, <2>1 DEF TornBy
  <2> QED
    BY <1>3, <1>12, <1>17, <2>1, <2>2, <2>3
<1>20. s2 >= 5 => /\ \A j : ~ TornBy(e, j)
                  /\ n.status = "migrating" =>
                        /\ n.txn
                        /\ \A j \in DOMAIN Program : Program[j].kind = "commit" => j < n.pc
  <2> SUFFICES ASSUME s2 >= 5
               PROVE  /\ \A j : ~ TornBy(e, j)
                      /\ n.txn
                      /\ \A j \in DOMAIN Program : Program[j].kind = "commit" => j < i + 1
    OBVIOUS
  <2>1. /\ \A j : ~ TornBy(s3, j)
        /\ n.txn
        /\ \A j \in DOMAIN Program : Program[j].kind = "commit" => j < i
    BY DEF MigrationInv, Newer
  <2>2. \A j \in DOMAIN Program : j < i => j < i + 1
    BY <1>3, Statements
  <2> QED
    BY <2>1, <2>2
<1>21. IsAlone => AloneOK(n, e)
  <2> SUFFICES ASSUME IsAlone PROVE AloneOK(n, e)
    OBVIOUS
  <2>1. ~ s4[p].stale /\ Behind(i, S)
    BY DEF MigrationInv, Lonely, AloneOK
  <2> QED
    BY <1>4, <1>5, <1>9, <2>1 DEF AloneOK
<1> QED
  BY <1>1, <1>6, <1>10, <1>11, <1>13, <1>14, <1>16, <1>18, <1>19, <1>20, <1>21, StepKeeps

\* p commits before a script.
LEMMA Commits ==
  ASSUME MigrationInv, NEW p \in Processes, p \in s1, s4[p].status = "migrating",
         NEW i, i = s4[p].pc, i \in DOMAIN Program, Program[i].kind = "commit",
         NEW n \in Conn, NEW e, Moves(p, n, e), s5' = s5,
         n.status = "migrating", n.pc = i + 1, ~ n.txn, ~ n.wrote, ~ n.stale,
         \/ s4[p].wrote /\ e = s4[p].view
         \/ ~ s4[p].wrote /\ e = s3
  PROVE  MigrationInv'
<1>1. /\ ConnOK(s4[p], s3) /\ s4[p] \in Conn /\ s3 \in Db /\ Consistent(s3)
      /\ s5 \in 0 .. MaxStops
  BY DEF MigrationInv, MigrationTypes
<1>2. i \in Nat /\ Program[i].step \in 1 .. 6
  BY Statements
<1>3. s4[p].wrote => s4[p].txn /\ ViewOK(s4[p], s3)
  BY <1>1 DEF ConnOK
<1>4. e \in Db /\ Sub(s3, e) /\ Consistent(e) /\ DoneTo(i, e)
  <2>1. CASE s4[p].wrote /\ e = s4[p].view
    BY <1>1, <1>3, <2>1 DEF ConnOK, SeenBy, ViewOK, Conn
  <2>2. CASE ~ s4[p].wrote /\ e = s3
    <3>1. Sub(SeenBy(s4[p], s3), s3)
      BY <1>1, <2>2 DEF ConnOK, SeenBy, ViewOK, Sub
    <3> QED
      BY <1>1, <2>2, <3>1 DEF ConnOK, DoneTo, Sub
  <2> QED
    BY <2>1, <2>2
<1>5. \A j : Altering(j) => j \in DOMAIN Program /\ j \in Nat /\ Program[j].kind = "alter"
  BY Statements DEF Altering
<1>6. DoneTo(i + 1, e)
  <2> SUFFICES ASSUME NEW j \in DOMAIN Program, j < i + 1
               PROVE  /\ Making(j) => Program[j].on \in e.schema
                      /\ Program[j].kind = "version" => Program[j].step \in e.versions
    BY DEF DoneTo
  <2>1. j < i \/ j = i
    BY <1>2, Positions
  <2>2. j = i => ~ Making(j) /\ Program[j].kind # "version"
    BY DEF Making, Opening!Makes
  <2> QED
    BY <1>4, <2>1, <2>2 DEF DoneTo
<1>7. ~ (i + 1 \in DOMAIN Program /\ Program[i + 1].kind = "add")
  BY StatementAt
<1>8. ConnOK(n, e)
  <2>1. i + 1 # 0
    BY <1>2
  <2> QED
    BY <1>4, <1>6, <1>7, <2>1 DEF ConnOK, SeenBy
<1>9. \A j : ~ InStep(n, j) /\ ~ InStep(s4[p], j)
  <2>1. ASSUME NEW j, InStep(s4[p], j) PROVE FALSE
    <3>1. Altering(j) /\ j < i /\ Program[j].step = Program[i].step
      BY <2>1 DEF InStep
    <3> QED
      BY <3>1, StatementAt
  <2>2. ASSUME NEW j, InStep(n, j) PROVE FALSE
    <3>1. Altering(j) /\ j < i + 1 /\ i + 1 \in DOMAIN Program
          /\ Program[i + 1].step = Program[j].step
      BY <2>2 DEF InStep
    <3>2. j <= i /\ j # i /\ j \in DOMAIN Program /\ (j # i => j < i)
      BY <1>2, <1>5, <3>1
    <3>3. Program[i].step = Program[j].step
      BY <3>1, <3>2, StatementAt
    <3> QED
      BY <3>1, <3>2, <3>3, StatementAt
  <2> QED
    BY <2>1, <2>2
<1>10. \A j : Altering(j) /\ n.status = "migrating" /\ j < n.pc =>
            s4[p].status = "migrating" /\ j < s4[p].pc /\ s4[p].pc <= n.pc
  <2> SUFFICES ASSUME NEW j, Altering(j), j < i + 1 PROVE j < i /\ i <= i + 1
    OBVIOUS
  <2> QED
    BY <1>2, <1>5
<1>11. \A j : Altering(j) /\ Program[j].step \in e.versions /\ Program[j].step \notin s3.versions
                => s4[p].status = "migrating" /\ j < s4[p].pc
  BY <1>3, <1>5 DEF ViewOK, Behind
<1>12. \A j : ~ (TornBy(e, j) /\ ~ TornBy(s3, j))
  <2> SUFFICES ASSUME NEW j, TornBy(e, j), ~ TornBy(s3, j) PROVE FALSE
    OBVIOUS
  <2>1. s4[p].wrote /\ e = s4[p].view /\ Altering(j) /\ Making(j)
    BY <1>5, Statements DEF TornBy
  <2>2. Program[j].on \notin s3.schema
    BY <1>4, <2>1 DEF TornBy, Sub
  <2>3. j < i
    BY <1>3, <2>1, <2>2 DEF ViewOK, NewTo, TornBy
  <2>4. PICK k \in DOMAIN Program :
            k < i /\ Program[k].kind = "version" /\ Program[k].step = Program[j].step
    BY <2>1, <2>3, StatementAt
  <2> QED
    BY <1>4, <2>4 DEF DoneTo, TornBy
<1>13. ~ (s2 >= 5)
  <2> SUFFICES ASSUME s2 >= 5 PROVE FALSE
    OBVIOUS
  <2>1. i < i
    BY DEF MigrationInv, Newer
  <2> QED
    BY <1>2, <2>1
<1>14. IsAlone => AloneOK(n, e)
  <2> SUFFICES ASSUME IsAlone PROVE AloneOK(n, e)
    OBVIOUS
  <2>1. ~ s4[p].stale /\ Behind(i, SeenBy(s4[p], s3))
    BY DEF MigrationInv, Lonely, AloneOK
  <2>2. e = SeenBy(s4[p], s3)
    BY <1>1, <1>3, <2>1 DEF SeenBy, ConnOK, ViewOK
  <2>3. Behind(i + 1, e)
    <3>1. \A j \in DOMAIN Program : j < i => j < i + 1
      BY <1>2, Positions
    <3> QED
      BY <2>1, <2>2, <3>1 DEF Behind
  <2> QED
    BY <1>7, <2>3 DEF AloneOK, SeenBy
<1> QED
  BY <1>1, <1>4, <1>8, <1>9, <1>10, <1>11, <1>12, <1>13, <1>14, StepKeeps

\* p has done all statements: the store is at the newest version.
LEMMA Finishes ==
  ASSUME MigrationInv, NEW p \in Processes, p \in s1, s4[p].status = "migrating",
         s4[p].pc > Len(Program), NEW n, n = Opening!Away("ready"), NEW e, Moves(p, n, e),
         s5' = s5,
         \/ s4[p].wrote /\ e = s4[p].view
         \/ ~ s4[p].wrote /\ e = s3
  PROVE  MigrationInv'
<1> DEFINE whole == Opening!Database(SCHEMA_VERSION)
<1>1. /\ ConnOK(s4[p], s3) /\ s4[p] \in Conn /\ s3 \in Db /\ Consistent(s3)
      /\ s5 \in 0 .. MaxStops
  BY DEF MigrationInv, MigrationTypes
<1>2. /\ SCHEMA_VERSION = 6 /\ whole \in Db /\ Consistent(whole)
      /\ whole.schema = Opening!Objects(SCHEMA_VERSION) /\ whole.versions = 1 .. SCHEMA_VERSION
  <2>1. SCHEMA_VERSION = 6
    BY Statements
  <2>2. SCHEMA_VERSION \in 0 .. 6
    BY <2>1
  <2> QED
    BY <2>1, <2>2, ObjectsAre
<1>3. \A i \in DOMAIN Program : i < s4[p].pc
  <2>1. s4[p].pc \in Nat /\ Len(Program) \in Nat /\ DOMAIN Program = 1 .. Len(Program)
    BY <1>1, Statements DEF Conn
  <2> QED
    BY <2>1
<1>4. ASSUME NEW d \in Db, \/ DoneTo(s4[p].pc, d)
                           \/ Sub(whole, d)
      PROVE  d = whole
  <2>1. CASE DoneTo(s4[p].pc, d)
    <3>1. Opening!Objects(SCHEMA_VERSION) \subseteq d.schema
      BY <1>3, <2>1, ObjectsAre DEF DoneTo, Making
    <3>2. 1 .. SCHEMA_VERSION \subseteq d.versions
      <4>1. \A v \in 1 .. 6 : \E i \in DOMAIN Program :
               Program[i].kind = "version" /\ Program[i].step = v
        BY Statements
      <4> QED
        BY <1>2, <1>3, <2>1, <4>1 DEF DoneTo
    <3> QED
      BY <3>1, <3>2 DEF Db, Opening!Database
  <2>2. CASE Sub(whole, d)
    <3>1. Opening!Objects(SCHEMA_VERSION) \subseteq d.schema /\ 1 .. SCHEMA_VERSION \subseteq d.versions
      BY <1>2, <2>2 DEF Sub
    <3> QED
      BY <3>1 DEF Db, Opening!Database
  <2> QED
    BY <1>4, <2>1, <2>2
<1>5. SeenBy(s4[p], s3) = whole
  <2>1. SeenBy(s4[p], s3) \in Db /\ DoneTo(s4[p].pc, SeenBy(s4[p], s3))
    BY <1>1 DEF SeenBy, ConnOK, Conn
  <2> QED
    BY <1>4, <2>1
<1>6. e = whole
  <2>1. CASE s4[p].wrote
    BY <1>1, <1>5, <2>1 DEF ConnOK, SeenBy
  <2>2. CASE ~ s4[p].wrote
    <3>1. Sub(whole, s3)
      BY <1>1, <1>5, <2>2 DEF ConnOK, SeenBy, ViewOK, Sub
    <3> QED
      BY <1>1, <1>4, <2>2, <3>1
  <2> QED
    BY <2>1, <2>2
<1>7. Sub(s3, e)
  BY <1>1, <1>2, <1>6 DEF Db, Sub
<1>8. /\ n.status = "ready" /\ ~ n.txn /\ ~ n.wrote /\ n \in Conn
  <2>1. Opening!Database(0) \in Db /\ 0 \in 0 .. Len(Program) + 1
    BY ObjectsAre, Statements
  <2> QED
    BY <2>1 DEF Opening!Away, Conn
<1>9. ConnOK(n, e)
  BY <1>6, <1>8 DEF ConnOK
<1>10. \A j : ~ InStep(n, j) /\ ~ TornBy(e, j)
  <2>1. \A j : Altering(j) => Program[j].step \in 1 .. 6
    BY Statements DEF Altering
  <2> QED
    BY <1>2, <1>6, <1>8, <2>1 DEF InStep, TornBy
<1>11. \A j : Altering(j) => j < s4[p].pc
  BY <1>3 DEF Altering
<1>12. AloneOK(n, e)
  BY <1>8 DEF AloneOK
<1> HIDE DEF whole
<1> QED
  BY <1>1, <1>2, <1>6, <1>7, <1>8, <1>9, <1>10, <1>11, <1>12, StepKeeps

\* p fails, on a column or a version that is there or on another who writes, or is stopped.
LEMMA Leaves ==
  ASSUME MigrationInv, NEW p \in Processes, p \in s1, s4[p].status # "down",
         NEW n, NEW why \in {"down", "duplicate", "locked"}, n = Opening!Away(why),
         Moves(p, n, s3), s5' \in 0 .. MaxStops,
         \/ why = "down" /\ s5' # 0
         \/ /\ s5' = s5 /\ s4[p].status = "migrating" /\ s4[p].pc \in DOMAIN Program
            /\ \/ why = "locked" /\ s4[p].txn /\ ~ CanWrite(p)
               \/ why = "duplicate" /\
                  LET s == Program[s4[p].pc]   S == SeenBy(s4[p], s3) IN
                  \/ s.kind = "alter" /\ s.on \in S.schema
                  \/ s.kind = "add" /\ s.on \in S.schema /\ ~ s4[p].saw
                  \/ s.kind = "version" /\ s.step \in S.versions
  PROVE  MigrationInv'
<1> DEFINE i == s4[p].pc   s == Program[i]   S == SeenBy(s4[p], s3)
           duplicate == \/ s.kind = "alter" /\ s.on \in S.schema
                        \/ s.kind = "add" /\ s.on \in S.schema /\ ~ s4[p].saw
                        \/ s.kind = "version" /\ s.step \in S.versions
<1>1. /\ ConnOK(s4[p], s3) /\ s4[p] \in Conn /\ s3 \in Db /\ Consistent(s3)
      /\ s5 \in 0 .. MaxStops
  BY DEF MigrationInv, MigrationTypes
<1>2. /\ n.status = why /\ ~ n.txn /\ ~ n.wrote /\ n \in Conn
  <2>1. Opening!Database(0) \in Db /\ 0 \in 0 .. Len(Program) + 1
    BY ObjectsAre, Statements
  <2> QED
    BY <2>1 DEF Opening!Away, Conn
<1>3. ConnOK(n, s3)
  BY <1>2 DEF ConnOK
<1>4. \A j : ~ InStep(n, j)
  BY <1>2 DEF InStep
<1>5. ASSUME why # "down" PROVE /\ s5' = s5 /\ s4[p].status = "migrating" /\ i \in DOMAIN Program
                               /\ \/ why = "locked" /\ s4[p].txn /\ ~ CanWrite(p)
                                  \/ why = "duplicate" /\ duplicate
  BY <1>5
<1>6. s5' = 0 => why # "down"
  OBVIOUS
<1> HIDE DEF duplicate
<1>7. ASSUME s5' = 0, NEW j, TornBy(s3, j), ~ s4[p].txn, InStep(s4[p], j) PROVE FALSE
  <2>1. /\ s5 = 0 /\ duplicate /\ S = s3 /\ i \in DOMAIN Program /\ i \in Nat
    BY <1>5, <1>6, <1>7, Statements DEF SeenBy
  <2>2. Altering(j) /\ j \in DOMAIN Program /\ j < i /\ s.step = Program[j].step
    BY <1>7 DEF InStep, Altering
  <2>3. s.kind \in {"alter", "version"}
    BY <2>1, <2>2, StatementAt
  <2>4. /\ \A q \in Processes : q # p /\ s4[q].status = "migrating" => s4[q].pc <= j
        /\ s.step \notin s3.versions
    BY <1>7, <2>2 DEF MigrationInv, OneInStep
  <2>5. TornBy(s3, i)
    BY <2>1, <2>3, <2>4 DEF duplicate, TornBy, Altering
  <2>6. PICK q \in Processes : InStep(s4[q], i)
    BY <2>1, <2>5 DEF MigrationInv, Owned
  <2>7. i < s4[q].pc /\ s4[q].status = "migrating" /\ j \in Nat /\ s4[q].pc \in Nat
    BY <2>2, <2>6, Statements DEF InStep
  <2> QED
    BY <2>1, <2>2, <2>4, <2>7
<1>8. s2 >= 5 => \A j : ~ TornBy(s3, j)
  BY DEF MigrationInv, Newer
<1>9. ASSUME IsAlone PROVE AloneOK(n, s3)
  <2>1. CASE why = "down"
    BY <1>2, <2>1 DEF AloneOK
  <2>2. CASE why # "down"
    <3>1. s4[p].status = "migrating" /\ i \in DOMAIN Program /\ i \in Nat
      BY <1>5, <2>2, Statements
    <3>2. /\ ~ s4[p].stale /\ Behind(i, S)
          /\ s.kind = "add" => (s4[p].saw <=> s.on \in S.schema)
      BY <1>9, <3>1 DEF MigrationInv, Lonely, AloneOK
    <3>3. Opening!Free(p)
      <4> SUFFICES ASSUME NEW q \in Processes, q # p PROVE ~ s4[q].txn
        BY DEF Opening!Free, Opening!Writer
      <4>1. q \notin s1
        BY <1>9 DEF IsAlone
      <4> QED
        BY <4>1 DEF MigrationInv, MigrationTypes, ConnOK
    <3>4. duplicate
      BY <1>5, <2>2, <3>2, <3>3 DEF CanWrite
    <3>5. ~ (s.step \in S.versions)
      BY <3>1, <3>2 DEF Behind
    <3>6. s.kind = "alter" /\ s.on \in S.schema
      BY <3>2, <3>4, <3>5 DEF duplicate
    <3>7. s.on \in s3.schema /\ s.step \notin s3.versions
      <4>1. CASE ~ s4[p].txn
        BY <3>5, <3>6, <4>1 DEF SeenBy
      <4>2. CASE s4[p].txn
        <5>1. ViewOK(s4[p], s3) /\ S = s4[p].view /\ Making(i)
          BY <1>1, <3>1, <3>6, <4>2 DEF ConnOK, SeenBy, Making, Opening!Makes
        <5>2. ~ s4[p].wrote => S = s3
          BY <3>2, <5>1 DEF ViewOK
        <5>3. s4[p].wrote => s.on \in s3.schema /\ s.step \notin s3.versions
          BY <3>1, <3>5, <3>6, <5>1 DEF ViewOK, NewTo, Sub
        <5> QED
          BY <3>5, <3>6, <5>2, <5>3
      <4> QED
        BY <4>1, <4>2
    <3>8. TornBy(s3, i)
      BY <3>1, <3>6, <3>7 DEF TornBy, Altering
    <3> QED
      BY <1>2, <3>8 DEF AloneOK
  <2> QED
    BY <2>1, <2>2
<1> HIDE DEF i, s, S
<1> QED
  <2>1. Sub(s3, s3) /\ (s5' = 0 => s5 = 0)
    BY <1>5, <1>6 DEF Sub
  <2>2. n.status # "migrating"
    BY <1>2
  <2> QED
    BY <1>1, <1>2, <1>3, <1>4, <1>7, <1>8, <1>9, <2>1, <2>2, StepKeeps

\* p is started: its migration resumes at the version the database is at.
LEMMA Opens ==
  ASSUME MigrationInv, NEW p \in Processes, p \in s1,
         s4[p].status \in {"down", "duplicate", "locked"},
         s3 = Opening!Database(0) => Opening!Free(p),
         NEW n, n = [status |-> "migrating", pc |-> Opening!Resume(Opening!Current(s3.versions)),
                     txn |-> TRUE, wrote |-> s3 = Opening!Database(0), stale |-> FALSE,
                     saw |-> FALSE, view |-> s3],
         Moves(p, n, s3), s5' = s5
  PROVE  MigrationInv'
<1>1. /\ ConnOK(s4[p], s3) /\ s4[p] \in Conn /\ s3 \in Db /\ Consistent(s3)
      /\ s5 \in 0 .. MaxStops /\ s2 \in 0 .. SCHEMA_VERSION /\ 1 .. s2 \subseteq s3.versions
  BY DEF MigrationInv, MigrationTypes
<1>2. /\ n.status = "migrating" /\ n.txn /\ n.view = s3 /\ ~ n.stale /\ ~ n.saw
      /\ n.wrote => Opening!Free(p)
      /\ n.wrote \in BOOLEAN /\ SeenBy(n, s3) = s3
  BY DEF SeenBy
<1>3. /\ n.pc \in 1 .. Len(Program) + 1
      /\ \A i \in DOMAIN Program : i < n.pc <=> Program[i].step \in s3.versions
  BY <1>1, ResumesAt
<1>4. n.pc \in Nat /\ n.pc # 0 /\ n.pc \in 0 .. Len(Program) + 1
  BY <1>3, Statements
<1>5. n \in Conn
  BY <1>1, <1>4 DEF Conn
<1>6. ~ (n.pc \in DOMAIN Program /\ Program[n.pc].kind = "add")
  <2> SUFFICES ASSUME n.pc \in DOMAIN Program, Program[n.pc].kind = "add" PROVE FALSE
    OBVIOUS
  <2>1. n.pc - 1 \in DOMAIN Program /\ Program[n.pc - 1].step = Program[n.pc].step
    BY Statements
  <2>2. n.pc - 1 < n.pc /\ ~ (n.pc < n.pc)
    BY <1>4
  <2> QED
    BY <1>3, <2>1, <2>2
<1>7. DoneTo(n.pc, s3)
  <2> SUFFICES ASSUME NEW i \in DOMAIN Program, i < n.pc
               PROVE  /\ Making(i) => Program[i].on \in s3.schema
                      /\ Program[i].kind = "version" => Program[i].step \in s3.versions
    BY DEF DoneTo
  <2>1. Program[i].step \in s3.versions /\ Program[i].step \in 1 .. 6
    BY <1>3, Statements
  <2>2. Making(i) => Program[i].on \in Opening!Objects(Program[i].step)
    BY <2>1, ObjectsAre
  <2> QED
    BY <1>1, <2>1, <2>2 DEF Consistent
<1>8. Behind(n.pc, s3)
  BY <1>3 DEF Behind
<1>9. ConnOK(n, s3)
  BY <1>1, <1>2, <1>4, <1>5, <1>6, <1>7, <1>8 DEF ConnOK, ViewOK, NewTo, Sub
<1>10. \A j : Altering(j) /\ j < n.pc => Program[j].step \in s3.versions
  BY <1>3 DEF Altering
<1>11. \A j : ~ InStep(n, j) /\ ~ InStep(s4[p], j)
  <2>1. ASSUME NEW j, InStep(n, j) PROVE FALSE
    <3>1. Program[n.pc].step \in s3.versions /\ n.pc \in DOMAIN Program
      BY <1>10, <2>1 DEF InStep
    <3> QED
      BY <1>3, <1>4, <3>1
  <2> QED
    BY <2>1 DEF InStep
<1>12. s2 >= 5 => /\ \A j : ~ TornBy(s3, j)
                  /\ \A j \in DOMAIN Program : Program[j].kind = "commit" => j < n.pc
  <2> SUFFICES ASSUME s2 >= 5, NEW j \in DOMAIN Program, Program[j].kind = "commit"
               PROVE  j < n.pc
    BY DEF MigrationInv, Newer
  <2>1. Program[j].step \in 1 .. 6 /\ Program[j].step <= 5
    BY Statements
  <2>2. Program[j].step \in 1 .. s2
    <3>1. SCHEMA_VERSION = 6
      BY Statements
    <3>2. s2 \in 0 .. 6 /\ s2 >= 5
      BY <1>1, <3>1
    <3> QED
      BY <2>1, <3>2
  <2> QED
    BY <1>1, <1>3, <2>2
<1>13. AloneOK(n, s3)
  BY <1>2, <1>6, <1>8 DEF AloneOK
<1>14. Sub(s3, s3)
  BY DEF Sub
<1> QED
  BY <1>1, <1>2, <1>9, <1>10, <1>11, <1>12, <1>13, <1>14, StepKeeps

\* The connection after a statement.
LEMMA MovedIs ==
  ASSUME MigrationTypes, NEW p \in Processes, s4[p].status = "migrating",
         s4[p].pc \in DOMAIN Program, NEW m, m = Opening!Moved(p)
  PROVE  /\ m \in Conn /\ m.status = "migrating" /\ m.pc = s4[p].pc + 1
         /\ m.txn = s4[p].txn /\ m.wrote = s4[p].wrote /\ m.stale = s4[p].stale
         /\ m.saw = s4[p].saw /\ m.view = s4[p].view
<1> DEFINE k == s4[p].pc + 1
<1>1. s4[p] \in Conn
  BY DEF MigrationTypes
<1>2. k \in 0 .. Len(Program) + 1
  <2>1. s4[p].pc \in 1 .. Len(Program) /\ Len(Program) \in Nat
    BY Statements
  <2> QED
    BY <2>1
<1>3. m = [s4[p] EXCEPT !.pc = k]
  BY DEF Opening!Moved
<1> HIDE DEF k
<1>4. m \in Conn /\ m.pc = k /\ m.status = s4[p].status
      /\ m.txn = s4[p].txn /\ m.wrote = s4[p].wrote /\ m.stale = s4[p].stale
      /\ m.saw = s4[p].saw /\ m.view = s4[p].view
  BY <1>1, <1>2, <1>3 DEF Conn
<1> QED
  BY <1>4 DEF k

\* A statement that writes.
LEMMA Writes ==
  ASSUME MigrationInv, NEW p \in Processes, p \in s1, s4[p].status = "migrating",
         NEW i, i = s4[p].pc, i \in DOMAIN Program,
         Program[i].kind \notin {"commit", "look"},
         NEW S, S = SeenBy(s4[p], s3), NEW to, to = Made(S, i),
         Program[i].kind = "alter" => Program[i].on \notin S.schema,
         Opening!Write(p, to), s1' = s1, s2' = s2, s5' = s5
  PROVE  MigrationInv'
<1> DEFINE m == Opening!Moved(p)
<1>1. /\ m \in Conn /\ m.status = "migrating" /\ m.pc = i + 1
      /\ m.txn = s4[p].txn /\ m.wrote = s4[p].wrote /\ m.stale = s4[p].stale
      /\ m.saw = s4[p].saw /\ m.view = s4[p].view
  BY MovedIs DEF MigrationInv
<1>2. ConnOK(s4[p], s3) /\ s4[p] \in Conn /\ s3 \in Db /\ s5 \in 0 .. MaxStops
  BY DEF MigrationInv, MigrationTypes
<1>3. CASE s4[p].txn /\ CanWrite(p)
  <2> DEFINE n == [m EXCEPT !.view = to, !.wrote = TRUE]
  <2>1. s3' = s3 /\ s4' = [s4 EXCEPT ![p] = n]
    BY <1>3 DEF Opening!Write, Opening!Read, CanWrite
  <2>2. to \in Db
    <3>1. S \in Db /\ Consistent(S) /\ DoneTo(i, S)
      BY <1>2 DEF ConnOK, SeenBy, Conn
    <3> QED
      BY <3>1, Advances
  <2> HIDE DEF m
  <2>3. /\ n \in Conn /\ n.status = "migrating" /\ n.pc = i + 1 /\ n.txn /\ n.wrote
        /\ n.stale = s4[p].stale /\ n.view = to
    BY <1>1, <1>3, <2>2 DEF Conn
  <2> HIDE DEF n
  <2>4. Moves(p, n, s3)
    BY <2>1 DEF Moves
  <2> QED
    BY <1>3, <2>3, <2>4, Works
<1>4. CASE s4[p].txn /\ ~ CanWrite(p)
  <2>1. s3' = s3 /\ s4' = [s4 EXCEPT ![p] = Opening!Away("locked")]
    BY <1>4 DEF Opening!Write, Opening!Fail, CanWrite
  <2>2. Moves(p, Opening!Away("locked"), s3)
    BY <2>1 DEF Moves
  <2> QED
    BY <1>2, <1>4, <2>2, Leaves
<1>5. CASE ~ s4[p].txn
  <2>1. Opening!Free(p) /\ s3' = to /\ s4' = Opening!Published(p, m)
    BY <1>5 DEF Opening!Write
  <2>2. Moves(p, m, to) /\ CanWrite(p)
    BY <1>5, <2>1 DEF Moves, CanWrite
  <2>3. ~ m.wrote /\ ~ m.txn /\ m.wrote = m.txn
    BY <1>1, <1>2, <1>5 DEF ConnOK, Conn
  <2> HIDE DEF m
  <2> QED
    BY <1>1, <1>5, <2>2, <2>3, Works
<1> QED
  BY <1>3, <1>4, <1>5

LEMMA Executes ==
  ASSUME MigrationInv, NEW p \in Processes, Opening!Execute(p)
  PROVE  MigrationInv'
<1> DEFINE i == s4[p].pc   s == Program[i]   S == SeenBy(s4[p], s3)   m == Opening!Moved(p)
           exists == s.on \in S.schema
<1>1. ConnOK(s4[p], s3) /\ s4[p] \in Conn /\ s3 \in Db /\ s5 \in 0 .. MaxStops
  BY DEF MigrationInv, MigrationTypes
<1>2. s1' = s1 /\ s2' = s2 /\ s5' = s5 /\ s4[p].status = "migrating" /\ i <= Len(Program)
  BY DEF Opening!Execute, Opening!Migrating
<1>3. i \in DOMAIN Program /\ p \in s1
  <2>1. i \in Nat /\ i # 0 /\ Len(Program) \in Nat /\ DOMAIN Program = 1 .. Len(Program)
    BY <1>1, <1>2, Statements DEF Conn, ConnOK
  <2>2. p \in s1
    BY <1>2 DEF MigrationInv, MigrationTypes
  <2> QED
    BY <1>2, <2>1, <2>2
<1>4. Opening!Seen(p) = S
  BY Zenon DEF Opening!Seen, SeenBy
<1>5. \/ s.kind = "look" /\ Opening!Read(p, [m EXCEPT !.saw = exists])
      \/ /\ s.kind = "commit"
         /\ Opening!Committed(p, [m EXCEPT !.txn = FALSE, !.wrote = FALSE, !.stale = FALSE,
                                        !.view = Opening!Database(0)])
      \/ /\ \/ s.kind = "create" /\ exists
            \/ s.kind = "add" /\ s4[p].saw
         /\ Opening!Read(p, [m EXCEPT !.saw = FALSE])
      \/ /\ \/ s.kind = "alter" /\ exists
            \/ s.kind = "add" /\ exists /\ ~ s4[p].saw
            \/ s.kind = "version" /\ s.step \in S.versions
         /\ Opening!Fail(p, "duplicate")
      \/ /\ s.kind \in {"create", "alter", "add"} /\ ~ exists
         /\ Opening!Write(p, [S EXCEPT !.schema = @ \cup {s.on}])
      \/ s.kind = "update" /\ Opening!Write(p, S)
      \/ /\ s.kind = "version" /\ s.step \notin S.versions
         /\ Opening!Write(p, [S EXCEPT !.versions = @ \cup {s.step}])
  BY <1>4 DEF Opening!Execute
<1>6. /\ m \in Conn /\ m.status = "migrating" /\ m.pc = i + 1
      /\ m.txn = s4[p].txn /\ m.wrote = s4[p].wrote /\ m.stale = s4[p].stale
      /\ m.saw = s4[p].saw /\ m.view = s4[p].view
  BY <1>2, <1>3, MovedIs DEF MigrationInv
<1>7. S \in Db /\ S = [schema |-> S.schema, versions |-> S.versions]
  <2>1. S \in Db
    BY <1>1 DEF SeenBy, Conn
  <2> QED
    BY <2>1 DEF Db
<1>8. Making(i) <=> s.kind \in {"create", "alter", "add"}
  BY <1>3 DEF Making, Opening!Makes
<1>9. ASSUME NEW b \in BOOLEAN, Opening!Read(p, [m EXCEPT !.saw = b]),
             s.kind \in {"look", "create", "add"}, Made(S, i) = S,
             s.kind = "look" => (b <=> exists)
      PROVE  MigrationInv'
  <2> DEFINE n == [m EXCEPT !.saw = b]
  <2>1. s3' = s3 /\ s4' = [s4 EXCEPT ![p] = n]
    BY <1>9 DEF Opening!Read
  <2> HIDE DEF m
  <2>2. /\ n \in Conn /\ n.status = "migrating" /\ n.pc = i + 1 /\ n.saw = b
        /\ n.txn = s4[p].txn /\ n.wrote = s4[p].wrote /\ n.stale = s4[p].stale
        /\ n.view = s4[p].view
    BY <1>6 DEF Conn
  <2> HIDE DEF n
  <2>3. Moves(p, n, s3) /\ (n.wrote => n.txn)
    BY <1>1, <1>2, <2>1, <2>2 DEF Moves, ConnOK
  <2>4. n.txn => n.view = S
    BY <2>2 DEF SeenBy
  <2>5. ~ n.txn => s3 = S
    BY <2>2 DEF SeenBy
  <2> HIDE DEF S
  <2>6. S = SeenBy(s4[p], s3)
    BY DEF S
  <2> QED
    BY <1>2, <1>3, <1>9, <2>2, <2>3, <2>4, <2>5, <2>6, Works
<1>10. CASE s.kind = "look" /\ Opening!Read(p, [m EXCEPT !.saw = exists])
  <2>1. Made(S, i) = S
    BY <1>7, <1>8, <1>10 DEF Made
  <2> HIDE DEF exists, m, S
  <2>2. exists \in BOOLEAN
    BY DEF exists
  <2> QED
    BY <1>9, <1>10, <2>1, <2>2
<1>11. CASE /\ \/ s.kind = "create" /\ exists
               \/ s.kind = "add" /\ s4[p].saw
            /\ Opening!Read(p, [m EXCEPT !.saw = FALSE])
  <2>1. exists
    BY <1>1, <1>2, <1>3, <1>11 DEF ConnOK
  <2>2. S.schema \cup {s.on} = S.schema
    BY <2>1
  <2>3. Made(S, i) = S
    BY <1>7, <1>11, <2>2 DEF Made
  <2> HIDE DEF m, S
  <2> QED
    BY <1>9, <1>11, <2>3
<1>12. CASE /\ s.kind = "commit"
            /\ Opening!Committed(p, [m EXCEPT !.txn = FALSE, !.wrote = FALSE, !.stale = FALSE,
                                           !.view = Opening!Database(0)])
  <2> DEFINE n == [m EXCEPT !.txn = FALSE, !.wrote = FALSE, !.stale = FALSE,
                            !.view = Opening!Database(0)]
  <2> HIDE DEF m
  <2>1. Opening!Database(0) \in Db
    BY ObjectsAre
  <2>2. /\ n \in Conn /\ n.status = "migrating" /\ n.pc = i + 1
        /\ ~ n.txn /\ ~ n.wrote /\ ~ n.stale
    BY <1>6, <2>1 DEF Conn
  <2> HIDE DEF n
  <2>3. CASE s4[p].wrote
    <3>1. s3' = s4[p].view /\ s4' = Opening!Published(p, n) /\ Opening!Free(p)
      BY <1>1, <1>12, <2>3
         DEF Opening!Committed, Opening!Writer, Opening!Free, ConnOK, MigrationInv, OneWriter, n
    <3>2. Moves(p, n, s4[p].view)
      BY <1>2, <3>1 DEF Moves
    <3> QED
      BY <1>2, <1>3, <1>12, <2>2, <2>3, <3>2, Commits
  <2>4. CASE ~ s4[p].wrote
    <3>1. s3' = s3 /\ s4' = [s4 EXCEPT ![p] = n]
      BY <1>12, <2>4 DEF Opening!Committed, Opening!Writer, Opening!Read, n
    <3>2. Moves(p, n, s3)
      BY <1>2, <3>1 DEF Moves
    <3> QED
      BY <1>2, <1>3, <1>12, <2>2, <2>4, <3>2, Commits
  <2> QED
    BY <2>3, <2>4
<1>13. CASE /\ \/ s.kind = "alter" /\ exists
               \/ s.kind = "add" /\ exists /\ ~ s4[p].saw
               \/ s.kind = "version" /\ s.step \in S.versions
            /\ Opening!Fail(p, "duplicate")
  <2>1. s3' = s3 /\ s4' = [s4 EXCEPT ![p] = Opening!Away("duplicate")]
    BY <1>13 DEF Opening!Fail
  <2>2. Moves(p, Opening!Away("duplicate"), s3)
    BY <1>2, <2>1 DEF Moves
  <2> QED
    BY <1>1, <1>2, <1>3, <1>13, <2>2, Leaves
<1>14. ASSUME Opening!Write(p, Made(S, i)), s.kind \notin {"commit", "look"},
              s.kind = "alter" => ~ exists
       PROVE  MigrationInv'
  BY <1>2, <1>3, <1>14, Writes
<1>15. CASE /\ s.kind \in {"create", "alter", "add"} /\ ~ exists
            /\ Opening!Write(p, [S EXCEPT !.schema = @ \cup {s.on}])
  <2>1. Made(S, i).schema = S.schema \cup {s.on} /\ Made(S, i).versions = S.versions
    BY <1>8, <1>15 DEF Made
  <2>2. Made(S, i) = [schema |-> Made(S, i).schema, versions |-> Made(S, i).versions]
    BY DEF Made
  <2> HIDE DEF S, s
  <2>3. [S EXCEPT !.schema = @ \cup {s.on}]
           = [schema |-> S.schema \cup {s.on}, versions |-> S.versions]
    BY <1>7
  <2>4. Made(S, i) = [S EXCEPT !.schema = @ \cup {s.on}]
    BY <2>1, <2>2, <2>3
  <2> QED
    BY <1>14, <1>15, <2>4
<1>16. CASE s.kind = "update" /\ Opening!Write(p, S)
  <2>1. Made(S, i) = S
    BY <1>7, <1>8, <1>16 DEF Made
  <2> QED
    BY <1>14, <1>16, <2>1
<1>17. CASE /\ s.kind = "version" /\ s.step \notin S.versions
            /\ Opening!Write(p, [S EXCEPT !.versions = @ \cup {s.step}])
  <2>1. Made(S, i) = [S EXCEPT !.versions = @ \cup {s.step}]
    BY <1>7, <1>8, <1>17 DEF Made
  <2> QED
    BY <1>14, <1>17, <2>1
<1> HIDE DEF i, s, S, m, exists
<1> QED
  BY <1>5, <1>10, <1>11, <1>12, <1>13, <1>15, <1>16, <1>17

LEMMA MigrationStep ==
  ASSUME MigrationInv, Opening!Next \/ UNCHANGED <<s1, s2, s3, s4, s5>>
  PROVE  MigrationInv'
<1>1. ASSUME NEW p \in Processes, Opening!Open(p) PROVE MigrationInv'
  <2> DEFINE n == [status |-> "migrating", pc |-> Opening!Resume(Opening!Current(s3.versions)),
                   txn |-> TRUE, wrote |-> s3 = Opening!Database(0), stale |-> FALSE,
                   saw |-> FALSE, view |-> s3]
  <2>1. /\ p \in s1 /\ s4[p].status \in {"down", "duplicate", "locked"}
        /\ s3 = Opening!Database(0) => Opening!Free(p)
        /\ s4' = [s4 EXCEPT ![p] = n] /\ s3' = s3 /\ s1' = s1 /\ s2' = s2 /\ s5' = s5
    BY <1>1 DEF Opening!Open, Opening!Read, Opening!Failures
  <2>2. Moves(p, n, s3)
    BY <2>1 DEF Moves
  <2> QED
    BY <2>1, <2>2, Opens
<1>2. ASSUME NEW p \in Processes, Opening!Execute(p) PROVE MigrationInv'
  BY <1>2, Executes
<1>3. ASSUME NEW p \in Processes, Opening!Finish(p) PROVE MigrationInv'
  <2> DEFINE n == Opening!Away("ready")
  <2>1. /\ s4[p].status = "migrating" /\ s4[p].pc > Len(Program) /\ s5' = s5
        /\ s1' = s1 /\ s2' = s2 /\ p \in s1 /\ ConnOK(s4[p], s3)
    BY <1>3 DEF Opening!Finish, Opening!Migrating, MigrationInv, MigrationTypes
  <2>2. Opening!Committed(p, n)
    BY <1>3 DEF Opening!Finish
  <2> HIDE DEF n
  <2>3. CASE s4[p].wrote
    <3>1. s3' = s4[p].view /\ s4' = Opening!Published(p, n) /\ Opening!Free(p)
      BY <2>1, <2>2, <2>3
         DEF Opening!Committed, Opening!Writer, Opening!Free, ConnOK, MigrationInv, OneWriter
    <3>2. Moves(p, n, s4[p].view)
      BY <2>1, <3>1 DEF Moves
    <3> QED
      BY <2>1, <2>3, <3>2, Finishes DEF n
  <2>4. CASE ~ s4[p].wrote
    <3>1. s3' = s3 /\ s4' = [s4 EXCEPT ![p] = n]
      BY <2>2, <2>4 DEF Opening!Committed, Opening!Writer, Opening!Read
    <3>2. Moves(p, n, s3)
      BY <2>1, <3>1 DEF Moves
    <3> QED
      BY <2>1, <2>4, <3>2, Finishes DEF n
  <2> QED
    BY <2>3, <2>4
<1>4. ASSUME NEW p \in Processes, Opening!Crash(p) PROVE MigrationInv'
  <2>1. /\ s4[p].status # "down" /\ s5 < MaxStops /\ s5' = s5 + 1
        /\ s4' = [s4 EXCEPT ![p] = Opening!Away("down")]
        /\ s3' = s3 /\ s1' = s1 /\ s2' = s2
    BY <1>4 DEF Opening!Crash
  <2>2. s5' \in 0 .. MaxStops /\ s5' # 0
    BY <2>1, ProcessesAssumption DEF MigrationInv, MigrationTypes
  <2>3. p \in s1
    BY <2>1 DEF MigrationInv, MigrationTypes
  <2>4. Moves(p, Opening!Away("down"), s3)
    BY <2>1 DEF Moves
  <2> QED
    BY <2>1, <2>2, <2>3, <2>4, Leaves
<1>5. CASE UNCHANGED <<s1, s2, s3, s4, s5>>
  BY <1>5 DEF MigrationInv, MigrationTypes, OneWriter, OneInStep, Owned, Newer, Lonely, IsAlone
<1> QED
  BY <1>1, <1>2, <1>3, <1>4, <1>5 DEF Opening!Next, Opening!Forward

LEMMA MigrationInit ==
  ASSUME Opening!Init
  PROVE  MigrationInv
<1> DEFINE away == Opening!Away("down")
<1>1. /\ s1 \subseteq Processes /\ s2 \in 0 .. SCHEMA_VERSION /\ s3 = Opening!Database(s2)
      /\ s4 = [p \in Processes |-> away] /\ s5 = 0
  BY DEF Opening!Init
<1>2. SCHEMA_VERSION = 6 /\ s2 \in 0 .. 6
  BY <1>1, Statements
<1>3. /\ s3 \in Db /\ Consistent(s3) /\ s3.schema = Opening!Objects(s2) /\ s3.versions = 1 .. s2
      /\ Opening!Database(0) \in Db
  BY <1>1, <1>2, ObjectsAre
<1>4. away \in Conn /\ away.status = "down" /\ ~ away.txn /\ ~ away.wrote
  <2>1. 0 \in 0 .. Len(Program) + 1
    BY Statements
  <2> QED
    BY <1>3, <2>1 DEF Opening!Away, Conn
<1>5. \A p \in Processes : s4[p] = away
  BY <1>1
<1> HIDE DEF away
<1>6. ConnOK(away, s3) /\ AloneOK(away, s3) /\ \A i : ~ InStep(away, i)
  BY <1>4 DEF ConnOK, AloneOK, InStep
<1>7. \A i : ~ TornBy(s3, i)
  <2> SUFFICES ASSUME NEW i, TornBy(s3, i) PROVE FALSE
    OBVIOUS
  <2>1. Making(i) /\ Program[i].on \in Opening!Objects(s2) /\ Program[i].step \notin 1 .. s2
        /\ i \in DOMAIN Program
    BY <1>3, Statements DEF TornBy, Altering
  <2>2. PICK j : Making(j) /\ Program[j].step <= s2 /\ Program[j].on = Program[i].on
    BY <2>1, ObjectsAre
  <2>3. i = j
    BY <2>1, <2>2, Statements
  <2>4. Program[i].step \in 1 .. 6
    BY <2>1, Statements
  <2> QED
    BY <1>2, <2>1, <2>2, <2>3, <2>4
<1>8. s5 \in 0 .. MaxStops
  BY <1>1, ProcessesAssumption
<1>9. MigrationTypes
  BY <1>1, <1>3, <1>4, <1>5, <1>6, <1>8 DEF MigrationTypes
<1>10. OneWriter /\ OneInStep /\ Owned /\ Newer /\ Lonely
  BY <1>4, <1>5, <1>6, <1>7 DEF OneWriter, OneInStep, Owned, Newer, Lonely
<1> QED
  BY <1>9, <1>10 DEF MigrationInv

\* What the run checks of the migration.
LEMMA MigrationClaim ==
  ASSUME MigrationInv
  PROVE  /\ Opening!TypeOK /\ Opening!NewerIsAtomic /\ Opening!FailsOnlyTorn
         /\ Opening!VersionImpliesSchema /\ Opening!ReadyIsCurrent /\ Opening!TornOnlyByCrash
<1>1. /\ s1 \subseteq Processes /\ s2 \in 0 .. SCHEMA_VERSION /\ s5 \in 0 .. MaxStops
      /\ s3 \in Db /\ Consistent(s3)
      /\ \A p \in Processes : ConnOK(s4[p], s3) /\ s4[p] \in Conn
      /\ \A p \in Processes : p \notin s1 => s4[p].status = "down"
  BY DEF MigrationInv, MigrationTypes, ConnOK
<1>2. Opening!Torn <=> \E i : TornBy(s3, i)
  BY DEF Opening!Torn, TornBy, Altering
<1>3. Opening!TypeOK
  BY <1>1 DEF Opening!TypeOK, Opening!Failures, Db, Conn, ConnOK
<1>4. Opening!NewerIsAtomic
  BY <1>2 DEF Opening!NewerIsAtomic, MigrationInv, Newer
<1>5. Opening!FailsOnlyTorn
  <2> SUFFICES ASSUME Opening!Cardinality(s1) = 1, NEW p \in Processes,
                      s4[p].status \in {"duplicate", "locked"}
               PROVE  \E i : TornBy(s3, i)
    BY <1>2 DEF Opening!FailsOnlyTorn, Opening!Failures
  <2>1. IsFiniteSet(s1)
    BY <1>1, ProcessesAssumption, FS_Subset
  <2>2. Cardinality(s1) = 1
    BY DEF Opening!Cardinality, Cardinality
  <2>3. \E x : s1 = {x}
    BY <2>1, <2>2, FS_Singleton
  <2>4. IsAlone
    BY <2>3 DEF IsAlone
  <2> QED
    BY <2>4 DEF MigrationInv, Lonely, AloneOK
<1>6. Opening!VersionImpliesSchema
  BY <1>1 DEF Opening!VersionImpliesSchema, Consistent
<1>7. Opening!ReadyIsCurrent
  BY <1>1 DEF Opening!ReadyIsCurrent, ConnOK, Opening!Database
<1>8. Opening!TornOnlyByCrash
  <2> SUFFICES ASSUME Opening!Torn, \A p \in Processes : s4[p].status # "migrating"
               PROVE  s5 > 0
    BY DEF Opening!TornOnlyByCrash, Opening!Migrating
  <2>1. s5 # 0
    BY <1>2 DEF MigrationInv, Owned, InStep
  <2> QED
    BY <1>1, <2>1, ProcessesAssumption
<1> QED
  BY <1>3, <1>4, <1>5, <1>6, <1>7, <1>8

\* The migration of any version, by any processes, stopped anywhere: a version that is
\* recorded has its schema, a store that opened is at the newest one, a column is left
\* without its version only by a process that was stopped and not from version 5 on, and
\* a process that is alone fails only on such a column.
THEOREM MigrationIsSafe == Spec => []MigrationSafe
<1> DEFINE Inv == part = "opening" => MigrationInv
<1>1. Init => Inv
  BY MigrationInit DEF Init
<1>2. Inv /\ [Next]_vars => Inv'
  <2> SUFFICES ASSUME MigrationInv, part = "opening", [Next]_vars PROVE MigrationInv'
    BY PartSteps
  <2>1. Opening!Next \/ UNCHANGED <<s1, s2, s3, s4, s5>>
    BY DEF Next, vars
  <2> QED
    BY <2>1, MigrationStep
<1>3. Inv => MigrationSafe
  BY MigrationClaim DEF MigrationSafe
<1> QED
  BY <1>1, <1>2, <1>3, PTL DEF Spec

=============================================================================
