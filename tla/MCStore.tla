------------------------------ MODULE MCStore ------------------------------
(***************************************************************************)
(* The instances of the modules about the SQLite store: the migration of   *)
(* its schema, the threads that share its connection, and what time makes  *)
(* of the failed logins in it.                                             *)
(*                                                                         *)
(* A behaviour is one of one instance, "part", whose variables are kept in *)
(* s1, s2, ...  The parts share no state: a database is migrated before    *)
(* any thread serves a request.                                            *)
(***************************************************************************)
EXTENDS Naturals, FiniteSets, MigrationSteps

CONSTANTS
    Processes, MaxStops,      \* that open the store; bound on how often they are stopped
    Threads, FewThreads,      \* that share the store: in general, and where a COMMIT may fail
    MaxTries,                 \* the attempts of revise_meeting
    MaxRequests, MoreRequests,\* bounds on the requests of a thread, likewise
    MaxCrashes                \* bound on the restarts of the server

ASSUME RequestsAssumption == MaxRequests \in Nat /\ MoreRequests \in Nat
ASSUME ProcessesAssumption == IsFiniteSet(Processes) /\ MaxStops \in Nat

VARIABLES part, s1, s2, s3, s4, s5, s6

vars == <<part, s1, s2, s3, s4, s5, s6>>

-----------------------------------------------------------------------------
\* The processes that are started on the database, of any version, one after another or
\* at once; any of them may be stopped.
Opening == INSTANCE Migration WITH
    StartVersions <- 0 .. SCHEMA_VERSION, MaxCrashes <- MaxStops,
    started <- s1, born <- s2, db <- s3, conn <- s4, crashes <- s5

\* Of the statements themselves, without a constant: evaluated once.
ASSUME ProgramAssumption == Opening!ProgramOK

\* Threads on the database; the server may stop, statements do not fail.
Database == INSTANCE SharedStore WITH
    Backend <- "database", MayFail <- FALSE,
    stored <- s1, tx <- s2, thread <- s3, acked <- s4, crashes <- s5
\* A COMMIT may fail.
Failing == INSTANCE SharedStore WITH
    Threads <- FewThreads, Backend <- "database", MayFail <- TRUE, MaxRequests <- MoreRequests,
    stored <- s1, tx <- s2, thread <- s3, acked <- s4, crashes <- s5
\* Threads on the repositories in memory.
Memory == INSTANCE SharedStore WITH
    Backend <- "memory", MayFail <- FALSE,
    stored <- s1, tx <- s2, thread <- s3, acked <- s4, crashes <- s5

\* One login at a time, one session.
Lockout == INSTANCE Sessions WITH
    Clients <- {1}, Tokens <- {1}, Limit <- 2, Window <- 2, TTL <- 1,
    active <- s1, failures <- s2, session <- s3, login <- s4, disabling <- s5, guesses <- s6

-----------------------------------------------------------------------------
Unused6 == s6 = {}
Unused5 == s5 = {} /\ Unused6

Init ==
    \/ part = "opening"  /\ Opening!Init  /\ Unused6
    \/ part = "database" /\ Database!Init /\ Unused6
    \/ part = "failing"  /\ Failing!Init  /\ Unused6
    \/ part = "memory"   /\ Memory!Init   /\ Unused6
    \/ part = "lockout"  /\ Lockout!Init

Next ==
    \/ part = "opening"  /\ Opening!Next  /\ UNCHANGED <<part, s6>>
    \/ part = "database" /\ Database!Next /\ UNCHANGED <<part, s6>>
    \/ part = "failing"  /\ Failing!Next  /\ UNCHANGED <<part, s6>>
    \/ part = "memory"   /\ Memory!Next   /\ UNCHANGED <<part, s6>>
    \/ part = "lockout"  /\ Lockout!Next  /\ UNCHANGED part

\* The fairness of FairSpec of each module.  The part never changes, so that this is
\* that of process i, of thread i, or that time passes.
Forward(i) ==
    \/ i \in Processes /\ part = "opening" /\ Opening!Forward(i) /\ UNCHANGED <<part, s6>>
    \/ i \in Threads /\ part = "database" /\ Database!Step(i) /\ UNCHANGED <<part, s6>>
    \/ i \in FewThreads /\ part = "failing" /\ Failing!Step(i) /\ UNCHANGED <<part, s6>>
    \/ i \in Threads /\ part = "memory" /\ Memory!Step(i)   /\ UNCHANGED <<part, s6>>
    \/ i = 1 /\ part = "lockout"      /\ Lockout!Tick     /\ UNCHANGED part

Spec == Init /\ [][Next]_vars /\ \A i \in Threads \cup FewThreads \cup Processes \cup {1} : WF_vars(Forward(i))

-----------------------------------------------------------------------------
(* The properties of the parts; each module says more of its own.          *)

\* Stopped at any point, by whichever processes open it: a version that is recorded has
\* its schema, a store that opened is at the newest one, a column is left without its
\* version only by a process that was stopped, and a database of version 5 or later is
\* migrated in one transaction.  A process that is alone fails only on such a column.
MigrationSafe ==
    part = "opening" => /\ Opening!TypeOK /\ Opening!NewerIsAtomic /\ Opening!FailsOnlyTorn
                        /\ Opening!VersionImpliesSchema /\ Opening!ReadyIsCurrent
                        /\ Opening!TornOnlyByCrash

\* What a client was told of is in the database, over dirty reads and
\* restarts; the meeting has the job of its revision and never goes back, also when
\* transactions fail; in memory a client was told of a revision only when it has its job.
RequestsKept ==
    /\ [](/\ part = "database" => Database!TypeOK /\ Database!AckedIsStored
          /\ part = "failing"  => Failing!TypeOK /\ Failing!CurrentHasJob
          /\ part = "memory"   => Memory!TypeOK /\ Memory!AckedHasJob)
    /\ [][part = "failing" => Failing!RevisionNeverFalls]_vars

\* On the database the threads implement the promise of MeetingLog: the steps of a
\* transaction are none of the log's until it commits, and what others read of it
\* before then does no harm as long as it does commit.
Log == INSTANCE MeetingLog WITH
    rev  <- IF part = "database" THEN s1.rev ELSE 0,
    jobs <- IF part = "database" THEN s1.jobs ELSE {}
ImplementsLog == Log!LogSpec

\* Two processes that open a database, started again when they fail, both come up,
\* unless it has a column without its version; in memory every revision saved gets
\* its job; time passes, and a lockout ends.
StoreProgress ==
    /\ <>[](part = "opening" => Opening!AllReady) \/ <>[](part = "opening" => Opening!Torn)
    /\ []<>(part = "memory" => Memory!NoneOwed)
    /\ []<>~ (part = "lockout" /\ Lockout!LockedOut)

=============================================================================
