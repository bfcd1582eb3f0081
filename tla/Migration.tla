----------------------------- MODULE Migration -----------------------------
(***************************************************************************)
(* The schema migration of the SQLite store                                *)
(* (app/persistence/sqlite_store.py, _migrate), run by every process that  *)
(* opens the database: one after another, two at once, or again after a    *)
(* process stopped in the middle.                                          *)
(*                                                                         *)
(* _migrate is written as one transaction.  sqlite3's executescript        *)
(* commits the transaction that is open, and the statements after it are   *)
(* each committed on their own: the two scripts, of versions 1 and 5, are  *)
(* where the model has a Commit.  BEGIN is deferred (WAL mode): a          *)
(* transaction reads from a snapshot, and its first write fails at once    *)
(* when the snapshot is no longer the newest, or another connection is     *)
(* writing.  A statement outside a transaction waits for the other writer; *)
(* that the wait of 5 seconds runs out is left out.                        *)
(***************************************************************************)
EXTENDS Naturals, Sequences, SequencesExt, FiniteSets, FiniteSetsExt

CONSTANTS
    SCHEMA_VERSION,
    Program,       \* the statements of _migrate (module MigrationSteps)
    Processes,     \* that open the database
    StartVersions, \* SUBSET 0 .. 6: the versions the database may be at
    MaxCrashes     \* bound on the processes that are stopped

VARIABLES
    started, \* the processes that are started on this database
    born,    \* the version the database was at
    db,      \* what is committed
    conn,    \* the connection of each process, and where its migration is
    crashes

vars == <<started, born, db, conn, crashes>>

-----------------------------------------------------------------------------
Makes(s) == s.kind \in {"create", "alter", "add"}

Objects(v) ==  \* what the statements up to version v make
    {Program[i].on : i \in {j \in DOMAIN Program : Makes(Program[j]) /\ Program[j].step <= v}}

\* How _migrate is written: the versions in order, each recorded by the last of its
\* statements; no table or column twice; from a column that is added without a look for
\* it to the version nothing else is done; the scripts are of version 5 at most.
ProgramOK ==
    /\ Len(Program) \in Nat /\ DOMAIN Program = 1 .. Len(Program)
    /\ \A i \in DOMAIN Program : Program[i].step \in 1 .. SCHEMA_VERSION
    /\ \A i, j \in DOMAIN Program : i < j =>
          /\ Program[i].step <= Program[j].step
          /\ Program[i].kind = "version" => Program[i].step < Program[j].step
          /\ Makes(Program[i]) /\ Makes(Program[j]) => Program[i].on # Program[j].on
          /\ Program[i].kind = "alter" /\ Program[i].step = Program[j].step =>
                Program[j].kind \in {"alter", "version"}
    /\ \A v \in 1 .. SCHEMA_VERSION : \E i \in DOMAIN Program :
          Program[i].kind = "version" /\ Program[i].step = v
    /\ \A i \in DOMAIN Program :
          /\ Program[i].kind = "add" =>
                /\ i - 1 \in DOMAIN Program /\ Program[i - 1].kind = "look"
                /\ Program[i - 1].step = Program[i].step /\ Program[i - 1].on = Program[i].on
          /\ Program[i].kind = "commit" => Program[i].step <= 5

Database(v) == [schema |-> Objects(v), versions |-> 1 .. v]

-----------------------------------------------------------------------------
Away(status) == [status |-> status, pc |-> 0, txn |-> FALSE, wrote |-> FALSE,
                 stale |-> FALSE, saw |-> FALSE, view |-> Database(0)]

Failures == {"duplicate", "locked"}

Init ==
    /\ started \in SUBSET Processes
    /\ born \in StartVersions
    /\ db = Database(born)
    /\ conn = [p \in Processes |-> Away("down")]
    /\ crashes = 0

Migrating(p) == conn[p].status = "migrating"
Writer(q)    == conn[q].txn /\ conn[q].wrote
Free(p)      == \A q \in Processes \ {p} : ~Writer(q)

\* What the process reads: its snapshot with its own changes, or the database.
Seen(p) == IF conn[p].txn THEN conn[p].view ELSE db

\* The connections after p wrote to the database: it is newer than the
\* snapshots of the others.
Published(p, c) ==
    [q \in Processes |-> IF q = p THEN c ELSE [conn[q] EXCEPT !.stale = @ \/ conn[q].txn]]

Moved(p) == [conn[p] EXCEPT !.pc = @ + 1]

\* The exception leaves transaction() after the rollback, and __init__: the
\* process ends.
Fail(p, why) ==
    /\ conn' = [conn EXCEPT ![p] = Away(why)]
    /\ UNCHANGED db

Read(p, c) ==
    /\ conn' = [conn EXCEPT ![p] = c]
    /\ UNCHANGED db

\* A statement that writes.
Write(p, to) ==
    IF conn[p].txn
      THEN IF conn[p].wrote \/ (~conn[p].stale /\ Free(p))
             THEN Read(p, [Moved(p) EXCEPT !.view = to, !.wrote = TRUE])
             ELSE Fail(p, "locked")
      ELSE Free(p) /\ db' = to /\ conn' = Published(p, Moved(p))

\* COMMIT, and the connection then.
Committed(p, c) ==
    IF Writer(p)
      THEN db' = conn[p].view /\ conn' = Published(p, c)
      ELSE Read(p, c)

-----------------------------------------------------------------------------

\* The newest version recorded.
Current(versions) == IF versions = {} THEN 0 ELSE Max(versions)

\* Mutant: the newest version recorded is migrated once more.
ResumeAtCurrent(current) ==
    Cardinality({i \in DOMAIN Program : Program[i].step < current}) + 1

\* The first statement of the first step that is newer than current.
Resume(current) ==
    Cardinality({i \in DOMAIN Program : Program[i].step <= current}) + 1

\* BEGIN, CREATE TABLE IF NOT EXISTS schema_version, SELECT version: the
\* snapshot is taken here.  On a database without that table the create writes,
\* and waits for another writer.
Open(p) ==
    /\ p \in started
    /\ conn[p].status \in {"down"} \cup Failures
    /\ db = Database(0) => Free(p)
    /\ Read(p, [status |-> "migrating", pc |-> Resume(Current(db.versions)),
                txn |-> TRUE, wrote |-> db = Database(0), stale |-> FALSE,
                saw |-> FALSE, view |-> db])
    /\ UNCHANGED <<started, born, crashes>>

\* The next statement of _migrate.
Execute(p) ==
    /\ Migrating(p) /\ conn[p].pc <= Len(Program)
    /\ LET s      == Program[conn[p].pc]
           exists == s.on \in Seen(p).schema
           to     == [Seen(p) EXCEPT !.schema = @ \cup {s.on}]
       IN \/ /\ s.kind = "look"
             /\ Read(p, [Moved(p) EXCEPT !.saw = exists])
          \/ /\ s.kind = "commit"
             /\ Committed(p, [Moved(p) EXCEPT !.txn = FALSE, !.wrote = FALSE,
                                !.stale = FALSE, !.view = Database(0)])
          \/ /\ \/ s.kind = "create" /\ exists
                \/ s.kind = "add" /\ conn[p].saw
             /\ Read(p, [Moved(p) EXCEPT !.saw = FALSE])
          \/ /\ \/ s.kind = "alter" /\ exists
                \/ s.kind = "add" /\ exists /\ ~conn[p].saw
                \/ s.kind = "version" /\ s.step \in Seen(p).versions
             /\ Fail(p, "duplicate")
          \/ /\ s.kind \in {"create", "alter", "add"} /\ ~exists
             /\ Write(p, to)
          \/ s.kind = "update" /\ Write(p, Seen(p))
          \/ /\ s.kind = "version" /\ s.step \notin Seen(p).versions
             /\ Write(p, [Seen(p) EXCEPT !.versions = @ \cup {s.step}])
    /\ UNCHANGED <<started, born, crashes>>

\* transaction() commits what is still open; the store is ready.
Finish(p) ==
    /\ Migrating(p) /\ conn[p].pc > Len(Program)
    /\ Committed(p, Away("ready"))
    /\ UNCHANGED <<started, born, crashes>>

\* The process is stopped; what was not committed is gone.
Crash(p) ==
    /\ crashes < MaxCrashes /\ conn[p].status \in {"migrating", "ready"}
    /\ crashes' = crashes + 1
    /\ conn' = [conn EXCEPT ![p] = Away("down")]
    /\ UNCHANGED <<started, born, db>>

Forward(p) == Open(p) \/ Execute(p) \/ Finish(p)

Next == \E p \in Processes : Forward(p) \/ Crash(p)

Spec == Init /\ [][Next]_vars

\* A process that is down or failed is started again, one that runs goes on.
FairSpec == Spec /\ \A p \in Processes : WF_vars(Forward(p))

-----------------------------------------------------------------------------
(* Properties.                                                             *)

TypeOK ==
    /\ started \subseteq Processes
    /\ born \in StartVersions
    /\ db.schema \subseteq Objects(SCHEMA_VERSION)
    /\ db.versions \subseteq 1 .. SCHEMA_VERSION
    /\ crashes \in 0 .. MaxCrashes
    /\ \A p \in Processes :
         /\ conn[p].status \in {"down", "migrating", "ready"} \cup Failures
         /\ conn[p].pc \in 0 .. Len(Program) + 1
         /\ conn[p].wrote => conn[p].txn

\* A version that is recorded has its tables and columns, and every older
\* version is recorded too, wherever the migration was interrupted and whoever
\* else ran it: the next start resumes from the newest version alone.
VersionImpliesSchema ==
    \A v \in db.versions : Objects(v) \subseteq db.schema /\ 1 .. v \subseteq db.versions

\* A store that opened is at the newest version, with the whole schema.
ReadyIsCurrent ==
    \A p \in Processes :
       conn[p].status = "ready" =>
          /\ db.versions = 1 .. SCHEMA_VERSION
          /\ db.schema = Objects(SCHEMA_VERSION)

\* A column that is added without a look for it is there and its version is
\* not: the next start fails on the column.
Torn ==
    \E i \in DOMAIN Program :
       /\ Program[i].kind = "alter"
       /\ Program[i].on \in db.schema /\ Program[i].step \notin db.versions

\* The database is left so only by a process that was stopped: two processes
\* that migrate at the same time, one failing on the other, do not.
TornOnlyByCrash ==
    Torn /\ (\A p \in Processes : ~Migrating(p)) => crashes > 0

\* A database of version 5 or later is migrated in one transaction, whatever
\* interrupts it: result_summary and its version appear together.
NewerIsAtomic == born >= 5 => ~Torn

\* With one process, a start fails on nothing else.
FailsOnlyTorn ==
    Cardinality(started) = 1 =>
       \A p \in Processes : conn[p].status \in Failures => Torn

\* Started again as long as they fail, all processes come up in the end, unless
\* the database is torn: <>[]AllReady \/ <>[]Torn.  None waits for the other, and
\* the one that lost a race finds the work done.
AllReady == \A p \in started : conn[p].status = "ready"

=============================================================================
