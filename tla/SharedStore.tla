---------------------------- MODULE SharedStore ----------------------------
(***************************************************************************)
(* How the request threads of one server share the store, for one meeting: *)
(* ingest and revise (app/api/meetings.py, MeetingService) over            *)
(* TenantRepositories.save_meeting_and_enqueue, on the one connection of   *)
(* the SQLite store or on the repositories in memory.                      *)
(*                                                                         *)
(* transaction() holds the lock from BEGIN to COMMIT or ROLLBACK, but the  *)
(* point reads take no lock: a thread reads, on the same connection, what  *)
(* another one's open transaction wrote.  A COMMIT may fail (disk full):   *)
(* SQLite has then rolled back.  SourceRevision has the revisions of the   *)
(* meeting in full, with each transaction as one step.                     *)
(***************************************************************************)
EXTENDS Naturals

CONSTANTS
    Threads,     \* that serve requests
    Backend,     \* "database" or "memory"
    MayFail,     \* whether a COMMIT may fail
    MaxTries,    \* the attempts of revise_meeting
    MaxRequests, \* bound on the requests of a thread
    MaxCrashes   \* bound on the restarts of the server

VARIABLES
    stored,  \* the meeting's revision (0: no row) and its jobs, committed
    tx,      \* the open transaction: what the connection sees; none: {}
    thread,  \* the request of each thread
    acked,   \* history: the revisions that were answered as stored
    crashes

vars == <<stored, tx, thread, acked, crashes>>

Empty     == [rev |-> 0, jobs |-> {}]
Idle(n)   == [pc |-> "idle", op |-> "ingest", rev |-> 0, tries |-> 0, left |-> n]

Init ==
    /\ stored = Empty
    /\ tx = {}
    /\ thread = [t \in Threads |-> Idle(MaxRequests)]
    /\ acked = {}
    /\ crashes = 0

At(t, pc)   == thread[t].pc = pc
Go(t, pc)   == thread' = [thread EXCEPT ![t].pc = pc]
Give(t, r)  == thread' = [thread EXCEPT ![t] = r]
Done(t)     == Give(t, Idle(thread[t].left))

\* What a statement on the connection sees, in a transaction or not.
Connection == IF tx = {} THEN stored ELSE (CHOOSE x \in tx : TRUE).db

Lock(t) == tx' = {[by |-> t, db |-> stored]}
Mine(t) == \E x \in tx : x.by = t
Change(t, db) == tx' = {[by |-> t, db |-> db]}

Answer(t, r) == acked' = acked \cup {r} /\ Done(t)

-----------------------------------------------------------------------------
Send(t) ==
    /\ At(t, "idle") /\ thread[t].left > 0
    /\ \E op \in {"ingest", "revise"} :
          Give(t, [pc |-> "read", op |-> op, rev |-> 0, tries |-> 0,
                   left |-> thread[t].left - 1])
    /\ UNCHANGED <<stored, tx, acked, crashes>>

\* get_by_id, without the lock.  A meeting that is there is not ingested
\* again: its job is enqueued.
Read(t) ==
    /\ At(t, "read")
    /\ LET rev == Connection.rev
           r   == thread[t]
       IN \/ r.op = "ingest" /\ rev = 0 /\ Give(t, [r EXCEPT !.pc = "write", !.rev = 1])
          \/ r.op = "ingest" /\ rev > 0 /\ Give(t, [r EXCEPT !.pc = "enqueue", !.rev = rev])
          \/ r.op = "revise" /\ rev > 0 /\ Give(t, [r EXCEPT !.pc = "write", !.rev = rev + 1])
          \/ r.op = "revise" /\ rev = 0 /\ Done(t)
    /\ UNCHANGED <<stored, tx, acked, crashes>>

-----------------------------------------------------------------------------
(* save_and_enqueue on SQLite.                                             *)

\* BEGIN, with the lock.
Begin(t) ==
    /\ Backend = "database" /\ At(t, "write") /\ tx = {}
    /\ Lock(t) /\ Go(t, "guard")
    /\ UNCHANGED <<stored, acked, crashes>>

\* The row is at an older revision.  (Two meetings of one revision differ in
\* ingested_at.)
Accepts(rev, row) == row < rev

\* The meeting is refused: MeetingConflictError at its own revision, which
\* revise_meeting answers with another turn of its loop, and otherwise
\* StaleJobOwnershipError, which nothing catches.
Refused(t, row) ==
    LET r == thread[t]
    IN IF r.op = "revise" /\ row = r.rev /\ r.tries + 1 < MaxTries
         THEN Give(t, [r EXCEPT !.pc = "read", !.rev = 0, !.tries = @ + 1])
         ELSE Done(t)

\* The guard, and INSERT ... ON CONFLICT DO UPDATE: the row is there for every
\* reader on the connection.
WriteMeeting(t) ==
    /\ At(t, "guard") /\ Mine(t)
    /\ IF Accepts(thread[t].rev, Connection.rev)
         THEN /\ Change(t, [Connection EXCEPT !.rev = thread[t].rev])
              /\ Go(t, "insert")
         ELSE tx' = {} /\ Refused(t, Connection.rev)
    /\ UNCHANGED <<stored, acked, crashes>>

\* Mutant: the transaction writes the meeting alone.
JobsForgotten(jobs, rev) == jobs

\* The job of the revision; its id is made of meeting and revision.
WithJob(jobs, rev) == jobs \cup {rev}

WriteJob(t) ==
    /\ At(t, "insert") /\ Mine(t)
    /\ Change(t, [Connection EXCEPT !.jobs = WithJob(@, thread[t].rev)])
    /\ Go(t, "commit")
    /\ UNCHANGED <<stored, acked, crashes>>

\* What is next when meeting and job are stored.
AfterSave(t) ==
    IF thread[t].op = "ingest" THEN Go(t, "enqueue") /\ UNCHANGED acked
                               ELSE Answer(t, thread[t].rev)

Commit(t) ==
    /\ At(t, "commit") /\ Mine(t)
    /\ stored' = Connection /\ tx' = {}
    /\ AfterSave(t)
    /\ UNCHANGED crashes

\* The exception reaches the client as a server error.
CommitFails(t) ==
    /\ MayFail /\ At(t, "commit") /\ Mine(t)
    /\ tx' = {} /\ Done(t)
    /\ UNCHANGED <<stored, acked, crashes>>

-----------------------------------------------------------------------------
(* The repositories in memory have no save_and_enqueue: save, then enqueue. *)

\* The guard of save.  The class is "thread-unsafe": others run before the
\* assignment.
CheckInMemory(t) ==
    /\ Backend = "memory" /\ At(t, "write")
    /\ IF Accepts(thread[t].rev, stored.rev) THEN Go(t, "put")
                                             ELSE Refused(t, stored.rev)
    /\ UNCHANGED <<stored, tx, acked, crashes>>

SaveInMemory(t) ==
    /\ At(t, "put")
    /\ stored' = [stored EXCEPT !.rev = thread[t].rev]
    /\ Go(t, "fallback")
    /\ UNCHANGED <<tx, acked, crashes>>

\* Mutant: the fallback ends in an error after the save.
FallbackRaises(t) ==
    /\ At(t, "fallback")
    /\ Done(t)
    /\ UNCHANGED <<stored, tx, acked, crashes>>

EnqueueInMemory(t) ==
    /\ At(t, "fallback")
    /\ stored' = [stored EXCEPT !.jobs = WithJob(@, thread[t].rev)]
    /\ AfterSave(t)
    /\ UNCHANGED <<tx, crashes>>

-----------------------------------------------------------------------------
\* Mutant: "the service persists the meeting and the intent together", so the
\* enqueue of the endpoint is dropped.
EnqueueDropped(t) ==
    /\ At(t, "enqueue")
    /\ Answer(t, thread[t].rev)
    /\ UNCHANGED <<stored, tx, crashes>>

\* The enqueue of the ingest endpoint, a transaction of its own: it waits for
\* the lock.
EnqueueAgain(t) ==
    /\ At(t, "enqueue") /\ tx = {}
    /\ \/ /\ stored' = [stored EXCEPT !.jobs = WithJob(@, thread[t].rev)]
          /\ Answer(t, thread[t].rev)
       \/ MayFail /\ Done(t) /\ UNCHANGED <<stored, acked>>
    /\ UNCHANGED <<tx, crashes>>

\* The server is restarted.
Crash ==
    /\ Backend = "database" /\ crashes < MaxCrashes
    /\ crashes' = crashes + 1
    /\ tx' = {}
    /\ thread' = [t \in Threads |-> Idle(thread[t].left)]
    /\ UNCHANGED <<stored, acked>>

Step(t) ==
    \/ Read(t) \/ Begin(t) \/ WriteMeeting(t) \/ WriteJob(t) \/ Commit(t)
    \/ CheckInMemory(t) \/ SaveInMemory(t) \/ EnqueueInMemory(t) \/ EnqueueAgain(t)

Next == Crash \/ \E t \in Threads : Send(t) \/ CommitFails(t) \/ Step(t)

Spec == Init /\ [][Next]_vars

\* A thread that serves a request goes on.
FairSpec == Spec /\ \A t \in Threads : WF_vars(Step(t))

-----------------------------------------------------------------------------
(* Properties.                                                             *)

TypeOK ==
    /\ stored.rev \in Nat /\ stored.jobs \subseteq Nat \ {0}
    /\ \A x, y \in tx : x = y
    /\ \A t \in Threads : thread[t].pc \in {"guard", "insert", "commit"} <=> Mine(t)
    /\ acked \subseteq Nat \ {0}

\* "creates authoritative source revision 1 and its durably tied processing
\* revision": a revision that a client was told of is in the database, though
\* the answer may rest on a read of another thread's open transaction and the
\* server may stop at any point.
AckedIsStored == \A r \in acked : r <= stored.rev /\ r \in stored.jobs

\* The meeting in the database has the job of its revision, over restarts and
\* transactions that fail.
CurrentHasJob == stored.rev > 0 => stored.rev \in stored.jobs

\* Of every step.  No write, whatever revision it was built from, takes the meeting back.
RevisionNeverFalls == stored'.rev >= stored.rev

\* In memory, a client was told of a revision only when its job is there, ...
AckedHasJob == acked \subseteq stored.jobs

\* ... and the revisions that were saved get theirs: []<>NoneOwed.
NoneOwed == 1 .. stored.rev \subseteq stored.jobs

=============================================================================
