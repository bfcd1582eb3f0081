------------------------- MODULE SharedStoreProofs -------------------------
(***************************************************************************)
(* Theorems about SharedStore, for any threads, tries, numbers of requests *)
(* and of restarts: what a client was told of is stored though the reads   *)
(* are dirty, the meeting has its job though transactions fail, and the    *)
(* store implements MeetingLog as long as no COMMIT fails.                 *)
(***************************************************************************)
EXTENDS SharedStore, TLAPS

Row    == [rev : Nat, jobs : SUBSET (Nat \ {0})]
InTx   == {"guard", "insert", "commit"}
Thread == [pc : InTx \cup {"idle", "read", "write", "put", "fallback", "enqueue"},
           op : {"ingest", "revise"}, rev : Nat, tries : Nat, left : Nat]

\* A request that has read the store carries a revision; the steps of a
\* transaction, and those of the repositories in memory, are of one backend.
RequestOK(r) ==
    /\ r \in Thread
    /\ r.pc \notin {"idle", "read"} => r.rev > 0
    /\ r.pc \in InTx => Backend = "database"
    /\ r.pc \in {"put", "fallback"} => Backend = "memory"

\* What the transaction of request r has written over row s, step by step.
\* The row was older when it was compared, and nobody has written it since.
Written(r, s, db) ==
    /\ r.pc = "guard" => db = s
    /\ r.pc # "guard" => s.rev < r.rev
    /\ r.pc = "insert" => db = [rev |-> r.rev, jobs |-> s.jobs]
    /\ r.pc = "commit" => db = [rev |-> r.rev, jobs |-> s.jobs \cup {r.rev}]

\* Exactly the thread that holds the lock is between BEGIN and COMMIT.
Locked(t, s, x, th) ==
    /\ \A u \in Threads : th[u].pc \in InTx <=> u = t
    /\ \E y \in x : /\ x = {y} /\ y \in [by : {t}, db : Row]
                    /\ Written(th[t], s, y.db)

Unlocked(x, th) == x = {} /\ \A u \in Threads : th[u].pc \notin InTx

\* The parts of the invariant, for any failures and either backend.
Rows == stored \in Row /\ acked \subseteq Nat \ {0} /\ AckedHasJob
Reqs ==
    /\ thread \in [Threads -> Thread]
    /\ \A t \in Threads : RequestOK(thread[t])
Locking == Unlocked(tx, thread) \/ \E t \in Threads : Locked(t, stored, tx, thread)
Owed == Backend = "database" => CurrentHasJob

IInv == Rows /\ Reqs /\ Locking /\ Owed

\* With reads of open transactions, on the database, without failures: no
\* request is more than one revision ahead of what the connection shows, and
\* an enqueue is of a revision that it shows.
Near(r, n) ==
    /\ r.pc \in {"write", "guard"} => r.rev <= n + 1
    /\ r.pc = "enqueue" => r.rev <= n

NInv ==
    /\ 1 .. stored.rev \subseteq stored.jobs
    /\ \A r \in acked : r <= stored.rev
    /\ \A t \in Threads : Near(thread[t], Connection.rev)
    /\ \A t \in Threads : thread[t].pc \in {"insert", "commit"} => thread[t].rev = stored.rev + 1

-----------------------------------------------------------------------------
(* What the operators of SharedStore amount to.                            *)

\* A statement on the connection sees the store, or the one open transaction.
LEMMA ConnectionSees ==
  /\ tx = {} => Connection = stored
  /\ \A y : tx = {y} => Connection = y.db
<1>1. ASSUME NEW y PROVE (CHOOSE x \in {y} : TRUE) = y
  <2>1. (CHOOSE x \in {y} : TRUE) \in {y}
    BY Zenon
  <2> QED
    BY <2>1
<1>2. ASSUME NEW y, tx = {y} PROVE Connection = y.db
  <2>1. tx # {}
    BY <1>2
  <2> QED
    BY <1>1, <1>2, <2>1, Zenon DEF Connection
<1> QED
  BY <1>2 DEF Connection

\* A request that is done leaves an idle thread.
LEMMA IdleOK ==
  ASSUME NEW n \in Nat
  PROVE  Idle(n).pc = "idle" /\ RequestOK(Idle(n))
  BY DEF Idle, RequestOK, Thread, InTx

\* A refused write is read again or is over, and no transaction is open.
LEMMA RefusedOK ==
  ASSUME NEW t \in Threads, NEW row, RequestOK(thread[t]), Refused(t, row)
  PROVE  \E r : /\ thread' = [thread EXCEPT ![t] = r]
                /\ RequestOK(r) /\ r.pc \in {"read", "idle"}
<1>1. CASE Done(t)
  BY <1>1, IdleOK DEF Done, Give, RequestOK, Thread
<1>2. CASE Give(t, [thread[t] EXCEPT !.pc = "read", !.rev = 0, !.tries = @ + 1])
  <2> DEFINE n == thread[t].tries + 1
             r == [thread[t] EXCEPT !.pc = "read", !.rev = 0, !.tries = n]
  <2>0. n \in Nat
    BY DEF RequestOK, Thread
  <2> HIDE DEF n
  <2>1. r.pc = "read" /\ r \in Thread
    BY <2>0 DEF RequestOK, Thread
  <2> HIDE DEF r
  <2>2. RequestOK(r)
    BY <2>1 DEF RequestOK, InTx
  <2>3. thread' = [thread EXCEPT ![t] = r]
    BY <1>2 DEF Give, r, n
  <2> QED
    BY <2>1, <2>2, <2>3
<1> QED
  BY <1>1, <1>2 DEF Refused

\* The same request at another step.
LEMMA GoOK ==
  ASSUME NEW t \in Threads, Reqs, NEW pc \in InTx \cup {"put", "fallback", "enqueue"},
         Go(t, pc), thread[t].rev > 0,
         pc \in InTx => Backend = "database",
         pc \in {"put", "fallback"} => Backend = "memory"
  PROVE  \E r : /\ thread' = [thread EXCEPT ![t] = r]
                /\ RequestOK(r) /\ r.pc = pc /\ r.rev = thread[t].rev
                /\ r.op = thread[t].op
<1> DEFINE r == [thread[t] EXCEPT !.pc = pc]
<1>1. r \in Thread /\ r.pc = pc /\ r.rev = thread[t].rev /\ r.op = thread[t].op
  BY DEF Reqs, Thread, InTx
<1>2. thread' = [thread EXCEPT ![t] = r]
  BY DEF Go, Reqs
<1> HIDE DEF r
<1>3. RequestOK(r)
  BY <1>1 DEF RequestOK, InTx
<1> QED
  BY <1>1, <1>2, <1>3

\* One request moves and the others keep theirs.
LEMMA OneMoves ==
  ASSUME Reqs, NEW t \in Threads, NEW r, RequestOK(r),
         thread' = [thread EXCEPT ![t] = r]
  PROVE  /\ Reqs'
         /\ thread'[t] = r
         /\ \A u \in Threads : u # t => thread'[u] = thread[u]
  BY DEF Reqs, RequestOK

-----------------------------------------------------------------------------
(* The invariant is inductive.                                             *)

\* A step outside of the transactions may write the store only when none is
\* open.
LEMMA OutsideStep ==
  ASSUME IInv, NEW t \in Threads, NEW r, RequestOK(r),
         thread' = [thread EXCEPT ![t] = r],
         thread[t].pc \notin InTx, r.pc \notin InTx,
         tx' = tx, stored' = stored \/ tx = {}
  PROVE  Reqs' /\ Locking'
<1>1. /\ Reqs' /\ thread'[t] = r
      /\ \A u \in Threads : u # t => thread'[u] = thread[u]
  BY OneMoves DEF IInv
<1>2. \A u \in Threads : thread'[u].pc \in InTx <=> thread[u].pc \in InTx
  BY <1>1
<1>3. CASE Unlocked(tx, thread)
  BY <1>1, <1>2, <1>3 DEF Locking, Unlocked
<1>4. CASE \E o \in Threads : Locked(o, stored, tx, thread)
  <2>1. PICK o \in Threads : Locked(o, stored, tx, thread)
    BY <1>4
  <2>2. o # t /\ tx # {} /\ stored' = stored
    BY <2>1 DEF Locked
  <2>3. thread'[o] = thread[o]
    BY <1>1, <2>2
  <2>4. Locked(o, stored', tx', thread')
    BY <1>2, <2>1, <2>2, <2>3 DEF Locked
  <2> QED
    BY <1>1, <2>4 DEF Locking
<1> QED
  BY <1>3, <1>4 DEF IInv, Locking

\* The thread that is in a transaction holds the lock.
LEMMA HoldsLock ==
  ASSUME IInv, NEW t \in Threads, thread[t].pc \in InTx
  PROVE  /\ Backend = "database"
         /\ Connection \in Row
         /\ tx = {[by |-> t, db |-> Connection]}
         /\ \A u \in Threads : thread[u].pc \in InTx <=> u = t
         /\ Written(thread[t], stored, Connection)
<1>1. PICK o \in Threads : Locked(o, stored, tx, thread)
  BY DEF IInv, Locking, Unlocked
<1>2. o = t /\ \A u \in Threads : thread[u].pc \in InTx <=> u = t
  BY <1>1 DEF Locked
<1>3. PICK y \in tx : tx = {y} /\ y \in [by : {t}, db : Row] /\ Written(thread[t], stored, y.db)
  BY <1>1, <1>2 DEF Locked
<1>4. Connection = y.db
  BY <1>3, ConnectionSees
<1>5. y = [by |-> t, db |-> y.db] /\ y.db \in Row
  BY <1>3
<1>6. Backend = "database"
  BY DEF IInv, Reqs, RequestOK
<1> QED
  BY <1>2, <1>3, <1>4, <1>5, <1>6

\* A step inside a transaction that leaves it open.
LEMMA InsideStep ==
  ASSUME IInv, NEW t \in Threads, thread[t].pc \in InTx, NEW r, RequestOK(r),
         thread' = [thread EXCEPT ![t] = r], r.pc \in InTx,
         NEW db \in Row, Change(t, db), stored' = stored,
         Written(r, stored, db)
  PROVE  Reqs' /\ Locking'
<1>1. /\ Reqs' /\ thread'[t] = r
      /\ \A u \in Threads : u # t => thread'[u] = thread[u]
  BY OneMoves DEF IInv
<1>2. \A u \in Threads : thread'[u].pc \in InTx <=> u = t
  BY <1>1, HoldsLock
<1>3. Locked(t, stored', tx', thread')
  <2> DEFINE y == [by |-> t, db |-> db]
  <2>1. y \in [by : {t}, db : Row] /\ y.db = db /\ tx' = {y}
    BY DEF Change
  <2> HIDE DEF y
  <2> QED
    BY <1>1, <1>2, <2>1 DEF Locked
<1> QED
  BY <1>1, <1>3 DEF Locking

\* A step that ends a transaction.
LEMMA EndStep ==
  ASSUME IInv, NEW t \in Threads, thread[t].pc \in InTx, NEW r, RequestOK(r),
         thread' = [thread EXCEPT ![t] = r], r.pc \notin InTx, tx' = {}
  PROVE  Reqs' /\ Locking'
<1>1. /\ Reqs' /\ thread'[t] = r
      /\ \A u \in Threads : u # t => thread'[u] = thread[u]
  BY OneMoves DEF IInv
<1>2. \A u \in Threads : thread'[u].pc \notin InTx
  BY <1>1, HoldsLock
<1> QED
  BY <1>1, <1>2 DEF Locking, Unlocked

\* The steps outside of a transaction that leave the store alone.
LEMMA QuietStep ==
  ASSUME IInv, NEW t \in Threads, Send(t) \/ Read(t) \/ CheckInMemory(t)
  PROVE  IInv' /\ UNCHANGED stored
<1>0. /\ thread[t] \in Thread /\ RequestOK(thread[t]) /\ thread \in [Threads -> Thread]
      /\ stored \in Row /\ thread[t].pc \notin InTx
      /\ UNCHANGED <<stored, tx, acked>>
  BY DEF IInv, Reqs, Rows, Send, Read, CheckInMemory, At, InTx
<1> SUFFICES \E r : /\ thread' = [thread EXCEPT ![t] = r]
                   /\ RequestOK(r) /\ r.pc \notin InTx
  <2>1. Reqs' /\ Locking'
    BY <1>0, OutsideStep
  <2>2. Rows' /\ Owed'
    BY <1>0 DEF IInv, Rows, Owed, AckedHasJob, CurrentHasJob
  <2> QED
    BY <1>0, <2>1, <2>2 DEF IInv
<1>1. CASE Send(t)
  <2>1. PICK op \in {"ingest", "revise"} :
           Give(t, [pc |-> "read", op |-> op, rev |-> 0, tries |-> 0,
                    left |-> thread[t].left - 1])
    BY <1>1 DEF Send
  <2> DEFINE r == [pc |-> "read", op |-> op, rev |-> 0, tries |-> 0,
                   left |-> thread[t].left - 1]
  <2>2. thread[t].left - 1 \in Nat
    BY <1>0, <1>1 DEF Send, Thread
  <2>3. RequestOK(r) /\ r.pc \notin InTx
    BY <2>2 DEF RequestOK, Thread, InTx
  <2> QED
    BY <2>1, <2>3 DEF Give
<1>2. CASE Read(t)
  <2> DEFINE n == Connection.rev
  <2>1. n \in Nat
    <3>1. CASE tx = {}
      BY <1>0, <3>1, ConnectionSees DEF Row
    <3>2. CASE tx # {}
      <4>1. PICK o \in Threads : Locked(o, stored, tx, thread)
        BY <3>2 DEF IInv, Locking, Unlocked
      <4> QED
        BY <4>1, ConnectionSees DEF Locked, Row
    <3> QED
      BY <3>1, <3>2
  <2> HIDE DEF n
  <2>2. ASSUME NEW m \in Nat \ {0}, NEW pc \in {"write", "enqueue"},
               Give(t, [thread[t] EXCEPT !.pc = pc, !.rev = m])
        PROVE  \E r : /\ thread' = [thread EXCEPT ![t] = r]
                      /\ RequestOK(r) /\ r.pc \notin InTx
    <3> DEFINE r == [thread[t] EXCEPT !.pc = pc, !.rev = m]
    <3>1. r \in Thread /\ r.pc = pc /\ r.rev = m
      BY <1>0 DEF Thread
    <3>2. thread' = [thread EXCEPT ![t] = r]
      BY <2>2 DEF Give
    <3> HIDE DEF r
    <3>3. RequestOK(r) /\ r.pc \notin InTx
      BY <3>1 DEF RequestOK, InTx
    <3> QED
      BY <3>2, <3>3
  <2>3. \/ n > 0 /\ Give(t, [thread[t] EXCEPT !.pc = "enqueue", !.rev = n])
        \/ n > 0 /\ Give(t, [thread[t] EXCEPT !.pc = "write", !.rev = n + 1])
        \/ Give(t, [thread[t] EXCEPT !.pc = "write", !.rev = 1])
        \/ Done(t)
    BY <1>2 DEF Read, n
  <2>4. CASE n > 0 /\ Give(t, [thread[t] EXCEPT !.pc = "enqueue", !.rev = n])
    <3>1. n \in Nat \ {0}
      BY <2>1, <2>4
    <3> QED
      BY <2>2, <2>4, <3>1
  <2>5. CASE n > 0 /\ Give(t, [thread[t] EXCEPT !.pc = "write", !.rev = n + 1])
    <3>1. n + 1 \in Nat \ {0}
      BY <2>1, <2>5
    <3> QED
      BY <2>2, <2>5, <3>1
  <2>6. CASE Give(t, [thread[t] EXCEPT !.pc = "write", !.rev = 1])
    <3>1. 1 \in Nat \ {0}
      OBVIOUS
    <3> QED
      BY <2>2, <2>6, <3>1
  <2>7. CASE Done(t)
    BY <1>0, <2>7, IdleOK DEF Done, Give, Thread, InTx
  <2> QED
    BY <2>3, <2>4, <2>5, <2>6, <2>7
<1>3. CASE CheckInMemory(t)
  <2>1. CASE Go(t, "put")
    <3>1. thread[t].rev > 0 /\ Backend = "memory"
      BY <1>0, <1>3 DEF CheckInMemory, At, RequestOK
    <3> QED
      BY <2>1, <3>1, GoOK DEF IInv, InTx
  <2>2. CASE Refused(t, stored.rev)
    BY <1>0, <2>2, RefusedOK DEF InTx
  <2> QED
    BY <1>3, <2>1, <2>2 DEF CheckInMemory
<1> QED
  BY <1>1, <1>2, <1>3

\* The repositories in memory have no transaction.
LEMMA NoTxInMemory ==
  ASSUME IInv, Backend # "database"
  PROVE  tx = {}
  BY DEF IInv, Locking, Locked, Unlocked, Reqs, RequestOK

\* In memory the meeting is written, and its job in a step of its own.
LEMMA MemoryStep ==
  ASSUME IInv, NEW t \in Threads, SaveInMemory(t) \/ EnqueueInMemory(t)
  PROVE  IInv' /\ Backend # "database"
<1>0. /\ thread[t] \in Thread /\ RequestOK(thread[t]) /\ thread \in [Threads -> Thread]
      /\ stored \in Row /\ thread[t].pc \in {"put", "fallback"} /\ tx' = tx
      /\ thread[t].rev \in Nat \ {0}
      /\ Backend = "memory" /\ tx = {}
  BY NoTxInMemory DEF IInv, Reqs, Rows, SaveInMemory, EnqueueInMemory, At, RequestOK, Thread
<1>1. CASE SaveInMemory(t)
  <2>1. PICK r : thread' = [thread EXCEPT ![t] = r] /\ RequestOK(r) /\ r.pc = "fallback"
    BY <1>0, <1>1, GoOK DEF SaveInMemory, IInv, InTx
  <2>2. Reqs' /\ Locking'
    BY <1>0, <2>1, OutsideStep DEF InTx
  <2>3. Rows'
    BY <1>0, <1>1 DEF SaveInMemory, IInv, Rows, AckedHasJob, Row
  <2> QED
    BY <1>0, <2>2, <2>3 DEF IInv, Owed
<1>2. CASE EnqueueInMemory(t)
  <2>1. \E r : thread' = [thread EXCEPT ![t] = r] /\ RequestOK(r) /\ r.pc \in {"idle", "enqueue"}
    <3>1. CASE Go(t, "enqueue")
      BY <1>0, <3>1, GoOK DEF IInv, InTx
    <3>2. CASE Done(t)
      BY <1>0, <3>2, IdleOK DEF Done, Give, Thread
    <3> QED
      BY <1>2, <3>1, <3>2 DEF EnqueueInMemory, AfterSave, Answer
  <2>2. Reqs' /\ Locking'
    BY <1>0, <2>1, OutsideStep DEF InTx
  <2>3. Rows'
    <3>1. stored' = [stored EXCEPT !.jobs = @ \cup {thread[t].rev}]
      BY <1>2 DEF EnqueueInMemory, WithJob
    <3>2. stored' \in Row /\ stored'.jobs = stored.jobs \cup {thread[t].rev}
      BY <1>0, <3>1 DEF Row
    <3>3. acked' = acked \/ acked' = acked \cup {thread[t].rev}
      BY <1>2 DEF EnqueueInMemory, AfterSave, Answer
    <3> QED
      BY <1>0, <3>2, <3>3 DEF IInv, Rows, AckedHasJob
  <2> QED
    BY <1>0, <2>2, <2>3 DEF IInv, Owed
<1> QED
  BY <1>0, <1>1, <1>2

\* An enqueue of its own adds the job of the answer.
LEMMA EnqueueStep ==
  ASSUME IInv, NEW t \in Threads, EnqueueAgain(t)
  PROVE  IInv' /\ stored'.rev = stored.rev
<1>0. /\ thread[t] \in Thread /\ RequestOK(thread[t]) /\ thread \in [Threads -> Thread]
      /\ stored \in Row /\ thread[t].pc = "enqueue" /\ tx' = tx /\ tx = {}
      /\ thread[t].rev \in Nat \ {0}
  BY DEF IInv, Reqs, Rows, EnqueueAgain, At, RequestOK, Thread
<1>1. Done(t)
  BY DEF EnqueueAgain, Answer
<1>2. Reqs' /\ Locking'
  BY <1>0, <1>1, IdleOK, OutsideStep DEF Done, Give, Thread, InTx
<1>3. CASE UNCHANGED <<stored, acked>>
  BY <1>2, <1>3 DEF IInv, Rows, Owed, AckedHasJob, CurrentHasJob
<1>4. CASE /\ stored' = [stored EXCEPT !.jobs = WithJob(@, thread[t].rev)]
           /\ acked' = acked \cup {thread[t].rev}
  <2>1. /\ stored' \in Row /\ stored'.jobs = stored.jobs \cup {thread[t].rev}
        /\ stored'.rev = stored.rev
    BY <1>0, <1>4 DEF Row, WithJob
  <2>2. Rows' /\ Owed'
    BY <1>0, <1>4, <2>1 DEF IInv, Rows, Owed, AckedHasJob, CurrentHasJob
  <2> QED
    BY <1>2, <2>1, <2>2 DEF IInv
<1> QED
  BY <1>3, <1>4 DEF EnqueueAgain, Answer

\* BEGIN finds no transaction open, and what it sees is the store.
LEMMA BeginStep ==
  ASSUME IInv, NEW t \in Threads, Begin(t)
  PROVE  IInv' /\ UNCHANGED stored
<1>0. /\ thread[t].pc = "write" /\ thread[t].rev > 0 /\ Backend = "database"
      /\ tx = {} /\ stored \in Row /\ UNCHANGED <<stored, acked>>
  BY DEF IInv, Reqs, Rows, Begin, At, RequestOK, InTx
<1>1. PICK r : thread' = [thread EXCEPT ![t] = r] /\ RequestOK(r) /\ r.pc = "guard"
  BY <1>0, GoOK DEF Begin, IInv, InTx
<1>2. /\ Reqs' /\ thread'[t] = r
      /\ \A u \in Threads : u # t => thread'[u] = thread[u]
  BY <1>1, OneMoves DEF IInv
<1>3. \A u \in Threads : thread[u].pc \notin InTx
  BY <1>0 DEF IInv, Locking, Unlocked, Locked
<1>4. Locked(t, stored', tx', thread')
  <2> DEFINE y == [by |-> t, db |-> stored]
  <2>1. y \in [by : {t}, db : Row] /\ y.db = stored /\ tx' = {y}
    BY <1>0 DEF Begin, Lock
  <2> HIDE DEF y
  <2>2. Written(r, stored, stored)
    BY <1>1 DEF Written
  <2> QED
    BY <1>0, <1>1, <1>2, <1>3, <2>1, <2>2 DEF Locked, InTx
<1>5. Rows' /\ Owed'
  BY <1>0 DEF IInv, Rows, Owed, AckedHasJob, CurrentHasJob
<1> QED
  BY <1>0, <1>2, <1>4, <1>5 DEF IInv, Locking

\* The guard and the two writes of the transaction do not reach the store.
LEMMA WriteStep ==
  ASSUME IInv, NEW t \in Threads, WriteMeeting(t) \/ WriteJob(t)
  PROVE  IInv' /\ UNCHANGED stored
<1>0. /\ thread[t] \in Thread /\ RequestOK(thread[t]) /\ thread[t].pc \in {"guard", "insert"}
      /\ thread[t].rev \in Nat \ {0} /\ stored \in Row
      /\ UNCHANGED <<stored, acked>>
  BY DEF IInv, Reqs, Rows, WriteMeeting, WriteJob, At, RequestOK, InTx, Thread
<1>1. /\ Backend = "database" /\ Connection \in Row
      /\ Written(thread[t], stored, Connection)
  BY <1>0, HoldsLock DEF InTx
<1>2. Rows' /\ Owed'
  BY <1>0 DEF IInv, Rows, Owed, AckedHasJob, CurrentHasJob
<1> DEFINE n == thread[t].rev
<1>3. CASE WriteMeeting(t) /\ Accepts(n, Connection.rev)
  <2>1. PICK r : /\ thread' = [thread EXCEPT ![t] = r] /\ RequestOK(r)
                 /\ r.pc = "insert" /\ r.rev = n
    BY <1>0, <1>1, <1>3, GoOK DEF WriteMeeting, IInv, InTx
  <2> DEFINE db == [Connection EXCEPT !.rev = n]
  <2>2. Change(t, db) /\ Connection = stored /\ stored.rev < n
    BY <1>1, <1>3 DEF WriteMeeting, At, Written, Accepts
  <2>3. db \in Row /\ db = [rev |-> n, jobs |-> stored.jobs]
    BY <1>0, <2>2 DEF Row
  <2> HIDE DEF db
  <2>4. Written(r, stored, db)
    BY <2>1, <2>2, <2>3 DEF Written
  <2>5. Reqs' /\ Locking'
    BY <1>0, <2>1, <2>2, <2>3, <2>4, InsideStep DEF InTx
  <2> QED
    BY <1>0, <1>2, <2>5 DEF IInv
<1>4. CASE WriteMeeting(t) /\ ~Accepts(n, Connection.rev)
  <2>1. tx' = {} /\ Refused(t, Connection.rev)
    BY <1>4 DEF WriteMeeting
  <2>2. PICK r : /\ thread' = [thread EXCEPT ![t] = r]
                 /\ RequestOK(r) /\ r.pc \in {"read", "idle"}
    BY <1>0, <2>1, RefusedOK
  <2>3. Reqs' /\ Locking'
    BY <1>0, <2>1, <2>2, EndStep DEF InTx
  <2> QED
    BY <1>0, <1>2, <2>3 DEF IInv
<1>5. CASE WriteJob(t)
  <2>1. PICK r : /\ thread' = [thread EXCEPT ![t] = r] /\ RequestOK(r)
                 /\ r.pc = "commit" /\ r.rev = n
    BY <1>0, <1>1, <1>5, GoOK DEF WriteJob, IInv, InTx
  <2> DEFINE db == [Connection EXCEPT !.jobs = @ \cup {n}]
  <2>2. /\ Change(t, db) /\ Connection = [rev |-> n, jobs |-> stored.jobs]
        /\ stored.rev < n
    BY <1>1, <1>5 DEF WriteJob, At, Written, WithJob
  <2>3. db \in Row /\ db = [rev |-> n, jobs |-> stored.jobs \cup {n}]
    <3> DEFINE js == stored.jobs \cup {n}
    <3>1. js \in SUBSET (Nat \ {0})
      BY <1>0 DEF Row
    <3>2. db = [Connection EXCEPT !.jobs = js]
      BY <2>2
    <3> HIDE DEF js, db
    <3>3. db = [rev |-> n, jobs |-> js]
      BY <2>2, <3>2
    <3>4. db \in Row
      BY <1>0, <3>1, <3>3 DEF Row
    <3> QED
      BY <3>3, <3>4 DEF js
  <2> HIDE DEF db
  <2>4. Written(r, stored, db)
    BY <2>1, <2>2, <2>3 DEF Written
  <2>5. Reqs' /\ Locking'
    BY <1>0, <2>1, <2>2, <2>3, <2>4, InsideStep DEF InTx
  <2> QED
    BY <1>0, <1>2, <2>5 DEF IInv
<1> QED
  BY <1>3, <1>4, <1>5

\* A COMMIT stores a newer revision and its job, and the client is told of no
\* other one; a COMMIT that fails stores nothing.
LEMMA CommitStep ==
  ASSUME IInv, NEW t \in Threads, Commit(t)
  PROVE  /\ IInv'
         /\ stored.rev < thread[t].rev
         /\ stored' = [rev |-> thread[t].rev, jobs |-> stored.jobs \cup {thread[t].rev}]
<1> DEFINE n == thread[t].rev
<1>0. /\ thread[t] \in Thread /\ RequestOK(thread[t]) /\ thread[t].pc = "commit"
      /\ n \in Nat \ {0} /\ stored \in Row /\ tx' = {}
  BY DEF IInv, Reqs, Rows, Commit, At, RequestOK, InTx, Thread
<1>1. stored' = [rev |-> n, jobs |-> stored.jobs \cup {n}] /\ stored.rev < n
  BY <1>0, HoldsLock DEF InTx, Commit, Written
<1>2. \E r : thread' = [thread EXCEPT ![t] = r] /\ RequestOK(r) /\ r.pc \in {"idle", "enqueue"}
  <2>1. CASE Go(t, "enqueue")
    BY <1>0, <2>1, GoOK DEF IInv, InTx
  <2>2. CASE Done(t)
    BY <1>0, <2>2, IdleOK DEF Done, Give, Thread
  <2> QED
    BY <2>1, <2>2 DEF Commit, AfterSave, Answer
<1>3. Reqs' /\ Locking'
  BY <1>0, <1>2, EndStep DEF InTx
<1>4. acked' = acked \/ acked' = acked \cup {n}
  BY DEF Commit, AfterSave, Answer
<1>5. stored' \in Row /\ stored'.rev = n /\ stored'.jobs = stored.jobs \cup {n}
  BY <1>0, <1>1 DEF Row
<1>6. Rows' /\ Owed'
  BY <1>0, <1>4, <1>5 DEF IInv, Rows, Owed, AckedHasJob, CurrentHasJob
<1> QED
  BY <1>1, <1>3, <1>6 DEF IInv

LEMMA FailStep ==
  ASSUME IInv, NEW t \in Threads, CommitFails(t)
  PROVE  IInv' /\ UNCHANGED stored
<1>1. /\ thread[t] \in Thread /\ thread[t].pc = "commit" /\ tx' = {} /\ Done(t)
      /\ UNCHANGED <<stored, acked>>
  BY DEF IInv, Reqs, CommitFails, At
<1>2. Reqs' /\ Locking'
  BY <1>1, IdleOK, EndStep DEF Done, Give, Thread, InTx
<1>3. Rows' /\ Owed'
  BY <1>1 DEF IInv, Rows, Owed, AckedHasJob, CurrentHasJob
<1> QED
  BY <1>1, <1>2, <1>3 DEF IInv

\* A restart forgets the requests and what was not committed.
LEMMA CrashStep ==
  ASSUME IInv, Crash
  PROVE  IInv' /\ UNCHANGED stored
<1>1. \A t \in Threads : /\ Idle(thread[t].left).pc = "idle"
                         /\ RequestOK(Idle(thread[t].left))
  BY IdleOK DEF IInv, Reqs, Thread
<1>2. /\ thread' = [t \in Threads |-> Idle(thread[t].left)] /\ tx' = {}
      /\ UNCHANGED <<stored, acked>>
  BY DEF Crash
<1>3. Reqs' /\ Locking'
  BY <1>1, <1>2 DEF Reqs, RequestOK, Locking, Unlocked, InTx
<1>4. Rows' /\ Owed'
  BY <1>2 DEF IInv, Rows, Owed, AckedHasJob, CurrentHasJob
<1> QED
  BY <1>2, <1>3, <1>4 DEF IInv

-----------------------------------------------------------------------------
\* It holds of an empty store and idle threads.
LEMMA InitHolds ==
  ASSUME MaxRequests \in Nat
  PROVE  Init => IInv
<1> SUFFICES ASSUME Init PROVE IInv
  OBVIOUS
<1>1. RequestOK(Idle(MaxRequests)) /\ Idle(MaxRequests).pc = "idle"
  BY IdleOK
<1>2. Reqs /\ Locking
  BY <1>1 DEF Init, Reqs, RequestOK, Locking, Unlocked, InTx
<1>3. Rows /\ Owed
  BY DEF Init, Empty, Rows, Row, Owed, AckedHasJob, CurrentHasJob
<1> QED
  BY <1>2, <1>3 DEF IInv

\* Every step keeps it, and on the database never takes the meeting back.
LEMMA StepHolds ==
  ASSUME IInv, [Next]_vars
  PROVE  IInv' /\ (Backend = "database" => RevisionNeverFalls)
<1>0. stored.rev \in Nat
  BY DEF IInv, Rows, Row
<1>1. CASE UNCHANGED vars
  BY <1>0, <1>1 DEF vars, IInv, Rows, Reqs, Locking, Locked, Unlocked, Owed, AckedHasJob,
                    CurrentHasJob, RevisionNeverFalls
<1>2. CASE Crash
  BY <1>0, <1>2, CrashStep DEF RevisionNeverFalls
<1>3. ASSUME NEW t \in Threads,
             \/ Send(t) \/ Read(t) \/ CheckInMemory(t) \/ Begin(t) \/ WriteMeeting(t)
             \/ WriteJob(t) \/ CommitFails(t)
      PROVE  IInv' /\ RevisionNeverFalls
  BY <1>0, <1>3, QuietStep, BeginStep, WriteStep, FailStep DEF RevisionNeverFalls
<1>4. ASSUME NEW t \in Threads, SaveInMemory(t) \/ EnqueueInMemory(t)
      PROVE  IInv' /\ Backend # "database"
  BY <1>4, MemoryStep
<1>5. ASSUME NEW t \in Threads, EnqueueAgain(t)
      PROVE  IInv' /\ RevisionNeverFalls
  BY <1>0, <1>5, EnqueueStep DEF RevisionNeverFalls
<1>6. ASSUME NEW t \in Threads, Commit(t)
      PROVE  IInv' /\ RevisionNeverFalls
  <2>1. thread[t].rev \in Nat
    BY DEF IInv, Reqs, Thread
  <2> QED
    BY <1>0, <1>6, <2>1, CommitStep DEF RevisionNeverFalls
<1> QED
  BY <1>1, <1>2, <1>3, <1>4, <1>5, <1>6 DEF Next, Step

\* The invariant gives the type invariant.
LEMMA TypesHold == IInv => TypeOK
<1> SUFFICES ASSUME IInv PROVE TypeOK
  OBVIOUS
<1>1. \A t \in Threads : thread[t].pc \in InTx <=> Mine(t)
  BY DEF IInv, Locking, Locked, Unlocked, Mine
<1>2. \A x, y \in tx : x = y
  BY DEF IInv, Locking, Locked, Unlocked
<1> QED
  BY <1>1, <1>2 DEF IInv, Rows, Row, TypeOK, InTx

\* The invariant holds in every reachable state.
THEOREM Invariant ==
  ASSUME MaxRequests \in Nat
  PROVE  Spec => []IInv
<1>1. IInv /\ [Next]_vars => IInv'
  BY StepHolds
<1> QED
  BY <1>1, InitHolds, PTL DEF Spec

\* Every variable has its type, and a thread is between BEGIN and COMMIT
\* exactly when it holds the lock.
THEOREM TypeCorrect ==
  ASSUME MaxRequests \in Nat
  PROVE  Spec => []TypeOK
  BY Invariant, TypesHold, PTL

\* On the database the meeting has the job of its revision, over restarts and
\* transactions that fail.
THEOREM JobOfCurrent ==
  ASSUME MaxRequests \in Nat, Backend = "database"
  PROVE  Spec => []CurrentHasJob
<1>1. IInv => CurrentHasJob
  BY DEF IInv, Owed
<1> QED
  BY <1>1, Invariant, PTL

\* On the database no write takes the meeting back to an older revision.
THEOREM NeverBack ==
  ASSUME MaxRequests \in Nat, Backend = "database"
  PROVE  Spec => [][RevisionNeverFalls]_vars
<1>1. IInv /\ [Next]_vars => [RevisionNeverFalls]_vars
  BY StepHolds
<1> QED
  BY <1>1, Invariant, PTL DEF Spec

\* Whatever the backend, a client is told of a revision only when its job is
\* stored.
THEOREM JobOfAcked ==
  ASSUME MaxRequests \in Nat
  PROVE  Spec => []AckedHasJob
<1>1. IInv => AckedHasJob
  BY DEF IInv, Rows
<1> QED
  BY <1>1, Invariant, PTL

-----------------------------------------------------------------------------
(* The database without failures.                                          *)

\* What the connection shows is a row, before and after every step.
LEMMA ConnectionType == IInv => Connection \in Row
  BY ConnectionSees DEF IInv, Rows, Locking, Locked, Unlocked

LEMMA ConnectionPrime ==
  /\ IInv' => Connection' \in Row
  /\ tx' = {} => Connection' = stored'
  /\ \A y : tx' = {y} => Connection' = y.db
<1>1. (tx = {} => Connection = stored)'
  BY ConnectionSees, PTL
<1>2. (\A y : tx = {y} => Connection = y.db)'
  BY ConnectionSees, PTL
<1>3. (IInv => Connection \in Row)'
  BY ConnectionType, PTL
<1> QED
  BY <1>1, <1>2, <1>3

\* A request that moves while the connection shows no less than before.
LEMMA NearMoves ==
  ASSUME IInv, NInv, IInv', NEW t \in Threads, NEW r,
         thread' = [thread EXCEPT ![t] = r],
         Connection.rev <= Connection'.rev, Near(r, Connection'.rev),
         r.pc \in {"insert", "commit"} => r.rev = stored.rev + 1,
         stored'.rev = stored.rev, stored.jobs \subseteq stored'.jobs,
         \A n \in acked' : n \in acked \/ n <= stored.rev
  PROVE  NInv'
<1>1. /\ thread'[t] = r
      /\ \A u \in Threads : u # t => thread'[u] = thread[u]
  BY DEF IInv, Reqs
<1>2. Connection.rev \in Nat /\ Connection'.rev \in Nat
  BY ConnectionType, ConnectionPrime DEF Row
<1>3. ASSUME NEW u \in Threads PROVE Near(thread'[u], Connection'.rev)
  <2>1. CASE u = t
    BY <1>1, <2>1
  <2>2. CASE u # t
    <3>1. thread'[u] = thread[u] /\ thread[u].rev \in Nat /\ Near(thread[u], Connection.rev)
      BY <1>1, <2>2 DEF IInv, NInv, Reqs, Thread
    <3> QED
      BY <1>2, <3>1 DEF Near
  <2> QED
    BY <2>1, <2>2
<1>4. 1 .. stored'.rev \subseteq stored'.jobs /\ \A n \in acked' : n <= stored'.rev
  BY DEF NInv
<1>5. ASSUME NEW u \in Threads, thread'[u].pc \in {"insert", "commit"}
      PROVE  thread'[u].rev = stored'.rev + 1
  BY <1>1, <1>5 DEF NInv
<1> QED
  BY <1>3, <1>4, <1>5 DEF NInv

\* What a request has read may be of an open transaction.  A request is then
\* next to a revision that is not stored yet, and it stays next to it until the
\* transaction is over.
LEMMA ReadNear ==
  ASSUME IInv, NInv, IInv', NEW t \in Threads, Send(t) \/ Read(t)
  PROVE  NInv'
<1>0. /\ thread[t] \in Thread /\ thread \in [Threads -> Thread]
      /\ UNCHANGED <<stored, tx, acked>> /\ Connection.rev \in Nat
  BY ConnectionType DEF IInv, Reqs, Send, Read, Row
<1>00. Connection' = Connection /\ Connection.rev <= Connection'.rev
  BY <1>0, ConnectionSees, ConnectionPrime DEF IInv, Locking, Locked, Unlocked
<1> SUFFICES \E r : /\ thread' = [thread EXCEPT ![t] = r] /\ Near(r, Connection.rev)
                   /\ r.pc \notin {"insert", "commit"}
  <2>1. PICK r : /\ thread' = [thread EXCEPT ![t] = r] /\ Near(r, Connection.rev)
                 /\ r.pc \notin {"insert", "commit"}
    OBVIOUS
  <2>2. Near(r, Connection'.rev)
    BY <1>00, <2>1
  <2> QED
    BY <1>0, <1>00, <2>1, <2>2, NearMoves
<1> DEFINE n == Connection.rev
<1>1. CASE Send(t)
  <2>1. PICK op \in {"ingest", "revise"} :
           Give(t, [pc |-> "read", op |-> op, rev |-> 0, tries |-> 0,
                    left |-> thread[t].left - 1])
    BY <1>1 DEF Send
  <2> DEFINE r == [pc |-> "read", op |-> op, rev |-> 0, tries |-> 0,
                   left |-> thread[t].left - 1]
  <2>2. r.pc = "read" /\ thread' = [thread EXCEPT ![t] = r]
    BY <2>1 DEF Give
  <2> HIDE DEF r
  <2> QED
    BY <2>2 DEF Near
<1>2. CASE Read(t)
  <2>1. ASSUME NEW m \in Nat, NEW pc \in {"write", "enqueue"},
               IF pc = "write" THEN m <= n + 1 ELSE m <= n,
               Give(t, [thread[t] EXCEPT !.pc = pc, !.rev = m])
        PROVE  \E r : /\ thread' = [thread EXCEPT ![t] = r] /\ Near(r, n)
                      /\ r.pc \notin {"insert", "commit"}
    <3> DEFINE r == [thread[t] EXCEPT !.pc = pc, !.rev = m]
    <3>1. r.pc = pc /\ r.rev = m
      BY <1>0 DEF Thread
    <3>2. thread' = [thread EXCEPT ![t] = r]
      BY <2>1 DEF Give
    <3> HIDE DEF r
    <3> QED
      BY <2>1, <3>1, <3>2 DEF Near
  <2>2. \/ n > 0 /\ Give(t, [thread[t] EXCEPT !.pc = "enqueue", !.rev = n])
        \/ n > 0 /\ Give(t, [thread[t] EXCEPT !.pc = "write", !.rev = n + 1])
        \/ Give(t, [thread[t] EXCEPT !.pc = "write", !.rev = 1])
        \/ Done(t)
    BY <1>2 DEF Read
  <2>3. CASE Give(t, [thread[t] EXCEPT !.pc = "enqueue", !.rev = n])
    <3>1. n <= n
      BY <1>0
    <3> QED
      BY <1>0, <2>1, <2>3, <3>1
  <2>4. CASE Give(t, [thread[t] EXCEPT !.pc = "write", !.rev = n + 1])
    <3>1. n + 1 \in Nat /\ n + 1 <= n + 1
      BY <1>0
    <3> QED
      BY <2>1, <2>4, <3>1
  <2>5. CASE Give(t, [thread[t] EXCEPT !.pc = "write", !.rev = 1])
    <3>1. 1 \in Nat /\ 1 <= n + 1
      BY <1>0
    <3> QED
      BY <2>1, <2>5, <3>1
  <2>6. CASE Done(t)
    <3>1. Idle(thread[t].left).pc = "idle" /\ thread' = [thread EXCEPT ![t] = Idle(thread[t].left)]
      BY <2>6 DEF Done, Give, Idle
    <3> QED
      BY <3>1 DEF Near
  <2> QED
    BY <2>2, <2>3, <2>4, <2>5, <2>6
<1> QED
  BY <1>1, <1>2

\* BEGIN takes the request over; a write that is accepted is of the revision
\* after the stored one, and is shown; the job changes nothing about that.
LEMMA WriteNear ==
  ASSUME IInv, NInv, IInv', NEW t \in Threads,
         Begin(t) \/ WriteMeeting(t) \/ WriteJob(t)
  PROVE  NInv'
<1> DEFINE n == thread[t].rev
<1>0. /\ thread[t] \in Thread /\ thread \in [Threads -> Thread] /\ RequestOK(thread[t])
      /\ UNCHANGED <<stored, acked>> /\ stored \in Row /\ stored.rev \in Nat
      /\ n \in Nat /\ Connection \in Row /\ Connection.rev \in Nat
      /\ Near(thread[t], Connection.rev)
      /\ thread[t].pc \in {"insert", "commit"} => n = stored.rev + 1
      /\ thread[t].pc \in {"write", "guard", "insert"}
  BY ConnectionType DEF IInv, NInv, Rows, Reqs, Begin, WriteMeeting, WriteJob, Row, Thread, At
<1> DEFINE Goes(pc) == thread' = [thread EXCEPT ![t] = [thread[t] EXCEPT !.pc = pc]]
<1>1. ASSUME NEW pc, Go(t, pc) PROVE Goes(pc)
  BY <1>0, <1>1 DEF Go
<1>2. \A pc : [thread[t] EXCEPT !.pc = pc].pc = pc /\ [thread[t] EXCEPT !.pc = pc].rev = n
  BY <1>0 DEF Thread
<1>3. CASE Begin(t)
  <2>1. Connection = stored /\ Connection' = stored
    <3> DEFINE y == [by |-> t, db |-> stored]
    <3>1. tx = {} /\ tx' = {y} /\ y.db = stored
      BY <1>3 DEF Begin, Lock
    <3> HIDE DEF y
    <3> QED
      BY <3>1, ConnectionSees, ConnectionPrime
  <2>2. Goes("guard") /\ thread[t].pc = "write"
    BY <1>1, <1>3 DEF Begin, At
  <2> DEFINE r == [thread[t] EXCEPT !.pc = "guard"]
  <2>3. r.pc = "guard" /\ r.rev = n /\ thread' = [thread EXCEPT ![t] = r]
    BY <1>2, <2>2
  <2> HIDE DEF r, Goes
  <2>4. Near(r, Connection'.rev) /\ Connection.rev <= Connection'.rev
    BY <1>0, <2>1, <2>2, <2>3 DEF Near
  <2> QED
    BY <1>0, <2>1, <2>3, <2>4, NearMoves
<1>4. CASE WriteMeeting(t) /\ Accepts(n, Connection.rev)
  <2>1. thread[t].pc = "guard" /\ Connection = stored /\ stored.rev < n /\ n = stored.rev + 1
    BY <1>0, <1>4, HoldsLock DEF WriteMeeting, At, Accepts, Written, InTx, Near
  <2>2. Connection'.rev = n
    <3> DEFINE db == [Connection EXCEPT !.rev = n]
               y  == [by |-> t, db |-> db]
    <3>1. db.rev = n
      BY <1>0 DEF Row
    <3>2. tx' = {y} /\ y.db = db
      BY <1>4 DEF WriteMeeting, Change
    <3> HIDE DEF y, db
    <3> QED
      BY <3>1, <3>2, ConnectionPrime
  <2> DEFINE r == [thread[t] EXCEPT !.pc = "insert"]
  <2>3. r.pc = "insert" /\ r.rev = n /\ thread' = [thread EXCEPT ![t] = r]
    BY <1>1, <1>2, <1>4 DEF WriteMeeting
  <2> HIDE DEF r, Goes
  <2>4. Near(r, Connection'.rev) /\ Connection.rev <= Connection'.rev
    BY <1>0, <2>1, <2>2, <2>3 DEF Near
  <2> QED
    BY <1>0, <2>1, <2>3, <2>4, NearMoves
<1>5. CASE WriteMeeting(t) /\ ~Accepts(n, Connection.rev)
  <2>1. tx' = {} /\ Refused(t, Connection.rev) /\ thread[t].pc = "guard"
    BY <1>5 DEF WriteMeeting, At
  <2>2. Connection = stored /\ Connection' = stored
    BY <1>0, <2>1, HoldsLock, ConnectionPrime DEF Written, InTx
  <2>3. PICK r : thread' = [thread EXCEPT ![t] = r] /\ r.pc \in {"read", "idle"}
    BY <1>0, <2>1, RefusedOK
  <2> HIDE DEF Goes
  <2>4. Near(r, Connection'.rev) /\ Connection.rev <= Connection'.rev
    BY <1>0, <2>2, <2>3 DEF Near
  <2> QED
    BY <1>0, <2>2, <2>3, <2>4, NearMoves
<1>6. CASE WriteJob(t)
  <2>1. thread[t].pc = "insert" /\ n = stored.rev + 1
    BY <1>0, <1>6 DEF WriteJob, At
  <2>2. Connection'.rev = Connection.rev
    <3> DEFINE db == [Connection EXCEPT !.jobs = WithJob(@, n)]
               y  == [by |-> t, db |-> db]
    <3>1. db.rev = Connection.rev
      BY <1>0 DEF Row
    <3>2. tx' = {y} /\ y.db = db
      BY <1>6 DEF WriteJob, Change
    <3> HIDE DEF y, db
    <3> QED
      BY <3>1, <3>2, ConnectionPrime
  <2> DEFINE r == [thread[t] EXCEPT !.pc = "commit"]
  <2>3. r.pc = "commit" /\ r.rev = n /\ thread' = [thread EXCEPT ![t] = r]
    BY <1>1, <1>2, <1>6 DEF WriteJob
  <2> HIDE DEF r, Goes
  <2>4. Near(r, Connection'.rev) /\ Connection.rev <= Connection'.rev
    BY <1>0, <2>2, <2>3 DEF Near
  <2> QED
    BY <1>0, <2>1, <2>3, <2>4, NearMoves
<1> QED
  BY <1>3, <1>4, <1>5, <1>6

\* A COMMIT stores what was shown: the next revision, with its job.
LEMMA CommitNear ==
  ASSUME IInv, NInv, IInv', NEW t \in Threads, Commit(t)
  PROVE  /\ NInv'
         /\ stored'.rev = stored.rev + 1
         /\ stored'.jobs = stored.jobs \cup {stored.rev + 1}
<1> DEFINE n == thread[t].rev
<1>0. /\ thread[t] \in Thread /\ thread \in [Threads -> Thread]
      /\ stored.rev \in Nat /\ n = stored.rev + 1 /\ thread[t].pc = "commit"
      /\ 1 .. stored.rev \subseteq stored.jobs
  BY DEF IInv, NInv, Rows, Reqs, Commit, At, Row
<1>1. stored'.rev = n /\ stored'.jobs = stored.jobs \cup {n}
  BY CommitStep
<1>2. Connection.rev = n /\ Connection'.rev = n
  <2>1. Written(thread[t], stored, Connection)
    BY <1>0, HoldsLock DEF InTx
  <2>2. Connection = [rev |-> n, jobs |-> stored.jobs \cup {n}]
    BY <1>0, <2>1 DEF Written
  <2>3. Connection' = stored'
    BY ConnectionPrime DEF Commit
  <2> QED
    BY <1>1, <2>2, <2>3
<1>3. \A u \in Threads : u # t => /\ thread'[u] = thread[u]
                                 /\ thread[u].pc \notin InTx /\ thread[u].rev \in Nat
                                 /\ Near(thread[u], Connection.rev)
  <2>1. \A u \in Threads : u # t => thread[u].pc \notin InTx
    BY <1>0, HoldsLock DEF InTx
  <2>2. \A u \in Threads : u # t => thread'[u] = thread[u]
    BY <1>0 DEF Commit, AfterSave, Answer, Done, Give, Go
  <2> QED
    BY <2>1, <2>2 DEF IInv, NInv, Reqs, Thread
<1>4. \/ thread'[t].pc = "enqueue" /\ thread'[t].rev = n
      \/ thread'[t].pc = "idle"
  <2>1. CASE Go(t, "enqueue")
    <3> DEFINE r == [thread[t] EXCEPT !.pc = "enqueue"]
    <3>1. thread'[t] = r /\ r.pc = "enqueue" /\ r.rev = n
      BY <1>0, <2>1 DEF Go, Thread
    <3> QED
      BY <3>1
  <2>2. CASE Done(t)
    BY <1>0, <2>2 DEF Done, Give, Idle
  <2> QED
    BY <2>1, <2>2 DEF Commit, AfterSave, Answer
<1>5. \A u \in Threads : /\ Near(thread'[u], Connection'.rev)
                         /\ thread'[u].pc \notin {"insert", "commit"}
  <2>1. n <= n
    BY <1>0
  <2> QED
    BY <1>2, <1>3, <1>4, <2>1 DEF Near, InTx
<1>6. \A k \in acked' : k <= stored'.rev
  <2>1. \A k \in acked' : k \in acked \/ k = n
    BY DEF Commit, AfterSave, Answer
  <2>2. \A k \in acked : k \in Nat /\ k <= stored.rev
    BY DEF IInv, NInv, Rows
  <2> QED
    BY <1>0, <1>1, <2>1, <2>2
<1>7. 1 .. stored'.rev \subseteq stored'.jobs
  <2>1. \A k \in 1 .. n : k = n \/ k \in 1 .. stored.rev
    BY <1>0
  <2> QED
    BY <1>0, <1>1, <2>1
<1> QED
  BY <1>0, <1>1, <1>5, <1>6, <1>7 DEF NInv

\* The enqueue of its own waits for the lock, so that the revision it has read
\* is stored by then, and it has its job.
LEMMA EnqueueNear ==
  ASSUME IInv, NInv, IInv', NEW t \in Threads, EnqueueAgain(t)
  PROVE  NInv' /\ stored'.rev = stored.rev /\ stored'.jobs = stored.jobs
<1> DEFINE n == thread[t].rev
<1>0. /\ thread[t] \in Thread /\ thread \in [Threads -> Thread] /\ RequestOK(thread[t])
      /\ stored.rev \in Nat /\ n \in Nat /\ n > 0 /\ tx = {} /\ tx' = {}
      /\ thread[t].pc = "enqueue" /\ Near(thread[t], Connection.rev)
      /\ stored \in Row
  BY DEF IInv, NInv, Rows, Reqs, EnqueueAgain, At, Row, Thread, RequestOK
<1>1. Connection = stored /\ Connection' = stored' /\ n \in 1 .. stored.rev /\ n \in stored.jobs
  BY <1>0, ConnectionSees, ConnectionPrime DEF Near, NInv
<1>2. /\ stored'.rev = stored.rev /\ stored'.jobs = stored.jobs
      /\ \A k \in acked' : k \in acked \/ k <= stored.rev
  <2>1. CASE UNCHANGED <<stored, acked>>
    BY <2>1
  <2>2. CASE /\ stored' = [stored EXCEPT !.jobs = WithJob(@, n)]
             /\ Answer(t, n)
    BY <1>0, <1>1, <2>2 DEF WithJob, Answer, Row
  <2> QED
    BY <2>1, <2>2 DEF EnqueueAgain
<1> DEFINE r == Idle(thread[t].left)
<1>3. r.pc = "idle" /\ thread' = [thread EXCEPT ![t] = r]
  BY DEF EnqueueAgain, Answer, Done, Give, Idle
<1> HIDE DEF r
<1>4. Near(r, Connection'.rev) /\ Connection.rev <= Connection'.rev
  BY <1>0, <1>1, <1>2, <1>3 DEF Near
<1> QED
  BY <1>0, <1>2, <1>3, <1>4, NearMoves

\* A restart takes the dirty readers with the transaction.
LEMMA CrashNear ==
  ASSUME IInv, NInv, IInv', Crash
  PROVE  NInv'
<1>1. \A t \in Threads : thread'[t].pc = "idle"
  BY DEF Crash, Idle
<1>2. UNCHANGED <<stored, acked>>
  BY DEF Crash
<1> QED
  BY <1>1, <1>2 DEF NInv, Near

\* Every step keeps it, and is a step of the log, or none.
LEMMA NearHolds ==
  ASSUME IInv, NInv, [Next]_vars, Backend = "database", MayFail = FALSE
  PROVE  /\ NInv'
         /\ \/ /\ stored'.rev = stored.rev + 1
               /\ stored'.jobs = stored.jobs \cup {stored.rev + 1}
            \/ stored'.rev = stored.rev /\ stored'.jobs = stored.jobs
<1>0. IInv'
  BY StepHolds
<1>1. CASE UNCHANGED vars
  <2>1. UNCHANGED <<stored, tx, thread, acked>>
    BY <1>1 DEF vars
  <2>2. Connection' = Connection
    BY <1>0, <2>1, ConnectionSees, ConnectionPrime DEF IInv, Locking, Locked, Unlocked
  <2> QED
    BY <2>1, <2>2 DEF NInv
<1>2. CASE Crash
  BY <1>0, <1>2, CrashNear DEF Crash
<1>3. ASSUME NEW t \in Threads, Send(t) \/ Read(t)
      PROVE  NInv' /\ UNCHANGED stored
  BY <1>0, <1>3, ReadNear DEF Send, Read
<1>4. ASSUME NEW t \in Threads, Begin(t) \/ WriteMeeting(t) \/ WriteJob(t)
      PROVE  NInv' /\ UNCHANGED stored
  BY <1>0, <1>4, WriteNear DEF Begin, WriteMeeting, WriteJob
<1>5. ASSUME NEW t \in Threads,
             CommitFails(t) \/ CheckInMemory(t) \/ SaveInMemory(t) \/ EnqueueInMemory(t)
      PROVE  FALSE
  BY <1>5 DEF CommitFails, CheckInMemory, SaveInMemory, EnqueueInMemory, At, IInv, Reqs, RequestOK
<1>6. ASSUME NEW t \in Threads, Commit(t)
      PROVE  /\ NInv'
             /\ stored'.rev = stored.rev + 1
             /\ stored'.jobs = stored.jobs \cup {stored.rev + 1}
  BY <1>0, <1>6, CommitNear
<1>7. ASSUME NEW t \in Threads, EnqueueAgain(t)
      PROVE  NInv' /\ stored'.rev = stored.rev /\ stored'.jobs = stored.jobs
  BY <1>0, <1>7, EnqueueNear
<1> QED
  BY <1>1, <1>2, <1>3, <1>4, <1>5, <1>6, <1>7 DEF Next, Step

\* At the start nothing is stored and nothing is read.
LEMMA NearInit == Init => NInv
<1> SUFFICES ASSUME Init PROVE NInv
  OBVIOUS
<1>1. stored.rev = 0 /\ acked = {} /\ \A t \in Threads : thread[t].pc = "idle"
  BY DEF Init, Empty, Idle
<1> QED
  BY <1>1 DEF NInv, Near

\* What clients were told of is stored, if everything up to a stored revision
\* has its job.
LEMMA AckedFollows ==
  ASSUME IInv, NInv
  PROVE  AckedIsStored
  BY DEF IInv, NInv, Rows, AckedHasJob, AckedIsStored

\* On the database, as long as no COMMIT fails, what a client was told of is
\* stored with its job, though the answer may rest on a read of another
\* thread's open transaction and the server may stop at any point.
THEOREM AckedStored ==
  ASSUME MaxRequests \in Nat, Backend = "database", MayFail = FALSE
  PROVE  Spec => []AckedIsStored
<1>1. IInv /\ NInv /\ [Next]_vars => NInv'
  BY NearHolds
<1>2. IInv /\ NInv => AckedIsStored
  BY AckedFollows
<1> QED
  BY <1>1, <1>2, NearInit, Invariant, PTL DEF Spec

Log == INSTANCE MeetingLog WITH rev <- stored.rev, jobs <- stored.jobs

\* The threads implement the promise of MeetingLog: BEGIN, the writes of a
\* transaction and the dirty reads are none of the log's steps, COMMIT is its
\* Accept, and the enqueue after it adds nothing.
THEOREM Refinement ==
  ASSUME MaxRequests \in Nat, Backend = "database", MayFail = FALSE
  PROVE  Spec => Log!LogSpec
<1>1. IInv /\ NInv /\ [Next]_vars => NInv' /\ [Log!Accept]_(Log!logvars)
  BY NearHolds DEF Log!Accept, Log!logvars
<1>2. Init => Log!LogInit
  BY DEF Init, Empty, Log!LogInit
<1> QED
  BY <1>1, <1>2, NearInit, Invariant, PTL DEF Spec, Log!LogSpec


=============================================================================
