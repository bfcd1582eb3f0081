------------------------- MODULE SemanticIndexProofs -------------------------
(***************************************************************************)
(* Theorems about SemanticIndex, for any runs, removals, revisions and     *)
(* evidence: a record carries a hash its evidence had while the meeting    *)
(* was at the revision of the stamp, a write leaves the records of others  *)
(* alone as long as reads succeed, and a run that has no other writer      *)
(* beside it stores what it passes.                                        *)
(***************************************************************************)
EXTENDS SemanticIndex, TLAPS

\* What is assumed of the evidence: whatever is stored, ids are asked about and
\* each has a hash, or none.
ContentOK ==
    /\ MaxRev \in Nat \ {0}
    /\ \A s \in SUBSET Mentions : Scope[s] \subseteq Evidence /\ Items[s] \in [Evidence -> Nat]

Revs    == 1 .. MaxRev
Records == [rev : 0 .. MaxRev, hash : Nat]
Files   == [Evidence -> Records]

\* The locals of an actor, by the step that is next.
Begins   == [pc : {"begun"}, rev : Revs]
Runs     == [pc : {"run"}, rev : Revs, items : [Evidence -> Nat], todo : SUBSET Evidence,
             left : SUBSET Evidence]
Guards   == [pc : {"guard"}, item : Evidence, existing : Records, next : Runs]
Pendings == [pc : {"embed", "upsert"}, item : Evidence, record : Records, next : Runs \cup {Idle}]
Writes   == [pc : {"persist", "replace"}, item : Evidence, next : Runs \cup {Idle}, records : Files]
Locals   == {Idle} \cup Begins \cup Runs \cup Guards \cup Pendings \cup Writes

-----------------------------------------------------------------------------
\* w says that evidence e had hash h at some moment of revision r.
SaidIn(w, r, e, h) == \E s \in w : s.rev = r /\ Items[s.stored][e] = h

\* Record r of evidence e is of a revision there was, n being the latest, and what
\* the evidence said then.
Stamped(e, r, n, w) ==
    /\ r.rev <= n
    /\ r.rev > 0 => SaidIn(w, r.rev, e, r.hash)

\* The revision a run has read may be older than its items, which came after;
\* it is not when it is still the latest.
RunOK(l, n, w) ==
    /\ l.rev <= n
    /\ l.rev = n => \A e \in Evidence : l.items[e] # 0 => SaidIn(w, n, e, l.items[e])
    /\ \A e \in l.todo : l.items[e] # 0 /\ e \notin l.left

\* What the locals of an actor have to do with the latest revision.
LocalOK(l, n, w) ==
    /\ l.pc = "begun" => l.rev <= n
    /\ l.pc = "run" => RunOK(l, n, w)
    /\ l.pc \in {"guard", "embed", "upsert", "persist", "replace"} /\ l.next.pc = "run"
       => RunOK(l.next, n, w)
    /\ l.pc = "guard" => l.next.items[l.item] # 0
    /\ l.pc \in {"embed", "upsert"} => Stamped(l.item, l.record, n, w)
    /\ l.pc \in {"persist", "replace"} => \A e \in Evidence : Stamped(e, l.records[e], n, w)

\* Who is about to write has the lock, and is alone with it.
Locking ==
    /\ \A a, b \in lock : a = b
    /\ lock \subseteq Actors
    /\ \A a \in Actors : actor[a].pc \in {"persist", "replace"} <=> a \in lock

\* The inductive invariant.
IInv ==
    /\ rev \in Revs
    /\ stored \subseteq Mentions /\ [rev |-> rev, stored |-> stored] \in was
    /\ file \in Files /\ \A e \in Evidence : Stamped(e, file[e], rev, was)
    /\ failures \in Nat /\ (ReadMayFail \/ failures = 0)
    /\ Locking
    /\ actor \in [Actors -> Locals]
    /\ \A a \in Actors : LocalOK(actor[a], rev, was)

\* As long as no read has failed: the document about to be written is that of the file but
\* for one record.
Fresh ==
    failures = 0 => \A a \in Actors : actor[a].pc \in {"persist", "replace"} =>
        \A e \in Evidence \ {actor[a].item} : actor[a].records[e] = file[e]

\* A run has record r for item e.
Has(l, e, r) == r = [rev |-> l.rev, hash |-> l.items[e]]

\* With one run and nobody else: what it has passed is in the file, and what it
\* has looked up, or is about to write, is of the item it is at.
Passed(l, e, f) == \A d \in Evidence \ (l.todo \cup {e}) : l.items[d] # 0 => Has(l, d, f[d])
AloneOK(l) ==
    /\ l.pc = "run" => \A d \in Evidence \ l.todo : l.items[d] # 0 => Has(l, d, file[d])
    /\ l.pc = "guard" => Passed(l.next, l.item, file) /\ l.existing = file[l.item]
    /\ l.pc \in {"embed", "upsert"} =>
          l.next.pc = "run" /\ Passed(l.next, l.item, file) /\ Has(l.next, l.item, l.record)
    /\ l.pc \in {"persist", "replace"} =>
          l.next.pc = "run" /\ Passed(l.next, l.item, file) /\ Has(l.next, l.item, l.records[l.item])
AInv == \A x \in Indexers : AloneOK(actor[x])

OneRun    == Cleaners = {} /\ \A x, y \in Indexers : x = y
ReadsHold == ReadMayFail = FALSE

-----------------------------------------------------------------------------
USE DEF meeting

\* What is true of a revision stays so of a later one, and when more has been.
LEMMA LaterOK ==
  ASSUME NEW l \in Locals, NEW n \in Nat, NEW m \in Nat, n <= m, NEW w, NEW v, w \subseteq v,
         LocalOK(l, n, w)
  PROVE  LocalOK(l, m, v)
<1>0. ASSUME NEW r, NEW e, NEW h, SaidIn(w, r, e, h) PROVE SaidIn(v, r, e, h)
  BY <1>0 DEF SaidIn
<1>1. ASSUME NEW k \in Runs, RunOK(k, n, w) PROVE RunOK(k, m, v)
  BY <1>1, <1>0 DEF RunOK, Runs, Revs
<1>2. ASSUME NEW e, NEW r \in Records, Stamped(e, r, n, w) PROVE Stamped(e, r, m, v)
  BY <1>2, <1>0 DEF Stamped, Records
<1>3. CASE l \in Begins \/ l = Idle
  BY <1>3 DEF LocalOK, Begins, Idle, Revs
<1>4. CASE l \in Runs
  BY <1>4, <1>1 DEF LocalOK, Runs
<1>5. CASE l \in Guards
  BY <1>5, <1>1 DEF LocalOK, Guards
<1>6. CASE l \in Pendings
  <2>1. l.next \in Runs \/ l.next.pc # "run"
    BY <1>6 DEF Pendings, Idle
  <2> QED
    BY <1>6, <2>1, <1>1, <1>2 DEF LocalOK, Pendings
<1>7. CASE l \in Writes
  <2>1. l.next \in Runs \/ l.next.pc # "run"
    BY <1>7 DEF Writes, Idle
  <2>2. \A e \in Evidence : l.records[e] \in Records
    BY <1>7 DEF Writes, Files
  <2> QED
    BY <1>7, <2>1, <2>2, <1>1, <1>2 DEF LocalOK, Writes
<1> QED
  BY <1>3, <1>4, <1>5, <1>6, <1>7 DEF Locals

\* An actor moves on, the revision does not.
LEMMA ActorMoves ==
  ASSUME IInv, NEW a \in Actors, NEW l \in Locals, LocalOK(l, rev, was), Become(a, l), rev' = rev, was' = was
  PROVE  /\ actor' \in [Actors -> Locals]
         /\ actor'[a] = l
         /\ \A b \in Actors : b # a => actor'[b] = actor[b]
         /\ \A b \in Actors : LocalOK(actor'[b], rev', was')
<1>1. actor \in [Actors -> Locals] /\ \A b \in Actors : LocalOK(actor[b], rev, was)
  BY DEF IInv
<1>2. actor' = [actor EXCEPT ![a] = l]
  BY DEF Become
<1>3. actor'[a] = l /\ \A b \in Actors : b # a => actor'[b] = actor[b]
  BY <1>1, <1>2
<1>4. actor' \in [Actors -> Locals]
  BY <1>1, <1>2
<1> QED
  BY <1>1, <1>3, <1>4

\* What the pc says of the locals.
LEMMA PcSays ==
  ASSUME NEW l \in Locals
  PROVE  /\ l.pc = "begun" => l \in Begins
         /\ l.pc = "run" => l \in Runs
         /\ l.pc = "guard" => l \in Guards
         /\ l.pc \in {"embed", "upsert"} => l \in Pendings
         /\ l.pc \in {"persist", "replace"} => l \in Writes
         /\ l.pc = "idle" => l = Idle
BY DEF Locals, Idle, Begins, Runs, Guards, Pendings, Writes

\* First states.
LEMMA InitHolds == ContentOK /\ Init => IInv /\ Fresh /\ AInv
<1> SUFFICES ASSUME ContentOK, Init PROVE IInv /\ Fresh /\ AInv
  OBVIOUS
<1>1. Idle \in Locals /\ Idle.pc = "idle" /\ LocalOK(Idle, 1, was)
  BY DEF Locals, Idle, LocalOK
<1>2. Absent \in Records /\ \A e \in Evidence : Stamped(e, Absent, 1, was)
  BY DEF ContentOK, Records, Absent, Stamped
<1>3. IInv
  BY <1>1, <1>2 DEF Init, IInv, ContentOK, Revs, Files, Locking
<1> QED
  BY <1>1, <1>3 DEF Init, Fresh, AInv, AloneOK, Actors

-----------------------------------------------------------------------------
(* What each step does to the locals.                                      *)

\* An actor moves to locals l, and the revision, the file and the lock stay.
Moves(a, l) ==
    /\ l \in Locals /\ LocalOK(l, rev, was)
    /\ Become(a, l) /\ rev' = rev /\ stored' = stored /\ was' = was /\ file' = file
    /\ l.pc \in {"persist", "replace"} <=> actor[a].pc \in {"persist", "replace"}

LEMMA BeginStep ==
  ASSUME ContentOK, IInv, NEW x \in Indexers, Begin(x)
  PROVE  Moves(x, [pc |-> "begun", rev |-> rev])
<1>1. [pc |-> "begun", rev |-> rev] \in Begins
  BY DEF IInv, Begins
<1> QED
  BY <1>1 DEF Begin, Moves, Locals, LocalOK, At, IInv, Revs, ContentOK

LEMMA SelectStep ==
  ASSUME ContentOK, IInv, NEW x \in Indexers, Select(x)
  PROVE  \E l \in Runs : (\A e \in Evidence : l.items[e] = 0) /\ Moves(x, l)
<1> DEFINE i == [e \in Evidence |-> 0]
           s == {m \in stored : Of[m] = rev}
           l == [pc |-> "run", rev |-> actor[x].rev, items |-> i, todo |-> {}, left |-> Scope[s]]
<1>1. actor[x] \in Begins /\ LocalOK(actor[x], rev, was) /\ rev \in Revs /\ Become(x, l)
  BY PcSays DEF IInv, Select, At, Actors
<1>2. s \in SUBSET Mentions
  BY DEF IInv
<1>3. Scope[s] \subseteq Evidence
  BY <1>2 DEF ContentOK
<1> HIDE DEF s
<1>4. i \in [Evidence -> Nat] /\ \A e \in Evidence : i[e] = 0
  OBVIOUS
<1> HIDE DEF i
<1>5. l \in Runs
  BY <1>1, <1>3, <1>4 DEF Runs, Begins
<1>6. LocalOK(l, rev, was)
  BY <1>1, <1>4 DEF LocalOK, RunOK, Begins
<1>7. Moves(x, l)
  BY <1>1, <1>5, <1>6 DEF Moves, Select, Locals, At, meeting
<1> QED
  BY <1>4, <1>5, <1>7

\* An item is built: it has the hash that the evidence has now, and is to be indexed
\* when there is one.
LEMMA FetchStep ==
  ASSUME ContentOK, IInv, NEW x \in Indexers, Fetch(x)
  PROVE  \E e \in Evidence : \E l \in Runs :
            /\ Moves(x, l) /\ l.rev = actor[x].rev
            /\ l.items = [actor[x].items EXCEPT ![e] = Items[stored][e]]
            /\ l.todo = IF Items[stored][e] = 0 THEN actor[x].todo ELSE actor[x].todo \cup {e}
<1> DEFINE k == actor[x]
           h == Items[stored]
           After(e) == [pc |-> "run", rev |-> k.rev, left |-> k.left \ {e},
                        items |-> [k.items EXCEPT ![e] = h[e]],
                        todo |-> IF h[e] = 0 THEN k.todo ELSE k.todo \cup {e}]
<1>1. k \in Runs /\ RunOK(k, rev, was) /\ rev \in Revs /\ k.pc = "run"
  BY PcSays DEF IInv, Fetch, At, Actors, LocalOK
<1>2. PICK e \in k.left : Become(x, After(e))
  BY DEF Fetch
<1>3. e \in Evidence /\ h \in [Evidence -> Nat]
  BY <1>1, <1>2 DEF Runs, IInv, ContentOK
<1>4. h[e] # 0 => SaidIn(was, rev, e, h[e])
  BY DEF IInv, SaidIn
<1> DEFINE l == After(e)
<1> HIDE DEF k, h
<1>5. /\ l \in Runs /\ l.pc = "run" /\ l.rev = k.rev /\ l.left = k.left \ {e}
      /\ l.items = [k.items EXCEPT ![e] = h[e]]
      /\ l.todo = IF h[e] = 0 THEN k.todo ELSE k.todo \cup {e}
  BY <1>1, <1>3 DEF Runs
<1> HIDE DEF l
<1>6. RunOK(l, rev, was)
  <2>0. /\ k.rev <= rev /\ k.todo \subseteq Evidence /\ k.items \in [Evidence -> Nat]
        /\ k.rev = rev => \A d \in Evidence : k.items[d] # 0 => SaidIn(was, rev, d, k.items[d])
        /\ \A d \in k.todo : k.items[d] # 0 /\ d \notin k.left
    BY <1>1 DEF RunOK, Runs
  <2>1. \A d \in Evidence : l.items[d] = IF d = e THEN h[e] ELSE k.items[d]
    BY <2>0, <1>3, <1>5
  <2>2. l.rev = rev => \A d \in Evidence : l.items[d] # 0 => SaidIn(was, rev, d, l.items[d])
    BY <2>0, <2>1, <1>4, <1>5
  <2>3. \A d \in l.todo : l.items[d] # 0 /\ d \notin l.left
    <3>1. CASE h[e] = 0
      BY <3>1, <2>0, <2>1, <1>2, <1>5
    <3>2. CASE h[e] # 0
      BY <3>2, <2>0, <2>1, <1>3, <1>5
    <3> QED
      BY <3>1, <3>2
  <2> QED
    BY <2>0, <2>2, <2>3, <1>5 DEF RunOK
<1>7. LocalOK(l, rev, was)
  BY <1>5, <1>6 DEF LocalOK
<1>8. Moves(x, l)
  BY <1>1, <1>2, <1>5, <1>7 DEF Moves, Fetch, Locals, k, l, h, meeting
<1> QED
  BY <1>3, <1>5, <1>8 DEF k, h

LEMMA LookupStep ==
  ASSUME ContentOK, IInv, NEW x \in Indexers, Lookup(x)
  PROVE  \E e \in actor[x].todo : \E l \in Guards :
            /\ Moves(x, l)
            /\ l.item = e /\ l.existing = Loaded(file)[e]
            /\ l.next.items = actor[x].items /\ l.next.rev = actor[x].rev
            /\ l.next.todo = actor[x].todo \ {e}
<1>1. PICK e \in actor[x].todo :
         Become(x, [pc |-> "guard", item |-> e, existing |-> Loaded(file)[e],
                    next |-> [actor[x] EXCEPT !.todo = @ \ {e}]])
  BY DEF Lookup
<1> DEFINE k == actor[x]
           n == [k EXCEPT !.todo = @ \ {e}]
           l == [pc |-> "guard", item |-> e, existing |-> Loaded(file)[e], next |-> n]
<1>2. k \in Runs /\ RunOK(k, rev, was) /\ rev \in Revs /\ file \in Files /\ k.pc = "run"
  BY PcSays DEF IInv, Lookup, At, Actors, LocalOK
<1>3. /\ n \in Runs /\ n.pc = "run" /\ n.items = k.items /\ n.rev = k.rev
      /\ n.todo = k.todo \ {e} /\ n.left = k.left
  <2> HIDE DEF k
  <2> QED
    BY <1>2 DEF Runs
<1>4. RunOK(n, rev, was) /\ n.items[e] # 0 /\ e \in Evidence
  <2> HIDE DEF n
  <2> QED
    BY <1>1, <1>2, <1>3 DEF RunOK, Runs
<1>5. Loaded(file)[e] \in Records
  BY <1>2, <1>4 DEF Loaded, Files, Records, Absent, ContentOK
<1> HIDE DEF n, k
<1>6. l \in Guards
  BY <1>3, <1>4, <1>5 DEF Guards
<1>7. LocalOK(l, rev, was)
  BY <1>4 DEF LocalOK
<1>8. Moves(x, l)
  BY <1>1, <1>6, <1>7, <1>2 DEF Moves, Lookup, Locals, n, k
<1>9. /\ l.item = e /\ l.existing = Loaded(file)[e]
      /\ l.next.items = actor[x].items /\ l.next.rev = actor[x].rev
      /\ l.next.todo = actor[x].todo \ {e}
  BY <1>3 DEF k
<1> HIDE DEF l
<1> QED
  BY <1>1, <1>6, <1>8, <1>9

\* The three ways out: the run is rejected, the record is there, or it is to be written.
LEMMA GuardStep ==
  ASSUME ContentOK, IInv, NEW x \in Indexers, Guard(x)
  PROVE  \/ Moves(x, Idle)
         \/ actor[x].existing = Incoming(x) /\ actor[x].next \in Runs /\ Moves(x, actor[x].next)
         \/ \E l \in Pendings :
               /\ Moves(x, l)
               /\ l.item = actor[x].item /\ l.record = Incoming(x) /\ l.next = actor[x].next
<1> DEFINE k == actor[x]
           l == [pc |-> IF k.existing.hash = Incoming(x).hash THEN "upsert" ELSE "embed",
                 item |-> k.item, record |-> Incoming(x), next |-> k.next]
<1>1. /\ k \in Guards /\ LocalOK(k, rev, was) /\ rev \in Revs /\ file \in Files /\ k.pc = "guard"
      /\ k.next \in Runs /\ k.next.pc = "run"
  BY PcSays DEF IInv, Guard, At, Actors, Guards, Runs
<1>2. RunOK(k.next, rev, was) /\ k.next.items[k.item] # 0 /\ k.item \in Evidence
  BY <1>1 DEF LocalOK, Guards
<1>3. CASE ~ Accepted(x)
  BY <1>1, <1>3 DEF Guard, Moves, Locals, LocalOK, Idle
<1>4. CASE Accepted(x) /\ k.existing = Incoming(x)
  BY <1>1, <1>2, <1>4 DEF Guard, Moves, Locals, LocalOK
<1>5. CASE Accepted(x) /\ k.existing # Incoming(x)
  <2>1. k.next.rev = rev /\ SaidIn(was, rev, k.item, k.next.items[k.item])
    BY <1>2, <1>5 DEF Accepted, RunOK
  <2>2. Incoming(x) = [rev |-> rev, hash |-> k.next.items[k.item]]
    BY <2>1 DEF Incoming
  <2>3. Incoming(x) \in Records /\ Stamped(k.item, Incoming(x), rev, was)
    BY <2>1, <2>2, <1>1, <1>2 DEF Records, Revs, Runs, Stamped, ContentOK
  <2>4. l \in Pendings
    BY <1>1, <1>2, <2>3 DEF Pendings
  <2>5. l.pc \in {"embed", "upsert"} /\ LocalOK(l, rev, was)
    BY <1>1, <1>2, <2>3 DEF LocalOK
  <2>6. Moves(x, l)
    BY <1>1, <1>5, <2>4, <2>5 DEF Moves, Guard, Locals
  <2>7. l.item = actor[x].item /\ l.record = Incoming(x) /\ l.next = actor[x].next
    OBVIOUS
  <2> QED
    BY <2>4, <2>6, <2>7
<1> QED
  BY <1>3, <1>4, <1>5

LEMMA EmbedStep ==
  ASSUME ContentOK, IInv, NEW x \in Indexers, Embed(x)
  PROVE  \E l \in Pendings :
            /\ Moves(x, l)
            /\ l.item = actor[x].item /\ l.record = actor[x].record /\ l.next = actor[x].next
<1> DEFINE k == actor[x]
           l == [k EXCEPT !.pc = "upsert"]
<1>1. k \in Pendings /\ LocalOK(k, rev, was) /\ k.pc = "embed" /\ Become(x, l)
  BY PcSays DEF IInv, Embed, At, Actors
<1> HIDE DEF k
<1>2. l \in Pendings /\ l.pc = "upsert" /\ l.item = k.item /\ l.record = k.record /\ l.next = k.next
  BY <1>1 DEF Pendings
<1> HIDE DEF l
<1>3. LocalOK(l, rev, was)
  BY <1>1, <1>2 DEF LocalOK
<1>4. Moves(x, l)
  BY <1>1, <1>2, <1>3 DEF Embed, Moves, Locals, k
<1> QED
  BY <1>2, <1>4 DEF k

LEMMA RemoveStep ==
  ASSUME ContentOK, IInv, NEW c \in Cleaners, Remove(c)
  PROVE  \E l \in Pendings : Moves(c, l)
<1>1. PICK e \in Evidence :
         Become(c, [pc |-> "upsert", item |-> e, record |-> Absent, next |-> Idle])
  BY DEF Remove
<1> DEFINE l == [pc |-> "upsert", item |-> e, record |-> Absent, next |-> Idle]
<1>2. l \in Pendings
  BY DEF Pendings, Absent, Records, ContentOK
<1>3. LocalOK(l, rev, was)
  BY DEF LocalOK, Stamped, Absent, Idle, IInv, Revs
<1> QED
  BY <1>1, <1>2, <1>3 DEF Remove, Moves, Locals, At

\* What is read of the file and written over it, or over nothing.
LEMMA ReadStep ==
  ASSUME ContentOK, IInv, NEW a \in Actors, ReadFile(a) \/ FailToRead(a)
  PROVE  \E f \in Files : \E l \in Writes :
            /\ l \in Locals /\ LocalOK(l, rev, was)
            /\ Become(a, l) /\ UNCHANGED <<rev, stored, was, file>>
            /\ lock = {} /\ lock' = {a} /\ failures' \in Nat /\ (ReadMayFail \/ failures' = 0)
            /\ l.pc = "persist" /\ l.item = actor[a].item /\ l.next = actor[a].next
            /\ l.records[l.item] = actor[a].record
            /\ \A e \in Evidence \ {l.item} : l.records[e] = f[e]
            /\ ReadFile(a) => f = file
<1> DEFINE k == actor[a]
<1>1. /\ k \in Pendings /\ LocalOK(k, rev, was) /\ k.pc = "upsert" /\ rev \in Revs /\ failures \in Nat /\ (ReadMayFail \/ failures = 0)
      /\ file \in Files /\ \A e \in Evidence : Stamped(e, file[e], rev, was)
  BY PcSays DEF IInv, ReadFile, FailToRead, At
<1> DEFINE empty == [e \in Evidence |-> Absent]
<1>2. empty \in Files /\ \A e \in Evidence : Stamped(e, empty[e], rev, was)
  BY <1>1 DEF Files, Records, Absent, Stamped, ContentOK, Revs
<1>3. \E f \in Files :
         /\ \A e \in Evidence : Stamped(e, f[e], rev, was)
         /\ Become(a, [pc |-> "persist", item |-> k.item, next |-> k.next,
                       records |-> [f EXCEPT ![k.item] = k.record]])
         /\ ReadFile(a) => f = file
  <2>1. CASE ReadFile(a)
    <3>1. file # Broken
      <4>1. DOMAIN file = Evidence /\ k.item \in Evidence
        BY <1>1 DEF Files, Pendings
      <4>2. DOMAIN Broken = {}
        BY DEF Broken
      <4> QED
        BY <4>1, <4>2
    <3>2. Loaded(file) = file
      BY <3>1 DEF Loaded
    <3> QED
      BY <1>1, <2>1, <3>2 DEF ReadFile
  <2>2. CASE ~ ReadFile(a)
    <3>1. Loaded(Broken) = empty
      BY DEF Loaded
    <3> QED
      BY <1>2, <2>2, <3>1 DEF FailToRead
  <2> QED
    BY <2>1, <2>2
<1>4. PICK f \in Files :
         /\ \A e \in Evidence : Stamped(e, f[e], rev, was)
         /\ Become(a, [pc |-> "persist", item |-> k.item, next |-> k.next,
                       records |-> [f EXCEPT ![k.item] = k.record]])
         /\ ReadFile(a) => f = file
  BY <1>3
<1> DEFINE r == [f EXCEPT ![k.item] = k.record]
           l == [pc |-> "persist", item |-> k.item, next |-> k.next, records |-> r]
<1>5. /\ k.item \in Evidence /\ k.record \in Records /\ Stamped(k.item, k.record, rev, was)
      /\ k.next \in Runs \cup {Idle}
      /\ k.next.pc = "run" => RunOK(k.next, rev, was)
  BY <1>1 DEF LocalOK, Pendings
<1>6. /\ r \in Files /\ r[k.item] = k.record
      /\ \A e \in Evidence \ {k.item} : r[e] = f[e]
  BY <1>5 DEF Files
<1>7. \A e \in Evidence : Stamped(e, r[e], rev, was)
  <2> SUFFICES ASSUME NEW e \in Evidence PROVE Stamped(e, r[e], rev, was)
    OBVIOUS
  <2> HIDE DEF r
  <2>1. CASE e = k.item
    BY <2>1, <1>5, <1>6
  <2>2. CASE e # k.item
    BY <2>2, <1>4, <1>6
  <2> QED
    BY <2>1, <2>2
<1>8. Become(a, l) /\ UNCHANGED <<rev, stored, was, file>> /\ lock = {} /\ lock' = {a} /\ failures' \in Nat /\ (ReadMayFail \/ failures' = 0)
  BY <1>1, <1>4 DEF ReadFile, FailToRead
<1> HIDE DEF r, k
<1>9. l \in Writes /\ l \in Locals
  BY <1>5, <1>6 DEF Writes, Locals
<1>10. LocalOK(l, rev, was)
  BY <1>5, <1>7 DEF LocalOK
<1>11. /\ l.pc = "persist" /\ l.item = k.item /\ l.next = k.next
       /\ l.records[l.item] = k.record
       /\ \A e \in Evidence \ {l.item} : l.records[e] = f[e]
  BY <1>6
<1> HIDE DEF l
<1> QED
  BY <1>4, <1>8, <1>9, <1>10, <1>11 DEF k

LEMMA WriteStep ==
  ASSUME ContentOK, IInv, NEW a \in Actors, WriteTemporary(a)
  PROVE  \E l \in Writes :
            /\ Moves(a, l)
            /\ l.item = actor[a].item /\ l.records = actor[a].records /\ l.next = actor[a].next
<1> DEFINE k == actor[a]
           l == [k EXCEPT !.pc = "replace"]
<1>1. k \in Writes /\ LocalOK(k, rev, was) /\ k.pc = "persist" /\ Become(a, l)
  BY PcSays DEF IInv, WriteTemporary, At
<1> HIDE DEF k
<1>2. l \in Writes /\ l.pc = "replace" /\ l.item = k.item /\ l.records = k.records /\ l.next = k.next
  BY <1>1 DEF Writes
<1> HIDE DEF l
<1>3. LocalOK(l, rev, was)
  BY <1>1, <1>2 DEF LocalOK
<1>4. Moves(a, l)
  BY <1>1, <1>2, <1>3 DEF WriteTemporary, Moves, Locals, k
<1> QED
  BY <1>2, <1>4 DEF k

-----------------------------------------------------------------------------
(* The inductive invariant.                                                *)

\* An actor that only moves keeps it.
LEMMA MovesHold ==
  ASSUME IInv, NEW a \in Actors, NEW l \in Locals, Moves(a, l), lock' = lock, failures' = failures
  PROVE  IInv'
<1>1. /\ actor' \in [Actors -> Locals] /\ actor'[a] = l
      /\ \A b \in Actors : b # a => actor'[b] = actor[b]
      /\ \A b \in Actors : LocalOK(actor'[b], rev', was')
  BY ActorMoves DEF Moves
<1>2. \A b \in Actors : actor'[b].pc \in {"persist", "replace"} <=> actor[b].pc \in {"persist", "replace"}
  BY <1>1 DEF Moves
<1>3. Locking'
  BY <1>2 DEF IInv, Locking
<1> QED
  BY <1>1, <1>3 DEF IInv, Moves

\* One that takes the lock or lets go of it keeps the lock right.
LEMMA LockTaken ==
  ASSUME IInv, NEW a \in Actors, lock = {}, lock' = {a},
         actor'[a].pc \in {"persist", "replace"},
         \A b \in Actors : b # a => actor'[b] = actor[b]
  PROVE  Locking'
BY DEF IInv, Locking

LEMMA LockLeft ==
  ASSUME IInv, NEW a \in Actors, lock' = lock \ {a},
         actor'[a].pc \notin {"persist", "replace"},
         \A b \in Actors : b # a => actor'[b] = actor[b]
  PROVE  Locking'
BY DEF IInv, Locking

\* Every step keeps it.
LEMMA StepHolds == ContentOK /\ IInv /\ [Next]_vars => IInv'
<1> SUFFICES ASSUME ContentOK, IInv, [Next]_vars PROVE IInv'
  OBVIOUS
<1> USE DEF Actors
<1>0. \A l \in Guards \cup Pendings \cup Writes \cup Runs \cup {Idle} : l \in Locals
  BY DEF Locals
<1>1. CASE \E x \in Indexers : Begin(x)
  BY <1>1, BeginStep, MovesHold DEF Begin, Moves
<1>2. CASE \E x \in Indexers : Select(x)
  BY <1>2, SelectStep, MovesHold DEF Select, Moves
<1>14. CASE \E x \in Indexers : Fetch(x)
  BY <1>14, FetchStep, MovesHold DEF Fetch, Moves
<1>3. CASE \E x \in Indexers : Lookup(x)
  BY <1>3, LookupStep, MovesHold DEF Lookup, Moves
<1>4. CASE \E x \in Indexers : Guard(x)
  BY <1>4, GuardStep, MovesHold DEF Guard, Moves
<1>5. CASE \E x \in Indexers : Embed(x)
  BY <1>5, EmbedStep, MovesHold DEF Embed, Moves
<1>6. CASE \E x \in Indexers : Finish(x)
  <2>1. PICK x \in Indexers : Finish(x)
    BY <1>6
  <2>2. Idle \in Locals /\ LocalOK(Idle, rev, was) /\ Idle.pc = "idle"
    BY DEF Locals, LocalOK, Idle
  <2>3. Moves(x, Idle)
    BY <2>1, <2>2 DEF Moves, Finish, At
  <2> QED
    BY <2>1, <2>2, <2>3, MovesHold DEF Finish
<1>7. CASE \E c \in Cleaners : Remove(c)
  BY <1>7, RemoveStep, MovesHold DEF Remove, Moves
<1>8. CASE \E a \in Actors : ReadFile(a) \/ FailToRead(a)
  <2>1. PICK a \in Actors : ReadFile(a) \/ FailToRead(a)
    BY <1>8
  <2>2. PICK l \in Locals : /\ LocalOK(l, rev, was) /\ Become(a, l) /\ UNCHANGED <<rev, stored, was, file>>
                            /\ lock = {} /\ lock' = {a} /\ failures' \in Nat /\ (ReadMayFail \/ failures' = 0) /\ l.pc = "persist"
    BY <2>1, ReadStep
  <2>3. /\ actor' \in [Actors -> Locals] /\ actor'[a] = l
        /\ \A b \in Actors : b # a => actor'[b] = actor[b]
        /\ \A b \in Actors : LocalOK(actor'[b], rev', was')
    BY <2>2, ActorMoves
  <2>4. Locking'
    BY <2>2, <2>3, LockTaken
  <2> QED
    BY <2>2, <2>3, <2>4 DEF IInv
<1>9. CASE \E a \in Actors : WriteTemporary(a)
  BY <1>9, WriteStep, MovesHold DEF WriteTemporary, Moves
<1>10. CASE \E a \in Actors : Replace(a)
  <2>1. PICK a \in Actors : Replace(a)
    BY <1>10
  <2> DEFINE k == actor[a]
  <2>2. k \in Writes /\ LocalOK(k, rev, was) /\ k.pc = "replace"
    BY <2>1, PcSays DEF IInv, Replace, At
  <2>3. k.next \in Locals /\ LocalOK(k.next, rev, was) /\ k.next.pc \in {"run", "idle"}
    BY <2>2 DEF LocalOK, Writes, Locals, Runs, Idle
  <2>4. /\ actor' \in [Actors -> Locals] /\ actor'[a] = k.next
        /\ \A b \in Actors : b # a => actor'[b] = actor[b]
        /\ \A b \in Actors : LocalOK(actor'[b], rev', was')
    BY <2>1, <2>3, ActorMoves DEF Replace
  <2>5. Locking'
    BY <2>1, <2>3, <2>4, LockLeft DEF Replace
  <2>6. file' \in Files /\ \A e \in Evidence : Stamped(e, file'[e], rev, was)
    BY <2>1, <2>2 DEF Replace, LocalOK, Writes
  <2> QED
    BY <2>1, <2>4, <2>5, <2>6 DEF IInv, Replace
<1>11. CASE \E a \in Actors : Stop(a)
  <2>1. PICK a \in Actors : Stop(a)
    BY <1>11
  <2>2. Idle \in Locals /\ LocalOK(Idle, rev, was) /\ Idle.pc = "idle"
    BY DEF Locals, LocalOK, Idle
  <2>3. /\ actor' \in [Actors -> Locals] /\ actor'[a] = Idle
        /\ \A b \in Actors : b # a => actor'[b] = actor[b]
        /\ \A b \in Actors : LocalOK(actor'[b], rev', was')
    BY <2>1, <2>2, ActorMoves DEF Stop
  <2>4. Locking'
    BY <2>1, <2>2, <2>3, LockLeft DEF Stop
  <2> QED
    BY <2>1, <2>3, <2>4 DEF IInv, Stop
<1>12. CASE Revise \/ \E m \in Mentions : Resolve(m) \/ Reopen(m)
  <2>1. /\ rev \in Nat /\ rev' \in Nat /\ rev <= rev' /\ rev' \in Revs /\ was \subseteq was'
        /\ stored' \subseteq Mentions /\ [rev |-> rev', stored |-> stored'] \in was'
        /\ UNCHANGED <<file, lock, failures, actor>>
    BY <1>12 DEF IInv, Revise, Resolve, Reopen, Note, Revs, ContentOK
  <2>2. \A a \in Actors : LocalOK(actor'[a], rev', was')
    BY <2>1, LaterOK DEF IInv
  <2>3. \A e \in Evidence : Stamped(e, file'[e], rev', was')
    BY <2>1 DEF IInv, Stamped, SaidIn, Files, Records
  <2>4. Locking'
    BY <2>1 DEF IInv, Locking
  <2> QED
    BY <2>1, <2>2, <2>3, <2>4 DEF IInv
<1>13. CASE UNCHANGED vars
  BY <1>13 DEF vars, IInv, Locking
<1> QED
  BY <1>1, <1>2, <1>3, <1>4, <1>5, <1>6, <1>7, <1>8, <1>9, <1>10, <1>11, <1>12, <1>13, <1>14 DEF Next

-----------------------------------------------------------------------------
(* What the invariant gives.                                               *)

\* The types, and the stamps of the file.
LEMMA TypesHold == ContentOK /\ IInv => TypeOK /\ StampIsTrue
<1> SUFFICES ASSUME ContentOK, IInv PROVE TypeOK /\ StampIsTrue
  OBVIOUS
<1>1. file \in [Evidence -> Types] /\ \A e \in Evidence : file[e].rev <= rev
  BY DEF IInv, Files, Records, Types, Stamped
<1>2. StampIsTrue
  BY DEF IInv, Stamped, StampIsTrue, Said, SaidIn
<1> QED
  BY <1>1, <1>2 DEF IInv, TypeOK, Locking, Revs

\* As long as reads succeed, what is about to be written stays fresh, and a write
\* is of one record.
LEMMA FreshHolds ==
  ASSUME ContentOK, IInv, Fresh, [Next]_vars
  PROVE  Fresh' /\ OthersSurvive
<1> USE DEF Actors
<1>1. \A a \in Actors : actor[a].pc \in {"persist", "replace"} => actor[a] \in Writes
  BY PcSays DEF IInv
\* A failure once counted stays so.
<1>16. failures' = 0 => failures = 0
  <2>1. failures \in Nat
    BY DEF IInv
  <2>2. failures' = failures \/ failures' = failures + 1
    <3>1. ASSUME NEW x \in Indexers,
                 Begin(x) \/ Select(x) \/ Fetch(x) \/ Lookup(x) \/ Guard(x) \/ Embed(x) \/ Finish(x)
          PROVE  failures' = failures
      BY <3>1 DEF Begin, Select, Fetch, Lookup, Guard, Embed, Finish
    <3>2. ASSUME NEW c \in Cleaners, Remove(c) PROVE failures' = failures
      BY <3>2 DEF Remove
    <3>3. ASSUME NEW a \in Actors,
                 ReadFile(a) \/ FailToRead(a) \/ WriteTemporary(a) \/ Replace(a) \/ Stop(a)
          PROVE  failures' = failures \/ failures' = failures + 1
      BY <3>3 DEF ReadFile, FailToRead, WriteTemporary, Replace, Stop
    <3>4. ASSUME Revise \/ (\E m \in Mentions : Resolve(m) \/ Reopen(m)) \/ UNCHANGED vars
          PROVE  failures' = failures
      BY <3>4 DEF Revise, Resolve, Reopen, vars
    <3> QED
      BY <3>1, <3>2, <3>3, <3>4 DEF Next
  <2> QED
    BY <2>1, <2>2
\* No file is written, and who was to write has not moved, or only to the next step.
<1>2. ASSUME file' = file,
             \A b \in Actors : actor'[b].pc \in {"persist", "replace"} =>
                \/ actor'[b] = actor[b]
                \/ /\ actor[b].pc \in {"persist", "replace"}
                   /\ actor'[b].item = actor[b].item /\ actor'[b].records = actor[b].records
                \/ \A e \in Evidence \ {actor'[b].item} : actor'[b].records[e] = file[e]
      PROVE  Fresh' /\ OthersSurvive
  BY <1>2, <1>16 DEF Fresh, OthersSurvive
<1>3. ASSUME NEW a \in Actors, NEW l \in Locals, Moves(a, l),
             l.pc \in {"persist", "replace"} =>
                l.item = actor[a].item /\ l.records = actor[a].records
      PROVE  Fresh' /\ OthersSurvive
  <2>1. /\ actor'[a] = l
        /\ \A b \in Actors : b # a => actor'[b] = actor[b]
    BY <1>3, ActorMoves DEF Moves
  <2> QED
    BY <1>2, <1>3, <2>1 DEF Moves
<1>4. CASE \E x \in Indexers : Begin(x)
  BY <1>4, BeginStep, <1>3 DEF Moves
<1>5. CASE \E x \in Indexers : Select(x) \/ Fetch(x)
  <2>1. PICK x \in Indexers : Select(x) \/ Fetch(x)
    BY <1>5
  <2>2. PICK l \in Runs : Moves(x, l)
    BY <2>1, SelectStep, FetchStep
  <2> QED
    BY <2>2, <1>3 DEF Moves, Runs
<1>6. CASE \E x \in Indexers : Lookup(x)
  <2>1. PICK x \in Indexers : Lookup(x)
    BY <1>6
  <2>2. PICK l \in Guards : Moves(x, l)
    BY <2>1, LookupStep
  <2> QED
    BY <2>2, <1>3 DEF Moves, Guards
<1>7. CASE \E x \in Indexers : Guard(x)
  <2>1. PICK x \in Indexers : Guard(x)
    BY <1>7
  <2>2. PICK l \in {Idle} \cup Runs \cup Pendings : Moves(x, l)
    BY <2>1, GuardStep
  <2> QED
    BY <2>2, <1>3 DEF Moves, Runs, Pendings, Idle
<1>8. CASE \E x \in Indexers : Embed(x)
  <2>1. PICK x \in Indexers : Embed(x)
    BY <1>8
  <2>2. PICK l \in Pendings : Moves(x, l)
    BY <2>1, EmbedStep
  <2> QED
    BY <2>2, <1>3 DEF Moves, Pendings
<1>9. CASE \E c \in Cleaners : Remove(c)
  <2>1. PICK c \in Cleaners : Remove(c)
    BY <1>9
  <2>2. PICK l \in Pendings : Moves(c, l)
    BY <2>1, RemoveStep
  <2> QED
    BY <2>2, <1>3 DEF Moves, Pendings
<1>10. CASE \E a \in Actors : ReadFile(a)
  <2>1. PICK a \in Actors : ReadFile(a)
    BY <1>10
  <2>2. PICK l \in Locals :
          /\ LocalOK(l, rev, was) /\ Become(a, l) /\ UNCHANGED <<rev, stored, was, file>>
          /\ \A e \in Evidence \ {l.item} : l.records[e] = file[e]
    BY <2>1, ReadStep
  <2>3. actor'[a] = l /\ \A b \in Actors : b # a => actor'[b] = actor[b]
    BY <2>2, ActorMoves
  <2> QED
    BY <2>2, <2>3, <1>2
<1>11. CASE \E a \in Actors : WriteTemporary(a)
  <2>1. PICK a \in Actors : WriteTemporary(a)
    BY <1>11
  <2>2. PICK l \in Writes : Moves(a, l) /\ l.item = actor[a].item /\ l.records = actor[a].records
    BY <2>1, WriteStep
  <2> QED
    BY <2>2, <1>3 DEF Moves
<1>12. CASE \E a \in Actors : Replace(a)
  <2>1. PICK a \in Actors : Replace(a)
    BY <1>12
  <2>2. \A b \in Actors : actor'[b].pc \notin {"persist", "replace"}
    <3>1. a \in lock /\ lock' = lock \ {a} /\ \A b \in lock : b = a
      BY <2>1 DEF IInv, Locking, Replace, At
    <3>2. IInv'
      BY StepHolds
    <3> QED
      BY <3>1, <3>2 DEF IInv, Locking
  <2>3. OthersSurvive
    BY <2>1, <1>16 DEF OthersSurvive, Fresh, Replace, At
  <2> QED
    BY <2>2, <2>3 DEF Fresh
<1>13. CASE \E a \in Actors : Stop(a) \/ (a \in Indexers /\ Finish(a))
  <2>1. PICK a \in Actors : Stop(a) \/ (a \in Indexers /\ Finish(a))
    BY <1>13
  <2>2. Idle \in Locals /\ LocalOK(Idle, rev, was) /\ Idle.pc = "idle"
    BY DEF Locals, LocalOK, Idle
  <2>3. actor'[a] = Idle /\ (\A b \in Actors : b # a => actor'[b] = actor[b]) /\ file' = file
    BY <2>1, <2>2, ActorMoves DEF Stop, Finish
  <2> QED
    BY <2>2, <2>3, <1>2
<1>14. CASE Revise \/ (\E m \in Mentions : Resolve(m) \/ Reopen(m)) \/ UNCHANGED vars
  BY <1>14, <1>2 DEF Revise, Resolve, Reopen, vars
<1>15. CASE \E a \in Actors : FailToRead(a)
  <2>1. failures' # 0
    BY <1>15 DEF FailToRead, IInv
  <2> QED
    BY <2>1 DEF Fresh, OthersSurvive
<1> QED
  BY <1>4, <1>5, <1>6, <1>7, <1>8, <1>9, <1>10, <1>11, <1>12, <1>13, <1>14, <1>15 DEF Next

\* With one run, nobody else and reads that succeed, what the run has passed is
\* in the file.
LEMMA AloneHolds ==
  ASSUME ContentOK, ReadsHold, OneRun, IInv, Fresh, AInv, [Next]_vars
  PROVE  AInv'
<1>1. CASE Revise \/ (\E m \in Mentions : Resolve(m) \/ Reopen(m)) \/ UNCHANGED vars
  BY <1>1 DEF AInv, AloneOK, Passed, Revise, Resolve, Reopen, vars
<1>2. CASE ~ (Revise \/ (\E m \in Mentions : Resolve(m) \/ Reopen(m)) \/ UNCHANGED vars)
  <2>1. PICK x \in Indexers :
          \/ Begin(x) \/ Select(x) \/ Fetch(x) \/ Lookup(x) \/ Guard(x) \/ Embed(x) \/ Finish(x)
          \/ ReadFile(x) \/ WriteTemporary(x) \/ Replace(x) \/ Stop(x)
    BY <1>2 DEF Next, OneRun, Actors, ReadsHold, FailToRead
  <2> DEFINE k == actor[x]
  <2>2. x \in Actors /\ k \in Locals /\ LocalOK(k, rev, was) /\ AloneOK(k) /\ file \in Files
    BY DEF IInv, AInv, Actors
  <2>3. SUFFICES AloneOK(actor[x])'
    BY DEF AInv, OneRun
  <2>4. ASSUME NEW l \in Locals, Moves(x, l) PROVE actor'[x] = l /\ file' = file
    BY <2>2, <2>4, ActorMoves DEF Moves
  <2>5. CASE Begin(x)
    <3>1. actor'[x].pc = "begun"
      BY <2>5, BeginStep, <2>4 DEF Moves
    <3> QED
      BY <3>1 DEF AloneOK
  <2>6. CASE Select(x)
    <3>1. PICK l \in Runs : (\A e \in Evidence : l.items[e] = 0) /\ Moves(x, l)
      BY <2>6, SelectStep
    <3> QED
      BY <3>1, <2>4 DEF AloneOK, Moves, Runs
  <2>14. CASE Fetch(x)
    <3>1. PICK e \in Evidence, l \in Runs :
            /\ Moves(x, l) /\ l.rev = k.rev
            /\ l.items = [k.items EXCEPT ![e] = Items[stored][e]]
            /\ l.todo = IF Items[stored][e] = 0 THEN k.todo ELSE k.todo \cup {e}
      BY <2>14, FetchStep
    <3>2. actor'[x] = l /\ file' = file /\ k \in Runs /\ k.pc = "run"
      BY <3>1, <2>2, <2>4, <2>14, PcSays DEF Moves, Fetch, At
    <3>3. \A d \in Evidence : l.items[d] = IF d = e THEN Items[stored][e] ELSE k.items[d]
      BY <3>1, <3>2 DEF Runs
    <3>4. \A d \in Evidence \ l.todo : l.items[d] # 0 => Has(l, d, file[d])
      BY <3>1, <3>2, <3>3, <2>2 DEF AloneOK, Has
    <3> QED
      BY <3>2, <3>4 DEF AloneOK, Runs
  <2>7. CASE Lookup(x)
    <3>1. PICK e \in k.todo, l \in Guards :
            /\ Moves(x, l)
            /\ l.item = e /\ l.existing = Loaded(file)[e]
            /\ l.next.items = k.items /\ l.next.rev = k.rev
            /\ l.next.todo = k.todo \ {e}
      BY <2>7, LookupStep
    <3>2. actor'[x] = l /\ file' = file /\ l.pc = "guard"
      BY <3>1, <2>4 DEF Guards, Moves
    <3>3. k \in Runs /\ k.pc = "run" /\ e \in Evidence
      BY <2>2, <2>7, <3>1, PcSays DEF Lookup, At, Runs
    <3>4. Loaded(file) = file
      <4>1. DOMAIN Broken = {} /\ DOMAIN file = Evidence
        BY <2>2 DEF Broken, Files
      <4> QED
        BY <3>3, <4>1 DEF Loaded
    <3>5. Passed(l.next, l.item, file)
      BY <2>2, <3>1, <3>3 DEF AloneOK, Passed, Has
    <3> QED
      BY <3>1, <3>2, <3>4, <3>5 DEF AloneOK
  <2>8. CASE Guard(x)
    <3>1. /\ k.pc = "guard" /\ k \in Guards /\ k.next \in Runs
          /\ Passed(k.next, k.item, file) /\ k.existing = file[k.item]
      BY <2>2, <2>8, PcSays DEF Guard, At, AloneOK, Guards
    <3>2. Has(k.next, k.item, Incoming(x))
      BY DEF Has, Incoming
    <3>3. CASE Moves(x, Idle)
      <4>1. Idle \in Locals /\ Idle.pc = "idle"
        BY DEF Locals, Idle
      <4> QED
        BY <3>3, <4>1, <2>4 DEF AloneOK
    <3>4. CASE k.existing = Incoming(x) /\ Moves(x, k.next)
      <4>1. actor'[x] = k.next /\ file' = file /\ k.next.pc = "run"
        BY <3>1, <3>4, <2>4 DEF Moves, Runs
      <4>2. \A d \in Evidence \ k.next.todo : k.next.items[d] # 0 => Has(k.next, d, file[d])
        BY <3>1, <3>2, <3>4 DEF Passed
      <4> QED
        BY <4>1, <4>2 DEF AloneOK
    <3>5. CASE \E l \in Pendings :
                  /\ Moves(x, l)
                  /\ l.item = k.item /\ l.record = Incoming(x) /\ l.next = k.next
      <4>1. PICK l \in Pendings :
                  /\ Moves(x, l)
                  /\ l.item = k.item /\ l.record = Incoming(x) /\ l.next = k.next
        BY <3>5
      <4>2. actor'[x] = l /\ file' = file /\ l.pc \in {"embed", "upsert"} /\ l.next.pc = "run"
        BY <3>1, <4>1, <2>4 DEF Moves, Pendings, Runs
      <4> QED
        BY <3>1, <3>2, <4>1, <4>2 DEF AloneOK
    <3> QED
      BY <2>8, <3>3, <3>4, <3>5, GuardStep
  <2>9. CASE Embed(x)
    <3>1. PICK l \in Pendings :
             /\ Moves(x, l)
             /\ l.item = k.item /\ l.record = k.record /\ l.next = k.next
      BY <2>9, EmbedStep
    <3>2. actor'[x] = l /\ file' = file /\ l.pc \in {"embed", "upsert"}
      BY <3>1, <2>4 DEF Moves, Pendings
    <3> QED
      BY <2>2, <2>9, <3>1, <3>2 DEF AloneOK, Embed, At
  <2>10. CASE ReadFile(x)
    <3>1. PICK l \in Writes :
            /\ l \in Locals /\ LocalOK(l, rev, was)
            /\ Become(x, l) /\ UNCHANGED <<rev, stored, was, file>>
            /\ l.pc = "persist" /\ l.item = k.item /\ l.next = k.next
            /\ l.records[l.item] = k.record
      BY <2>2, <2>10, ReadStep
    <3>2. actor'[x] = l
      BY <2>2, <3>1, ActorMoves
    <3> QED
      BY <2>2, <2>10, <3>1, <3>2 DEF AloneOK, ReadFile, At
  <2>11. CASE WriteTemporary(x)
    <3>1. PICK l \in Writes :
             /\ Moves(x, l)
             /\ l.item = k.item /\ l.records = k.records /\ l.next = k.next
      BY <2>2, <2>11, WriteStep
    <3>2. actor'[x] = l /\ file' = file /\ l.pc \in {"persist", "replace"}
      BY <3>1, <2>4 DEF Moves, Writes
    <3> QED
      BY <2>2, <2>11, <3>1, <3>2 DEF AloneOK, WriteTemporary, At
  <2>12. CASE Replace(x)
    <3>1. /\ k \in Writes /\ k.next \in Runs /\ k.next.pc = "run"
          /\ Passed(k.next, k.item, file) /\ Has(k.next, k.item, k.records[k.item])
      BY <2>2, <2>12, PcSays DEF Replace, At, AloneOK, Writes, Idle
    <3>2. actor'[x] = k.next /\ file' = k.records
      BY <2>12, <2>2 DEF Replace, Become, IInv
    <3>4. \A d \in Evidence \ {k.item} : k.records[d] = file[d]
      BY <2>2, <2>12 DEF Fresh, Replace, At, IInv, ReadsHold
    <3>5. \A d \in Evidence \ k.next.todo : k.next.items[d] # 0 => Has(k.next, d, k.records[d])
      BY <3>1, <3>4 DEF Passed
    <3> QED
      BY <3>1, <3>2, <3>5 DEF AloneOK
  <2>13. CASE Finish(x) \/ Stop(x)
    <3>1. actor'[x] = Idle
      BY <2>2, <2>13 DEF Finish, Stop, Become, IInv
    <3> QED
      BY <3>1 DEF AloneOK, Idle
  <2> QED
    BY <2>1, <2>5, <2>6, <2>7, <2>8, <2>9, <2>10, <2>11, <2>12, <2>13, <2>14
<1> QED
  BY <1>1, <1>2

\* It includes that no checkpoint is false.
LEMMA AloneFollows == AInv => NoFalseCheckpoint
BY DEF AInv, AloneOK, NoFalseCheckpoint, At, Has

-----------------------------------------------------------------------------
\* Of any run of the index the invariant holds.
THEOREM Invariant == ContentOK /\ Spec => []IInv
<1> SUFFICES ASSUME ContentOK PROVE Spec => []IInv
  OBVIOUS
<1>1. Init => IInv
  BY InitHolds
<1>2. IInv /\ [Next]_vars => IInv'
  BY StepHolds
<1> QED
  BY <1>1, <1>2, PTL DEF Spec

\* Whoever writes, crashes or fails to read: the document parses and the lock is
\* held by its writer, and a record carries a hash that its evidence had at some
\* moment while the meeting was at the revision of the stamp.
THEOREM Stamps == ContentOK /\ Spec => [](TypeOK /\ StampIsTrue)
<1> SUFFICES ASSUME ContentOK PROVE Spec => [](TypeOK /\ StampIsTrue)
  OBVIOUS
<1>1. IInv => TypeOK /\ StampIsTrue
  BY TypesHold
<1>2. Spec => []IInv
  BY Invariant
<1> QED
  BY <1>1, <1>2, PTL

\* As long as reads succeed, a write changes the record it is of and no other,
\* whatever crashed or wrote before it.
THEOREM Others == ContentOK /\ Spec => [][OthersSurvive]_vars
<1> SUFFICES ASSUME ContentOK PROVE Spec => [][OthersSurvive]_vars
  OBVIOUS
<1>1. Init => IInv /\ Fresh
  BY InitHolds
<1>2. IInv /\ Fresh /\ [Next]_vars => IInv' /\ Fresh' /\ [OthersSurvive]_vars
  BY StepHolds, FreshHolds
<1> QED
  BY <1>1, <1>2, PTL DEF Spec

\* When reads succeed and a run has no other writer beside it, what it has
\* passed is in the file with its revision.
THEOREM Checkpoints == ContentOK /\ ReadsHold /\ OneRun /\ Spec => []NoFalseCheckpoint
<1> SUFFICES ASSUME ContentOK, ReadsHold, OneRun PROVE Spec => []NoFalseCheckpoint
  OBVIOUS
<1>1. Init => IInv /\ Fresh /\ AInv
  BY InitHolds
<1>2. IInv /\ Fresh /\ AInv /\ [Next]_vars => IInv' /\ Fresh' /\ AInv'
  BY StepHolds, FreshHolds, AloneHolds
<1> QED
  BY <1>1, <1>2, AloneFollows, PTL DEF Spec
=============================================================================
