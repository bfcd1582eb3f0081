--------------------------- MODULE SemanticIndex ---------------------------
(***************************************************************************)
(* The semantic index of one meeting: index_semantic_evidence of a         *)
(* worker's run (app/services/semantic_indexing_service.py) over the JSON  *)
(* file that holds all vectors (JsonFileSemanticIndexRepository), while    *)
(* the meeting is revised and mentions are resolved.                       *)
(*                                                                         *)
(* The evidence of a meeting is built from all resolved mentions that are  *)
(* stored, those of replaced revisions too, and is stamped with the        *)
(* revision the run has read.                                              *)
(*                                                                         *)
(* Actors are in processes of their own.  What an operation of the file    *)
(* does holds the OS lock, and is cut into the steps a crash may fall      *)
(* between; the lock goes with the process.  The vector itself is left     *)
(* out: it belongs to the hash.                                            *)
(***************************************************************************)
EXTENDS Naturals

CONSTANTS
    Indexers,     \* runs of the stage
    Cleaners,     \* callers of remove_evidence
    Evidence,     \* evidence ids
    MaxRev,       \* bound on revisions
    Mentions,     \* mentions that evidence may rest on
    Of,           \* of each mention: its revision, 0 for another meeting's
    Scope,        \* of the current mentions: the ids that concern their entities
    Items,        \* of the resolved mentions: the hash of every id, 0 where there is none
    ReadMayFail,  \* whether an open or read of the file may raise OSError
    MaxFailures   \* bound on such failures

Actors == Indexers \cup Cleaners
Absent == [rev |-> 0, hash |-> 0]
Idle   == [pc |-> "idle"]
Broken == <<>>   \* a document that does not parse

VARIABLES
    rev,       \* source_revision of the meeting
    stored,    \* the mentions that are RESOLVED
    was,       \* what revision and mentions have been (history)
    file,      \* the document under the name of the index
    lock,      \* who holds the OS lock
    failures,  \* reads that failed
    actor      \* where each actor is, and its locals

vars == <<rev, stored, was, file, lock, failures, actor>>
meeting == <<rev, stored, was>>

Init ==
    /\ rev = 1
    /\ stored = {}
    /\ was = {[rev |-> 1, stored |-> {}]}
    /\ file = [e \in Evidence |-> Absent]
    /\ lock = {}
    /\ failures = 0
    /\ actor = [a \in Actors |-> Idle]

At(a, pc)    == actor[a].pc = pc
Become(a, l) == actor' = [actor EXCEPT ![a] = l]

\* _load, with the errors _refresh swallows.
Loaded(f) == IF f = Broken THEN [e \in Evidence |-> Absent] ELSE f

-----------------------------------------------------------------------------
(* The run of the stage.                                                   *)

\* index_semantic_evidence reads the revision ...
Begin(x) ==
    /\ At(x, "idle")
    /\ Become(x, [pc |-> "begun", rev |-> rev])
    /\ UNCHANGED <<meeting, file, lock, failures>>

\* ... then the mentions of the revision that is current now, whose entities are
\* asked about ...
Select(x) ==
    /\ At(x, "begun")
    /\ Become(x, [pc |-> "run", rev |-> actor[x].rev, items |-> [e \in Evidence |-> 0], todo |-> {},
                  left |-> Scope[{m \in stored : Of[m] = rev}]])
    /\ UNCHANGED <<meeting, file, lock, failures>>

\* ... and builds one item after the other, from all that is stored.
Fetch(x) ==
    /\ At(x, "run")
    /\ \E e \in actor[x].left :
          Become(x, [pc    |-> "run", rev |-> actor[x].rev, left |-> actor[x].left \ {e},
                     items |-> [actor[x].items EXCEPT ![e] = Items[stored][e]],
                     todo  |-> IF Items[stored][e] = 0 THEN actor[x].todo
                                                       ELSE actor[x].todo \cup {e}])
    /\ UNCHANGED <<meeting, file, lock, failures>>

\* index_evidence: get_by_composite_key, under the lock.
Lookup(x) ==
    /\ At(x, "run") /\ actor[x].left = {} /\ lock = {}
    /\ \E e \in actor[x].todo :
          Become(x, [pc |-> "guard", item |-> e, existing |-> Loaded(file)[e],
                     next |-> [actor[x] EXCEPT !.todo = @ \ {e}]])
    /\ UNCHANGED <<meeting, file, lock, failures>>

\* Mutant: the revision of the meeting is not compared.
AcceptedUnguarded(x) ==
    actor[x].existing.rev <= actor[x].next.rev

\* The revision of the meeting, and that of the record, let the item pass.
Accepted(x) ==
    /\ actor[x].next.rev = rev
    /\ actor[x].existing.rev <= actor[x].next.rev

\* What is to be stored for the item.
Incoming(x) == [rev  |-> actor[x].next.rev, hash |-> actor[x].next.items[actor[x].item]]

\* Rejected, or there already, or to be written; a vector for a new hash takes
\* a call of the embedding provider first.
Guard(x) ==
    /\ At(x, "guard")
    /\ Become(x, IF ~ Accepted(x) THEN Idle
                 ELSE IF actor[x].existing = Incoming(x) THEN actor[x].next
                 ELSE [pc |-> IF actor[x].existing.hash = Incoming(x).hash
                              THEN "upsert" ELSE "embed",
                       item |-> actor[x].item, record |-> Incoming(x),
                       next |-> actor[x].next])
    /\ UNCHANGED <<meeting, file, lock, failures>>

\* The call returns.
Embed(x) ==
    /\ At(x, "embed")
    /\ Become(x, [actor[x] EXCEPT !.pc = "upsert"])
    /\ UNCHANGED <<meeting, file, lock, failures>>

\* remove_evidence; no record is written in its place.
Remove(c) ==
    /\ At(c, "idle")
    /\ \E e \in Evidence :
          Become(c, [pc |-> "upsert", item |-> e, record |-> Absent, next |-> Idle])
    /\ UNCHANGED <<meeting, file, lock, failures>>

-----------------------------------------------------------------------------
(* upsert and delete_by_evidence_id of the file.                           *)

\* With the lock taken, the file is read and the record replaced.
ReadFile(a) ==
    /\ At(a, "upsert") /\ lock = {}
    /\ Become(a, [pc |-> "persist", item |-> actor[a].item, next |-> actor[a].next,
                  records |-> [Loaded(file) EXCEPT ![actor[a].item] = actor[a].record]])
    /\ lock' = {a}
    /\ UNCHANGED <<meeting, file, failures>>

\* An OSError of the read is taken for an empty index.
FailToRead(a) ==
    /\ ReadMayFail /\ failures < MaxFailures
    /\ At(a, "upsert") /\ lock = {}
    /\ Become(a, [pc |-> "persist", item |-> actor[a].item, next |-> actor[a].next,
                  records |-> [Loaded(Broken) EXCEPT ![actor[a].item] = actor[a].record]])
    /\ lock' = {a}
    /\ failures' = failures + 1
    /\ UNCHANGED <<meeting, file>>

\* The whole document is written under a temporary name ...
WriteTemporary(a) ==
    /\ At(a, "persist")
    /\ Become(a, [actor[a] EXCEPT !.pc = "replace"])
    /\ UNCHANGED <<meeting, file, lock, failures>>

\* ... which os.replace makes the index.
Replace(a) ==
    /\ At(a, "replace")
    /\ file' = actor[a].records
    /\ lock' = lock \ {a}
    /\ Become(a, actor[a].next)
    /\ UNCHANGED <<meeting, failures>>

\* An error or a crash, anywhere.
Stop(a) ==
    /\ ~ At(a, "idle")
    /\ Become(a, Idle)
    /\ lock' = lock \ {a}
    /\ UNCHANGED <<meeting, file, failures>>

\* All is indexed.
Finish(x) ==
    /\ At(x, "run") /\ actor[x].left = {} /\ actor[x].todo = {}
    /\ Become(x, Idle)
    /\ UNCHANGED <<meeting, file, lock, failures>>

-----------------------------------------------------------------------------
(* The meeting, and what the stages before store.                          *)

\* What is so now has been.
Note == was' = was \cup {[rev |-> rev', stored |-> stored']}

Revise ==
    /\ rev < MaxRev
    /\ rev' = rev + 1
    /\ UNCHANGED <<stored, file, lock, failures, actor>>
    /\ Note

\* A mention of the current revision, or of another meeting, is resolved ...
Resolve(m) ==
    /\ Of[m] \in {0, rev} /\ m \notin stored
    /\ stored' = stored \cup {m}
    /\ UNCHANGED <<rev, file, lock, failures, actor>>
    /\ Note

\* ... or found ambiguous by a later run. None is deleted.
Reopen(m) ==
    /\ Of[m] \in {0, rev} /\ m \in stored
    /\ stored' = stored \ {m}
    /\ UNCHANGED <<rev, file, lock, failures, actor>>
    /\ Note

Next ==
    \/ \E x \in Indexers :
          Begin(x) \/ Select(x) \/ Fetch(x) \/ Lookup(x) \/ Guard(x) \/ Embed(x) \/ Finish(x)
    \/ \E c \in Cleaners : Remove(c)
    \/ \E a \in Actors :
          ReadFile(a) \/ FailToRead(a) \/ WriteTemporary(a) \/ Replace(a) \/ Stop(a)
    \/ Revise
    \/ \E m \in Mentions : Resolve(m) \/ Reopen(m)

Spec == Init /\ [][Next]_vars

-----------------------------------------------------------------------------
Types == [rev : 0 .. MaxRev, hash : Nat]

\* The document parses, is about revisions there were, and the lock is held for
\* as long as a write takes.
TypeOK ==
    /\ rev \in 1 .. MaxRev
    /\ stored \subseteq Mentions
    /\ file \in [Evidence -> Types]
    /\ \A e \in Evidence : file[e].rev <= rev
    /\ lock \subseteq Actors
    /\ \A a \in Actors : actor[a].pc \in {"persist", "replace"} <=> a \in lock

\* Of every step.  "every operation observes the latest committed state committed by any
\* process": as long as no read has failed a write changes its own record and no
\* other, whatever crashed or wrote before it.
OthersSurvive ==
    failures' = 0 =>
        \A e \in Evidence :
            file'[e] # file[e] => \E a \in Actors : At(a, "replace") /\ actor[a].item = e

\* What evidence e said at some moment while the meeting was at revision r.
Said(r, e, hash) == \E w \in was : w.rev = r /\ Items[w.stored][e] = hash

\* "every semantic index write is validated against the meeting's authoritative
\* source revision": a record carries what its evidence said at some moment while
\* the meeting was at the revision of the stamp, though revision and evidence are
\* read at different times, and an older text and vector may be taken over.
StampIsTrue ==
    \A e \in Evidence : file[e].rev > 0 => Said(file[e].rev, e, file[e].hash)

\* "an indexing failure propagates and cannot produce a false checkpoint": a run
\* that comes to its end has every item it has built in the file, with its revision.
NoFalseCheckpoint ==
    \A x \in Indexers : At(x, "run") =>
        \A e \in Evidence \ actor[x].todo :
            actor[x].items[e] # 0 => file[e] = [rev |-> actor[x].rev, hash |-> actor[x].items[e]]

=============================================================================
