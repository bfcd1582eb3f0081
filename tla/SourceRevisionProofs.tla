------------------------ MODULE SourceRevisionProofs ------------------------
(***************************************************************************)
(* Theorems about SourceRevision, for any clients, texts, tries and        *)
(* numbers of requests: revisions are gapless, each has its job, an        *)
(* accepted or refused request tells the truth, extractions are faithful.  *)
(***************************************************************************)
EXTENDS SourceRevisionInvariant, SourceRevisionLog, SequenceTheorems, TLAPS

USE TriesAssumption, RequestsAssumption, NoneAssumption

\* What the invariant says of request r of client c, beside rows s (source),
\* e (extraction) and ledger l.
ReqOK(c, r, s, e, l) ==
    /\ r \in Request
    /\ r.pc # "idle" => r.answer = "NONE" /\ r.tries < MaxTries
    /\ r.op # "extract" /\ r.pc \in {"read", "write"} => r.text \in Texts
    /\ r.op = "revise" /\ r.pc = "read" => r.began + r.tries <= s.rev
    /\ r.pc = "write"
          => /\ r.op \in {"ingest", "revise"}
             /\ r.rev \in 1 .. s.rev + 1
             /\ r.op = "revise" => r.began + r.tries < r.rev
    /\ r.pc \in {"check", "save"}
          => /\ r.op = "extract"
             /\ r.rev \in 1 .. s.rev
             /\ r.text = l[r.rev].text
    /\ r.pc = "enqueue"
          => /\ r.op \in {"ingest", "extract"}
             /\ r.rev \in 1 .. s.rev
             /\ r.op = "extract" => r.rev <= e.rev
    /\ r.op = "revise" /\ r.answer = "OK"
          => /\ r.rev \in 1 .. Len(l)
             /\ l[r.rev] = [by |-> c, text |-> r.text]
    /\ r.op = "revise" /\ r.answer = "CONFLICT"
          => s.rev >= r.began + MaxTries

\* What it says of the rows.
Rows ==
    /\ source \in Stamped /\ extraction \in Stamped
    /\ jobs \subseteq Jobs
    /\ ledger \in Seq([by : Clients, text : Texts])
    /\ GaplessHistory /\ EveryRevisionHasJob
    /\ ExtractionFaithful /\ RefreshFollowsExtraction

Reqs ==
    /\ req \in [Clients -> Request]
    /\ \A c \in Clients : ReqOK(c, req[c], source, extraction, ledger)

\* The rows only grow: no revision is renumbered or rewritten.
Grows ==
    /\ source.rev <= source'.rev /\ extraction.rev <= extraction'.rev
    /\ \A i \in 1 .. source.rev : ledger'[i] = ledger[i]

\* The invariant is about the rows and about each request.
LEMMA Parts == IInv <=> Rows /\ Reqs
  BY DEF IInv, Rows, Reqs, ReqOK, TypeOK, Pending, WritesNext, ReadsFaithful,
         EnqueuesExisting, AnswerOwnsRevision, ConflictMeansBeaten

\* The same after a step.
LEMMA PartsPrime == IInv' <=> Rows' /\ Reqs'
  BY Parts, PTL

\* A request that does not move keeps its promises while the rows grow.
LEMMA Grown ==
  ASSUME Rows, Rows', Grows, NEW c \in Clients, NEW r,
         ReqOK(c, r, source, extraction, ledger)
  PROVE  ReqOK(c, r, source', extraction', ledger')
<1>1. /\ source.rev \in Nat /\ source'.rev \in Nat
      /\ extraction.rev \in Nat /\ extraction'.rev \in Nat
      /\ Len(ledger) = source.rev /\ Len(ledger') = source'.rev
      /\ r.rev \in Nat /\ r.began \in Nat /\ r.tries \in Nat
  BY DEF Rows, Stamped, GaplessHistory, ReqOK, Request
<1>2. r.rev \in 1 .. source.rev =>
         r.rev \in 1 .. source'.rev /\ ledger'[r.rev] = ledger[r.rev]
  BY <1>1 DEF Grows
<1>3. r.rev \in 1 .. source.rev + 1 => r.rev \in 1 .. source'.rev + 1
  BY <1>1 DEF Grows
<1>4. /\ r.op = "revise" /\ r.pc = "read" => r.began + r.tries <= source'.rev
      /\ r.op = "revise" /\ r.answer = "CONFLICT"
            => source'.rev >= r.began + MaxTries
      /\ r.rev <= extraction.rev => r.rev <= extraction'.rev
  BY <1>1 DEF ReqOK, Grows
<1>5. r.op = "revise" /\ r.answer = "OK"
         => /\ r.rev \in 1 .. Len(ledger')
            /\ ledger'[r.rev] = [by |-> c, text |-> r.text]
  BY <1>1, <1>2 DEF ReqOK
<1>6. r.pc \in {"check", "save"}
         => r.rev \in 1 .. source'.rev /\ r.text = ledger'[r.rev].text
  BY <1>2 DEF ReqOK
<1>7. r.pc = "enqueue"
         => /\ r.rev \in 1 .. source'.rev
            /\ r.op = "extract" => r.rev <= extraction'.rev
  BY <1>2, <1>4 DEF ReqOK
<1> QED
  BY <1>3, <1>4, <1>5, <1>6, <1>7 DEF ReqOK

\* One request moves: it is enough to look at the rows and at that request.
LEMMA OneMoves ==
  ASSUME Rows, Reqs, Rows', Grows, NEW c \in Clients, NEW r,
         req' = [req EXCEPT ![c] = r],
         ReqOK(c, r, source', extraction', ledger')
  PROVE  Reqs'
<1>1. /\ req'[c] = r
      /\ \A d \in Clients : d # c => req'[d] = req[d]
  BY DEF Reqs
<1>2. req' \in [Clients -> Request]
  BY DEF Reqs, ReqOK
<1>3. \A d \in Clients : d # c =>
         ReqOK(d, req'[d], source', extraction', ledger')
  BY <1>1, Grown DEF Reqs
<1> QED
  BY <1>1, <1>2, <1>3 DEF Reqs

\* A step that leaves the rows alone.
LEMMA SameRows ==
  ASSUME Rows, UNCHANGED <<source, jobs, extraction, ledger>>
  PROVE  Rows' /\ Grows
<1>1. Rows'
  BY DEF Rows, GaplessHistory, EveryRevisionHasJob, ExtractionFaithful,
         RefreshFollowsExtraction
<1>2. Grows
  BY DEF Rows, Stamped, Grows
<1> QED
  BY <1>1, <1>2

\* An answer ends a request.  It is true of a request in progress, because no
\* promise is attached to any answer but "OK" and "CONFLICT" of a revise.
LEMMA AnswerOK ==
  ASSUME Rows, Reqs, NEW c \in Clients, NEW a \in Answers,
         req[c].pc # "idle",
         req[c].op = "revise" => a \notin {"OK", "CONFLICT"}
  PROVE  ReqOK(c, [req[c] EXCEPT !.pc = "idle", !.answer = a],
               source, extraction, ledger)
<1>1. ReqOK(c, req[c], source, extraction, ledger)
  BY DEF Reqs
<1> QED
  BY <1>1 DEF ReqOK, Request

-----------------------------------------------------------------------------
(* The steps that leave the rows alone.                                    *)

\* The request of c has moved to one that keeps its promises.
Moved(c) ==
    \E r : /\ req' = [req EXCEPT ![c] = r]
           /\ ReqOK(c, r, source, extraction, ledger)

\* A new request promises nothing beyond its type.
LEMMA SendMoves ==
  ASSUME Rows, Reqs, NEW c \in Clients, Send(c) PROVE Moved(c)
<1>1. PICK op \in Ops, text \in Texts :
         req' = [req EXCEPT ![c] =
                   [pc |-> "read", op |-> op,
                    text |-> IF op = "extract" THEN None ELSE text,
                    tries |-> 0, rev |-> 0, began |-> source.rev,
                    answer |-> "NONE", left |-> req[c].left - 1]]
  BY DEF Send, Reqs
<1>2. req[c].left - 1 \in 0 .. MaxRequests /\ source.rev \in Nat
  BY DEF Send, Reqs, ReqOK, Request, Rows, Stamped
<1>3. ReqOK(c, [pc |-> "read", op |-> op,
                text |-> IF op = "extract" THEN None ELSE text,
                tries |-> 0, rev |-> 0, began |-> source.rev,
                answer |-> "NONE", left |-> req[c].left - 1],
            source, extraction, ledger)
  BY <1>2 DEF ReqOK, Request, Answers, Ops
<1> QED
  BY <1>1, <1>3 DEF Moved

\* An ingest writes revision 1, or enqueues the revision that is there.
LEMMA IngestReadMoves ==
  ASSUME Rows, Reqs, NEW c \in Clients, IngestRead(c) PROVE Moved(c)
<1>0. /\ ReqOK(c, req[c], source, extraction, ledger)
      /\ source.rev \in Nat /\ req \in [Clients -> Request]
      /\ req[c] \in Request
  BY DEF Reqs, Rows, Stamped
<1>1. CASE source.rev = 0 /\ GoWith(c, "write", 1)
  <2> DEFINE r == [req[c] EXCEPT !.pc = "write", !.rev = 1]
  <2>1. /\ r \in Request /\ r.pc = "write" /\ r.rev = 1
        /\ r.op = req[c].op /\ r.text = req[c].text
        /\ r.answer = req[c].answer /\ r.tries = req[c].tries
    BY <1>0 DEF Request
  <2> HIDE DEF r
  <2>2. ReqOK(c, r, source, extraction, ledger)
    BY <1>0, <1>1, <2>1 DEF IngestRead, ReqOK
  <2>3. req' = [req EXCEPT ![c] = r]
    BY <1>0, <1>1 DEF GoWith, r
  <2> QED
    BY <2>2, <2>3 DEF Moved
<1>2. CASE source.rev # 0 /\ GoWith(c, "enqueue", source.rev)
  <2> DEFINE r == [req[c] EXCEPT !.pc = "enqueue", !.rev = source.rev]
  <2>1. /\ r \in Request /\ r.pc = "enqueue" /\ r.rev = source.rev
        /\ r.op = req[c].op /\ r.text = req[c].text
        /\ r.answer = req[c].answer /\ r.tries = req[c].tries
    BY <1>0 DEF Request
  <2> HIDE DEF r
  <2>2. ReqOK(c, r, source, extraction, ledger)
    BY <1>0, <1>2, <2>1 DEF IngestRead, ReqOK
  <2>3. req' = [req EXCEPT ![c] = r]
    BY <1>0, <1>2 DEF GoWith, r
  <2> QED
    BY <2>2, <2>3 DEF Moved
<1>3. CASE Answer(c, "CONFLICT")
  <2>1. ReqOK(c, [req[c] EXCEPT !.pc = "idle", !.answer = "CONFLICT"],
              source, extraction, ledger)
    BY AnswerOK DEF IngestRead, Answers
  <2> QED
    BY <1>0, <1>3, <2>1 DEF Answer, Moved
<1> QED
  BY <1>1, <1>2, <1>3 DEF IngestRead

\* A revise writes the revision after the one it has read, which is beyond all
\* its lost tries.
LEMMA ReviseReadMoves ==
  ASSUME Rows, Reqs, NEW c \in Clients, ReviseRead(c) PROVE Moved(c)
<1>0. /\ ReqOK(c, req[c], source, extraction, ledger)
      /\ source.rev \in Nat /\ req \in [Clients -> Request]
      /\ req[c] \in Request
  BY DEF Reqs, Rows, Stamped
<1>1. CASE source.rev # 0 /\ GoWith(c, "write", NextRevision)
  <2> DEFINE n == source.rev + 1
             r == [req[c] EXCEPT !.pc = "write", !.rev = n]
  <2>0. n \in Nat
    BY <1>0
  <2> HIDE DEF n
  <2>1. /\ r \in Request /\ r.pc = "write" /\ r.rev = n
        /\ r.op = req[c].op /\ r.text = req[c].text
        /\ r.answer = req[c].answer /\ r.tries = req[c].tries
        /\ r.began = req[c].began
    BY <1>0, <2>0 DEF Request
  <2> HIDE DEF r
  <2>2. /\ req[c].began + req[c].tries <= source.rev
        /\ req[c].began \in Nat /\ req[c].tries \in Nat
    BY <1>0 DEF ReviseRead, ReqOK, Request
  <2>3. r.began + r.tries < r.rev /\ r.rev \in 1 .. source.rev + 1
    BY <1>0, <2>1, <2>2 DEF n
  <2>4. ReqOK(c, r, source, extraction, ledger)
    BY <1>0, <2>1, <2>3 DEF ReviseRead, ReqOK
  <2>5. req' = [req EXCEPT ![c] = r]
    BY <1>0, <1>1 DEF GoWith, NextRevision, r, n
  <2> QED
    BY <2>4, <2>5 DEF Moved
<1>2. CASE Answer(c, "NOTFOUND")
  <2>1. ReqOK(c, [req[c] EXCEPT !.pc = "idle", !.answer = "NOTFOUND"],
              source, extraction, ledger)
    BY AnswerOK DEF ReviseRead, Answers
  <2> QED
    BY <1>0, <1>2, <2>1 DEF Answer, Moved
<1> QED
  BY <1>1, <1>2 DEF ReviseRead

\* A conflict of a revise counts one try, which one accepted revision has won.
LEMMA SaveConflictsMoves ==
  ASSUME Rows, Reqs, NEW c \in Clients, SaveConflicts(c) PROVE Moved(c)
<1>0. /\ ReqOK(c, req[c], source, extraction, ledger)
      /\ source.rev \in Nat /\ req \in [Clients -> Request]
      /\ req[c] \in Request
  BY DEF Reqs, Rows, Stamped
<1>1. CASE req[c].op = "ingest" /\ Answer(c, "CONFLICT")
  <2>1. ReqOK(c, [req[c] EXCEPT !.pc = "idle", !.answer = "CONFLICT"],
              source, extraction, ledger)
    BY <1>1, AnswerOK DEF SaveConflicts, Answers
  <2> QED
    BY <1>0, <1>1, <2>1 DEF Answer, Moved
<1>2. CASE req[c].op # "ingest"
  <2> DEFINE n == req[c].tries + 1
             r == [req[c] EXCEPT !.tries = n,
                                 !.pc = IF n < MaxTries THEN "read" ELSE "idle",
                                 !.answer = IF n < MaxTries THEN "NONE"
                                            ELSE "CONFLICT"]
  <2>1. /\ req[c].op = "revise" /\ req[c].text \in Texts
        /\ req[c].tries < MaxTries /\ req[c].tries \in Nat
        /\ req[c].began \in Nat /\ req[c].rev \in Nat
        /\ req[c].began + req[c].tries < source.rev
    BY <1>0, <1>2 DEF SaveConflicts, ReqOK, Request
  <2>2. n \in 0 .. MaxTries /\ req[c].began + n <= source.rev
    BY <1>0, <2>1
  <2>3. /\ r \in Request /\ r.op = "revise" /\ r.text = req[c].text
        /\ r.tries = n /\ r.began = req[c].began
        /\ n < MaxTries => r.pc = "read" /\ r.answer = "NONE"
        /\ ~ (n < MaxTries) => r.pc = "idle" /\ r.answer = "CONFLICT"
    BY <1>0, <2>1, <2>2 DEF Request, Answers
  <2>4. req' = [req EXCEPT ![c] = r]
    BY <1>0, <1>2 DEF SaveConflicts, MayRetry
  <2> HIDE DEF r
  <2>5. CASE n < MaxTries
    BY <2>1, <2>2, <2>3, <2>4, <2>5 DEF Moved, ReqOK
  <2>6. CASE ~ (n < MaxTries)
    <3>1. source.rev >= r.began + MaxTries
      BY <1>0, <2>1, <2>2, <2>3, <2>6
    <3> QED
      BY <2>1, <2>2, <2>3, <2>4, <2>6, <3>1 DEF Moved, ReqOK
  <2> QED
    BY <2>5, <2>6
<1> QED
  BY <1>1, <1>2 DEF SaveConflicts

\* An extraction takes text and revision from one row, so they fit together.
LEMMA ExtractReadMoves ==
  ASSUME Rows, Reqs, NEW c \in Clients, ExtractRead(c) PROVE Moved(c)
<1>0. /\ ReqOK(c, req[c], source, extraction, ledger)
      /\ source \in Stamped /\ req \in [Clients -> Request]
      /\ req[c] \in Request /\ GaplessHistory
  BY DEF Reqs, Rows
<1>1. CASE Answer(c, "NOTFOUND")
  <2>1. ReqOK(c, [req[c] EXCEPT !.pc = "idle", !.answer = "NOTFOUND"],
              source, extraction, ledger)
    BY AnswerOK DEF ExtractRead, Answers
  <2> QED
    BY <1>0, <1>1, <2>1 DEF Answer, Moved
<1>2. CASE /\ source.rev # 0
           /\ req' = [req EXCEPT ![c].pc = "check", ![c].rev = source.rev,
                                 ![c].text = source.text]
  <2> DEFINE r == [req[c] EXCEPT !.pc = "check", !.rev = source.rev,
                                 !.text = source.text]
  <2>1. /\ r \in Request /\ r.pc = "check" /\ r.rev = source.rev
        /\ r.text = source.text /\ r.op = "extract"
        /\ r.answer = req[c].answer /\ r.tries = req[c].tries
    BY <1>0 DEF ExtractRead, Request, Stamped
  <2>2. req' = [req EXCEPT ![c] = r]
    BY <1>0, <1>2
  <2> HIDE DEF r
  <2>3. r.rev \in 1 .. source.rev /\ r.text = ledger[r.rev].text
    BY <1>0, <1>2, <2>1 DEF Stamped, GaplessHistory
  <2> QED
    BY <1>0, <2>1, <2>2, <2>3 DEF Moved, ReqOK, ExtractRead
<1> QED
  BY <1>1, <1>2 DEF ExtractRead

\* A write, or an extraction, that is refused ends with an error.
LEMMA RefusedMoves ==
  ASSUME Rows, Reqs, NEW c \in Clients,
         SaveStale(c) \/ ProviderFails(c) \/ ExtractCheck(c)
  PROVE  Moved(c)
<1>0. /\ ReqOK(c, req[c], source, extraction, ledger)
      /\ req \in [Clients -> Request] /\ req[c] \in Request
  BY DEF Reqs
<1>1. ASSUME NEW a \in {"ERROR", "UNAVAILABLE"}, Answer(c, a),
             req[c].pc # "idle"
      PROVE  Moved(c)
  <2>1. ReqOK(c, [req[c] EXCEPT !.pc = "idle", !.answer = a],
              source, extraction, ledger)
    BY <1>1, AnswerOK DEF Answers
  <2> QED
    BY <1>0, <1>1, <2>1 DEF Answer, Moved
<1>2. CASE req[c].pc = "check" /\ Go(c, "save")
  <2> DEFINE r == [req[c] EXCEPT !.pc = "save"]
  <2>1. /\ r \in Request /\ r.pc = "save" /\ r.rev = req[c].rev
        /\ r.text = req[c].text /\ r.op = req[c].op
        /\ r.answer = req[c].answer /\ r.tries = req[c].tries
    BY <1>0 DEF Request
  <2>2. req' = [req EXCEPT ![c] = r]
    BY <1>0, <1>2 DEF Go
  <2> HIDE DEF r
  <2> QED
    BY <1>0, <1>2, <2>1, <2>2 DEF Moved, ReqOK
<1> QED
  BY <1>1, <1>2 DEF SaveStale, ProviderFails, ExtractCheck

\* A step of one request that leaves the rows alone keeps the invariant.
LEMMA QuietStep ==
  ASSUME Rows, Reqs, NEW c \in Clients, Moved(c),
         UNCHANGED <<source, jobs, extraction, ledger>>
  PROVE  Rows' /\ Reqs' /\ Grows
<1>1. Rows' /\ Grows
  BY SameRows
<1>2. PICK r : /\ req' = [req EXCEPT ![c] = r]
               /\ ReqOK(c, r, source, extraction, ledger)
  BY DEF Moved
<1>3. ReqOK(c, r, source', extraction', ledger')
  BY <1>2
<1> QED
  BY <1>1, <1>2, <1>3, OneMoves

-----------------------------------------------------------------------------
(* The steps that write a row.                                             *)

\* The transaction writes the revision after the stored one: the row is older
\* than the write, and the write is at most one ahead.
LEMMA SaveAndEnqueueStep ==
  ASSUME Rows, Reqs, NEW c \in Clients, SaveAndEnqueue(c)
  PROVE  Rows' /\ Reqs' /\ Grows
<1> DEFINE n   == req[c].rev
           row == [by |-> c, text |-> req[c].text]
<1>0. /\ ReqOK(c, req[c], source, extraction, ledger)
      /\ req \in [Clients -> Request] /\ req[c] \in Request
      /\ source \in Stamped /\ extraction \in Stamped
      /\ ledger \in Seq([by : Clients, text : Texts])
      /\ Len(ledger) = source.rev /\ jobs \subseteq Jobs
  BY DEF Reqs, Rows, GaplessHistory
<1>1. /\ n = source.rev + 1 /\ n \in Nat
      /\ req[c].op \in {"ingest", "revise"}
      /\ req[c].text \in Texts /\ req[c].answer = "NONE"
      /\ source.rev \in Nat /\ extraction.rev \in Nat
  BY <1>0 DEF SaveAndEnqueue, Accepts, ReqOK, Request, Stamped
<1>2. /\ source' = [rev |-> n, text |-> req[c].text]
      /\ jobs' = jobs \cup {[source |-> n, refresh |-> FALSE]}
      /\ ledger' = Append(ledger, row)
      /\ extraction' = extraction
  BY DEF SaveAndEnqueue, Intent
<1>3. /\ ledger' \in Seq([by : Clients, text : Texts])
      /\ Len(ledger') = n /\ ledger'[n] = row
      /\ \A i \in 1 .. source.rev : ledger'[i] = ledger[i]
  BY <1>0, <1>1, <1>2
<1>4. source'.rev = n /\ source'.text = req[c].text
  BY <1>2
<1>5. Grows
  BY <1>1, <1>2, <1>3, <1>4 DEF Grows
<1>6. source' \in Stamped /\ extraction' \in Stamped /\ jobs' \subseteq Jobs
  <2>1. source' \in Stamped /\ extraction' \in Stamped
    BY <1>0, <1>1, <1>2 DEF Stamped
  <2>2. [source |-> n, refresh |-> FALSE] \in Jobs
    BY <1>1 DEF Jobs
  <2> QED
    BY <1>0, <1>2, <2>1, <2>2
<1>7. GaplessHistory'
  BY <1>3, <1>4 DEF GaplessHistory
<1>8. EveryRevisionHasJob'
  <2>1. ASSUME NEW k \in 1 .. n
        PROVE  [source |-> k, refresh |-> FALSE] \in jobs'
    <3>1. k = n \/ k \in 1 .. source.rev
      BY <1>1
    <3> QED
      BY <1>2, <3>1 DEF Rows, EveryRevisionHasJob
  <2>2. ASSUME NEW j \in jobs' PROVE j.source \in 1 .. n
    <3>1. CASE j \in jobs
      BY <1>1, <3>1 DEF Rows, EveryRevisionHasJob
    <3>2. CASE j = [source |-> n, refresh |-> FALSE]
      BY <1>1, <3>2
    <3> QED
      BY <1>2, <3>1, <3>2
  <2> QED
    BY <1>4, <2>1, <2>2 DEF EveryRevisionHasJob
<1>9. ExtractionFaithful'
  BY <1>1, <1>2, <1>3, <1>4 DEF Rows, ExtractionFaithful
<1>10. RefreshFollowsExtraction'
  BY <1>2 DEF Rows, RefreshFollowsExtraction
<1>11. Rows'
  BY <1>3, <1>6, <1>7, <1>8, <1>9, <1>10 DEF Rows
<1>12. CASE req[c].op = "ingest"
  <2> DEFINE r == [req[c] EXCEPT !.pc = "enqueue"]
  <2>1. /\ r \in Request /\ r.pc = "enqueue" /\ r.rev = n
        /\ r.op = "ingest" /\ r.answer = "NONE" /\ r.tries = req[c].tries
    BY <1>0, <1>1, <1>12 DEF Request
  <2>2. req' = [req EXCEPT ![c] = r]
    BY <1>0, <1>12 DEF SaveAndEnqueue, Go
  <2> HIDE DEF r
  <2>3. ReqOK(c, r, source', extraction', ledger')
    BY <1>0, <1>1, <1>4, <2>1 DEF ReqOK, SaveAndEnqueue
  <2> QED
    BY <1>5, <1>11, <2>2, <2>3, OneMoves
<1>13. CASE req[c].op = "revise"
  <2> DEFINE r == [req[c] EXCEPT !.pc = "idle", !.answer = "OK"]
  <2>1. /\ r \in Request /\ r.pc = "idle" /\ r.rev = n
        /\ r.op = "revise" /\ r.answer = "OK" /\ r.text = req[c].text
    BY <1>0, <1>1, <1>13 DEF Request, Answers
  <2>2. req' = [req EXCEPT ![c] = r]
    BY <1>0, <1>13 DEF SaveAndEnqueue, Answer
  <2> HIDE DEF r
  <2>3. ReqOK(c, r, source', extraction', ledger')
    BY <1>1, <1>3, <2>1 DEF ReqOK
  <2> QED
    BY <1>5, <1>11, <2>2, <2>3, OneMoves
<1> QED
  BY <1>1, <1>5, <1>11, <1>12, <1>13

\* The extraction is written at the revision the source has, which no stored
\* extraction and no refresh job is beyond.
LEMMA ExtractSaveStep ==
  ASSUME Rows, Reqs, NEW c \in Clients, ExtractSave(c)
  PROVE  Rows' /\ Reqs' /\ Grows
<1>0. /\ ReqOK(c, req[c], source, extraction, ledger)
      /\ req \in [Clients -> Request] /\ req[c] \in Request
      /\ source.rev \in Nat /\ extraction.rev \in Nat
      /\ req[c].pc = "save"
  BY DEF Reqs, Rows, Stamped, ExtractSave
<1>1. CASE Answer(c, "ERROR") /\ UNCHANGED extraction
  <2>1. ReqOK(c, [req[c] EXCEPT !.pc = "idle", !.answer = "ERROR"],
              source, extraction, ledger)
    BY <1>0, AnswerOK DEF Answers
  <2>2. Moved(c)
    BY <1>0, <1>1, <2>1 DEF Answer, Moved
  <2> QED
    BY <1>1, <2>2, QuietStep DEF ExtractSave
<1>2. CASE /\ req[c].rev = source.rev
           /\ extraction' = [rev |-> req[c].rev, text |-> req[c].text]
           /\ Go(c, "enqueue")
  <2>1. /\ source' = source /\ jobs' = jobs /\ ledger' = ledger
        /\ extraction'.rev = source.rev /\ extraction'.text = req[c].text
        /\ extraction' \in Stamped
    BY <1>0, <1>2 DEF ExtractSave, Stamped, Request
  <2>2. extraction.rev <= source.rev
    BY <1>0 DEF Rows, ExtractionFaithful
  <2>3. Grows
    BY <1>0, <2>1, <2>2 DEF Grows
  <2>4. GaplessHistory' /\ EveryRevisionHasJob'
    BY <2>1 DEF Rows, GaplessHistory, EveryRevisionHasJob
  <2>5. ExtractionFaithful'
    BY <1>0, <1>2, <2>1 DEF ExtractionFaithful, ReqOK
  <2>6. RefreshFollowsExtraction'
    <3>1. \A j \in jobs : j.source <= source.rev
      BY <1>0 DEF Rows, EveryRevisionHasJob
    <3> QED
      BY <2>1, <3>1 DEF RefreshFollowsExtraction
  <2>7. Rows'
    BY <2>1, <2>4, <2>5, <2>6 DEF Rows
  <2> DEFINE r == [req[c] EXCEPT !.pc = "enqueue"]
  <2>8. /\ r \in Request /\ r.pc = "enqueue" /\ r.rev = req[c].rev
        /\ r.op = req[c].op /\ r.answer = req[c].answer
        /\ r.tries = req[c].tries /\ r.text = req[c].text
    BY <1>0 DEF Request
  <2>9. req' = [req EXCEPT ![c] = r]
    BY <1>0, <1>2 DEF Go
  <2> HIDE DEF r
  <2>10. ReqOK(c, r, source', extraction', ledger')
    BY <1>0, <1>2, <2>1, <2>8 DEF ReqOK
  <2> QED
    BY <2>3, <2>7, <2>9, <2>10, OneMoves
<1> QED
  BY <1>1, <1>2 DEF ExtractSave, DerivedGuard

\* The job enqueued again is of a revision that exists, and a refresh of one
\* that has been extracted.
LEMMA EnqueueAgainStep ==
  ASSUME Rows, Reqs, NEW c \in Clients, EnqueueAgain(c)
  PROVE  Rows' /\ Reqs' /\ Grows
<1> DEFINE job == [source |-> req[c].rev, refresh |-> req[c].op = "extract"]
<1>0. /\ ReqOK(c, req[c], source, extraction, ledger)
      /\ req \in [Clients -> Request] /\ req[c] \in Request
      /\ source.rev \in Nat /\ extraction.rev \in Nat
      /\ req[c].pc = "enqueue"
  BY DEF Reqs, Rows, Stamped, EnqueueAgain
<1>1. /\ jobs' = jobs \cup {job}
      /\ source' = source /\ extraction' = extraction /\ ledger' = ledger
  BY DEF EnqueueAgain
<1>2. /\ job.source = req[c].rev /\ req[c].rev \in 1 .. source.rev
      /\ job.refresh = (req[c].op = "extract")
      /\ req[c].op = "extract" => req[c].rev <= extraction.rev
  BY <1>0 DEF ReqOK
<1>3. job \in Jobs
  BY <1>0, <1>2 DEF Jobs
<1> HIDE DEF job
<1>4. EveryRevisionHasJob'
  BY <1>1, <1>2 DEF Rows, EveryRevisionHasJob
<1>5. RefreshFollowsExtraction'
  BY <1>1, <1>2 DEF Rows, RefreshFollowsExtraction
<1>6. GaplessHistory' /\ ExtractionFaithful'
  BY <1>1 DEF Rows, GaplessHistory, ExtractionFaithful
<1>7. jobs' \subseteq Jobs
  BY <1>1, <1>3 DEF Rows
<1>8. Rows'
  BY <1>1, <1>4, <1>5, <1>6, <1>7 DEF Rows
<1>9. Grows
  BY <1>0, <1>1 DEF Grows
<1>10. ReqOK(c, [req[c] EXCEPT !.pc = "idle", !.answer = "OK"],
             source, extraction, ledger)
  BY <1>0, AnswerOK DEF ReqOK, Answers
<1>11. req' = [req EXCEPT ![c] = [req[c] EXCEPT !.pc = "idle",
                                                 !.answer = "OK"]]
  BY <1>0 DEF EnqueueAgain, Answer
<1>12. ReqOK(c, [req[c] EXCEPT !.pc = "idle", !.answer = "OK"],
             source', extraction', ledger')
  BY <1>1, <1>10
<1> QED
  BY <1>8, <1>9, <1>11, <1>12, OneMoves

\* After a restart a request that was answered keeps what it was told, and one
\* that was not has been told nothing.
LEMMA RestartStep ==
  ASSUME Rows, Reqs, Restart
  PROVE  Rows' /\ Reqs' /\ Grows
<1>1. Rows' /\ Grows
  BY SameRows DEF Restart
<1>2. /\ req' = [c \in Clients |-> [req[c] EXCEPT !.pc = "idle"]]
      /\ UNCHANGED <<source, jobs, extraction, ledger>>
  BY DEF Restart
<1>3. ASSUME NEW c \in Clients
      PROVE  ReqOK(c, req'[c], source, extraction, ledger)
  <2> DEFINE r == [req[c] EXCEPT !.pc = "idle"]
  <2>1. /\ req'[c] = r
        /\ req[c] \in Request /\ ReqOK(c, req[c], source, extraction, ledger)
    BY <1>2 DEF Reqs
  <2>2. /\ r \in Request /\ r.pc = "idle" /\ r.rev = req[c].rev
        /\ r.op = req[c].op /\ r.answer = req[c].answer
        /\ r.text = req[c].text /\ r.began = req[c].began
    BY <2>1 DEF Request
  <2> HIDE DEF r
  <2> QED
    BY <2>1, <2>2 DEF ReqOK
<1>4. req' \in [Clients -> Request]
  BY <1>2, <1>3 DEF ReqOK
<1> QED
  BY <1>1, <1>2, <1>3, <1>4 DEF Reqs

-----------------------------------------------------------------------------
(* The invariant is inductive.                                             *)

\* It holds of an empty store and idle clients.
LEMMA InitHolds == Init => IInv
<1> SUFFICES ASSUME Init PROVE IInv
  OBVIOUS
<1>1. /\ source = NoRow /\ extraction = NoRow /\ jobs = {} /\ ledger = <<>>
      /\ NoRow.rev = 0 /\ NoRow \in Stamped
  BY DEF Init, NoRow, Stamped
<1>2. Rows
  BY <1>1 DEF Rows, GaplessHistory, EveryRevisionHasJob, ExtractionFaithful,
              RefreshFollowsExtraction
<1> DEFINE r == [pc |-> "idle", op |-> "ingest", text |-> None, tries |-> 0,
                 rev |-> 0, began |-> 0, answer |-> "NONE",
                 left |-> MaxRequests]
<1>3. r \in Request
  BY DEF Request, Ops, Answers
<1>4. r.pc = "idle" /\ r.op = "ingest"
  OBVIOUS
<1>5. req = [c \in Clients |-> r]
  BY DEF Init
<1> HIDE DEF r
<1>6. Reqs
  BY <1>3, <1>4, <1>5 DEF Reqs, ReqOK
<1> QED
  BY <1>2, <1>6, Parts

\* Every step keeps it, and makes the rows grow.
LEMMA StepHolds ==
  ASSUME Rows, Reqs, [Next]_vars
  PROVE  Rows' /\ Reqs' /\ Grows
<1>1. ASSUME NEW c \in Clients, Send(c) PROVE Rows' /\ Reqs' /\ Grows
  BY <1>1, SendMoves, QuietStep DEF Send
<1>2. ASSUME NEW c \in Clients, IngestRead(c) PROVE Rows' /\ Reqs' /\ Grows
  BY <1>2, IngestReadMoves, QuietStep DEF IngestRead
<1>3. ASSUME NEW c \in Clients, ReviseRead(c) PROVE Rows' /\ Reqs' /\ Grows
  BY <1>3, ReviseReadMoves, QuietStep DEF ReviseRead
<1>4. ASSUME NEW c \in Clients, SaveConflicts(c) PROVE Rows' /\ Reqs' /\ Grows
  BY <1>4, SaveConflictsMoves, QuietStep DEF SaveConflicts
<1>5. ASSUME NEW c \in Clients, ExtractRead(c) PROVE Rows' /\ Reqs' /\ Grows
  BY <1>5, ExtractReadMoves, QuietStep DEF ExtractRead
<1>6. ASSUME NEW c \in Clients,
             SaveStale(c) \/ ProviderFails(c) \/ ExtractCheck(c)
      PROVE  Rows' /\ Reqs' /\ Grows
  <2>1. UNCHANGED <<source, jobs, extraction, ledger>>
    BY <1>6 DEF SaveStale, ProviderFails, ExtractCheck
  <2> QED
    BY <1>6, <2>1, RefusedMoves, QuietStep
<1>7. CASE UNCHANGED vars
  <2>1. UNCHANGED <<source, jobs, extraction, ledger>> /\ UNCHANGED req
    BY <1>7 DEF vars
  <2>2. Rows' /\ Grows
    BY <2>1, SameRows
  <2>3. Reqs'
    BY <2>1 DEF Reqs
  <2> QED
    BY <2>2, <2>3
<1>8. ASSUME NEW c \in Clients,
             SaveAndEnqueue(c) \/ ExtractSave(c) \/ EnqueueAgain(c)
      PROVE  Rows' /\ Reqs' /\ Grows
  BY <1>8, SaveAndEnqueueStep, ExtractSaveStep, EnqueueAgainStep
<1> QED
  BY <1>1, <1>2, <1>3, <1>4, <1>5, <1>6, <1>7, <1>8, RestartStep
     DEF Next, Save, Extract

\* The invariant is kept by every step.
LEMMA Inductive == IInv /\ [Next]_vars => IInv'
  BY StepHolds, Parts, PartsPrime

\* The invariant holds in every reachable state.
THEOREM Invariant == Spec => []IInv
  BY InitHolds, Inductive, PTL DEF Spec

\* Every row and every request has its type.
THEOREM TypeCorrect == Spec => []TypeOK
<1>1. IInv => TypeOK
  BY DEF IInv
<1> QED
  BY <1>1, Invariant, PTL

\* Accepted writes are numbered without gap or repetition: two revisions built
\* from the same one are never both accepted.
THEOREM Gapless == Spec => []GaplessHistory
<1>1. IInv => GaplessHistory
  BY DEF IInv
<1> QED
  BY <1>1, Invariant, PTL

\* A revision and its job are stored together whatever is restarted when.
THEOREM HasJob == Spec => []EveryRevisionHasJob
<1>1. IInv => EveryRevisionHasJob
  BY DEF IInv
<1> QED
  BY <1>1, Invariant, PTL

\* An accepted revise owns its revision.
THEOREM OwnsRevision == Spec => []AnswerOwnsRevision
<1>1. IInv => AnswerOwnsRevision
  BY DEF IInv
<1> QED
  BY <1>1, Invariant, PTL

\* A refused revise was beaten MaxTries times.
THEOREM Beaten == Spec => []ConflictMeansBeaten
<1>1. IInv => ConflictMeansBeaten
  BY DEF IInv
<1> QED
  BY <1>1, Invariant, PTL

\* An extraction fits the revision it is stamped with.
THEOREM Faithful == Spec => []ExtractionFaithful
<1>1. IInv => ExtractionFaithful
  BY DEF IInv
<1> QED
  BY <1>1, Invariant, PTL

\* A refresh job follows the extraction it refreshes from.
THEOREM RefreshFollows == Spec => []RefreshFollowsExtraction
<1>1. IInv => RefreshFollowsExtraction
  BY DEF IInv
<1> QED
  BY <1>1, Invariant, PTL

\* Source and extraction never go back to an older revision.
THEOREM Forwards == Spec => NeverBackwards
<1>1. ASSUME IInv, [Next]_vars
      PROVE  [source.rev' >= source.rev /\ extraction.rev' >= extraction.rev]_vars
  <2>1. Grows
    BY <1>1, Parts, StepHolds
  <2>2. Rows /\ Rows'
    BY <1>1, Parts, StepHolds
  <2>3. /\ source.rev \in Nat /\ source'.rev \in Nat
        /\ extraction.rev \in Nat /\ extraction'.rev \in Nat
    BY <2>2 DEF Rows, Stamped
  <2> QED
    BY <2>1, <2>3 DEF Grows
<1> QED
  BY <1>1, Invariant, PTL DEF Spec, NeverBackwards

-----------------------------------------------------------------------------
(* The requests implement the log.                                         *)

\* A restart, and a step that writes no row, is none of the log's.
LEMMA QuietIsNoStep ==
  ASSUME UNCHANGED <<source, jobs>>
  PROVE  [Log!Accept]_(Log!logvars)
  BY DEF Log!logvars

\* The transaction that accepts a write is the log's step: what was read
\* before it is at most one revision behind the write, and the guard in it
\* leaves no other revision than the next.
LEMMA SaveIsAccept ==
  ASSUME Rows, Reqs, NEW c \in Clients, SaveAndEnqueue(c)
  PROVE  Log!Accept
<1>1. ReqOK(c, req[c], source, extraction, ledger)
  BY DEF Reqs
<1>2. req[c].rev = source.rev + 1 /\ source'.rev = source.rev + 1
  BY <1>1 DEF SaveAndEnqueue, Accepts, ReqOK, Rows, Stamped, Request
<1> DEFINE job == [source |-> source.rev + 1, refresh |-> FALSE]
<1>3. /\ jobs' = jobs \cup {job}
      /\ ~job.refresh /\ job.source = source.rev + 1
  BY <1>2 DEF SaveAndEnqueue, Intent
<1> HIDE DEF job
<1>4. {j.source : j \in {k \in jobs' : ~k.refresh}}
        = {j.source : j \in {k \in jobs : ~k.refresh}} \cup {source.rev + 1}
  <2>1. {k \in jobs' : ~k.refresh} = {k \in jobs : ~k.refresh} \cup {job}
    BY <1>3
  <2> QED
    BY <1>3, <2>1
<1> QED
  BY <1>2, <1>4 DEF Log!Accept

\* The enqueue after a write adds a refresh job, or the job of a revision
\* that has it already.
LEMMA EnqueueIsNoStep ==
  ASSUME Rows, Reqs, NEW c \in Clients, EnqueueAgain(c)
  PROVE  UNCHANGED Log!logvars
<1> DEFINE job == [source |-> req[c].rev, refresh |-> req[c].op = "extract"]
<1>1. /\ source' = source /\ jobs' = jobs \cup {job}
      /\ req[c].rev \in 1 .. source.rev
  BY DEF EnqueueAgain, Reqs, ReqOK
<1>2. job.refresh \/ job \in jobs
  BY <1>1 DEF Rows, EveryRevisionHasJob
<1> HIDE DEF job
<1>3. {k \in jobs' : ~k.refresh} = {k \in jobs : ~k.refresh}
  BY <1>1, <1>2
<1> QED
  BY <1>1, <1>3 DEF Log!logvars

\* Every step of the requests is a step of the log, or none.
LEMMA StepIsLogStep ==
  ASSUME Rows, Reqs, [Next]_vars
  PROVE  [Log!Accept]_(Log!logvars)
<1>1. ASSUME NEW c \in Clients, SaveAndEnqueue(c)
      PROVE  [Log!Accept]_(Log!logvars)
  BY <1>1, SaveIsAccept
<1>2. ASSUME NEW c \in Clients, EnqueueAgain(c)
      PROVE  [Log!Accept]_(Log!logvars)
  BY <1>2, EnqueueIsNoStep
<1>3. ASSUME NEW c \in Clients,
             \/ Send(c) \/ IngestRead(c) \/ ReviseRead(c)
             \/ SaveConflicts(c) \/ SaveStale(c) \/ Extract(c)
      PROVE  UNCHANGED <<source, jobs>>
  BY <1>3 DEF Send, IngestRead, ReviseRead, SaveConflicts, SaveStale, Extract,
              ExtractRead, ProviderFails, ExtractCheck, ExtractSave
<1>4. CASE Restart \/ UNCHANGED vars
  BY <1>4, QuietIsNoStep DEF Restart, vars
<1> QED
  BY <1>1, <1>2, <1>3, <1>4, QuietIsNoStep DEF Next, Save

\* No row is no revision, and no job.
LEMMA InitIsLogInit == Init => Log!LogInit
  BY DEF Init, NoRow, Log!LogInit

\* However requests and restarts interleave, the store of a meeting behaves as
\* the log: accepted revisions are consecutive, and each appears with its job.
THEOREM Refinement == Spec => ImplementsLog
<1>1. IInv /\ [Next]_vars => [Log!Accept]_(Log!logvars)
  BY StepIsLogStep, Parts
<1> QED
  BY <1>1, InitIsLogInit, Invariant, PTL
     DEF Spec, ImplementsLog, Log!LogSpec

=============================================================================
