--------------------------- MODULE SourceRevision ---------------------------
(***************************************************************************)
(* The source of one meeting and its revisions: the requests of            *)
(* app/api/meetings.py (ingest, revise, extract) over MeetingService,      *)
(* ExtractionService and the guarded writes of sqlite_source_repositories. *)
(*                                                                         *)
(* A request reads the meeting, builds its write from what it read and     *)
(* writes in one transaction, which compares revisions again.  Between two *)
(* accesses to the store the other requests run, and the server may be     *)
(* restarted: its requests are gone, the store stays.                      *)
(*                                                                         *)
(* Two Meeting objects never have the same payload: ingested_at is the     *)
(* time of the request that built it.                                      *)
(***************************************************************************)
EXTENDS Naturals, Sequences

CONSTANTS
    Clients,      \* concurrent requesters
    Texts,        \* what a request carries: title, transcript, participants
    MaxTries,     \* the attempts of revise_meeting's loop
    MaxRequests,  \* bound: the requests of one client
    None          \* no text

ASSUME TriesAssumption    == MaxTries \in Nat \ {0}
ASSUME RequestsAssumption == MaxRequests \in Nat
ASSUME NoneAssumption     == None \notin Texts

Ops     == {"ingest", "revise", "extract"}
Answers == {"NONE", "OK", "CONFLICT", "NOTFOUND", "UNAVAILABLE", "ERROR"}

\* A request: the step it is at, what it carries, the conflicts so far, the
\* revision and text it read or built, the revision when it arrived.
Request == [pc    : {"idle", "read", "write", "check", "save", "enqueue"},
            op    : Ops,
            text  : Texts \cup {None},
            tries : 0 .. MaxTries,
            rev   : Nat,
            began : Nat,
            answer: Answers,
            left  : 0 .. MaxRequests]

\* A processing job: of the revision itself, or of a refresh "N@suffix".
Jobs == [source : Nat, refresh : BOOLEAN]

Stamped == [rev : Nat, text : Texts \cup {None}]

VARIABLES
    source,      \* the row in meetings; revision 0 is no row
    jobs,        \* the processing jobs enqueued for it
    extraction,  \* the row in extraction_results; revision 0 is no row
    req,         \* the requests
    ledger       \* history: who wrote which revision, in order

vars == <<source, jobs, extraction, req, ledger>>

NoRow == [rev |-> 0, text |-> None]

Init ==
    /\ source = NoRow
    /\ jobs = {}
    /\ extraction = NoRow
    /\ req = [c \in Clients |->
                [pc |-> "idle", op |-> "ingest", text |-> None, tries |-> 0,
                 rev |-> 0, began |-> 0, answer |-> "NONE",
                 left |-> MaxRequests]]
    /\ ledger = <<>>

Go(c, pc)         == req' = [req EXCEPT ![c].pc = pc]
GoWith(c, pc, r)  == req' = [req EXCEPT ![c].pc = pc, ![c].rev = r]
Answer(c, answer) == req' = [req EXCEPT ![c].pc = "idle", ![c].answer = answer]

-----------------------------------------------------------------------------
\* A client sends its next request.
Send(c) ==
    /\ req[c].pc = "idle" /\ req[c].left > 0
    /\ \E op \in Ops, text \in Texts :
          req' = [req EXCEPT ![c] =
                    [pc |-> "read", op |-> op,
                     text |-> IF op = "extract" THEN None ELSE text,
                     tries |-> 0, rev |-> 0, began |-> source.rev,
                     answer |-> "NONE", left |-> @.left - 1]]
    /\ UNCHANGED <<source, jobs, extraction, ledger>>

\* MeetingService.ingest_meeting: an existing meeting is returned if it has
\* the same content, and refused otherwise.
IngestRead(c) ==
    /\ req[c].pc = "read" /\ req[c].op = "ingest"
    /\ \/ source.rev = 0 /\ GoWith(c, "write", 1)
       \/ /\ source.rev # 0 /\ source.text = req[c].text
          /\ GoWith(c, "enqueue", source.rev)
       \/ /\ source.rev # 0 /\ source.text # req[c].text
          /\ Answer(c, "CONFLICT")
    /\ UNCHANGED <<source, jobs, extraction, ledger>>

\* Mutant: the revision is counted twice.
NextRevisionSkips == source.rev + 2

\* MeetingService.revise_meeting: the next revision of the one read.
NextRevision == source.rev + 1

ReviseRead(c) ==
    /\ req[c].pc = "read" /\ req[c].op = "revise"
    /\ \/ source.rev = 0 /\ Answer(c, "NOTFOUND")
       \/ source.rev # 0 /\ GoWith(c, "write", NextRevision)
    /\ UNCHANGED <<source, jobs, extraction, ledger>>

-----------------------------------------------------------------------------
(* save_and_enqueue: one transaction.                                      *)

\* Mutant: the transaction writes the meeting alone.
IntentForgotten(r) == {}

\* The jobs the transaction inserts with the meeting.
Intent(r) == {[source |-> r, refresh |-> FALSE]}

\* Mutant: an equal revision is overwritten.
AcceptsEqual(c) == source.rev <= req[c].rev

\* The row is at an older revision: meeting and job are written.
Accepts(c) == source.rev < req[c].rev

SaveAndEnqueue(c) ==
    /\ req[c].pc = "write" /\ Accepts(c)
    /\ source' = [rev |-> req[c].rev, text |-> req[c].text]
    /\ jobs' = jobs \cup Intent(req[c].rev)
    /\ ledger' = Append(ledger, [by |-> c, text |-> req[c].text])
    /\ IF req[c].op = "ingest" THEN Go(c, "enqueue") ELSE Answer(c, "OK")
    /\ UNCHANGED extraction

\* Mutant: the loop of revise_meeting is one turn short.
MayRetryEarly(c) == req[c].tries + 2 < MaxTries

\* The loop of revise_meeting has a turn left.
MayRetry(c) == req[c].tries + 1 < MaxTries

\* MeetingConflictError.  revise_meeting reads again while it may;
\* ingest_meeting answers 409.
SaveConflicts(c) ==
    /\ req[c].pc = "write" /\ source.rev = req[c].rev
    /\ IF req[c].op = "ingest" THEN Answer(c, "CONFLICT")
       ELSE req' = [req EXCEPT ![c].tries = @ + 1,
                               ![c].pc = IF MayRetry(c) THEN "read" ELSE "idle",
                               ![c].answer = IF MayRetry(c) THEN "NONE"
                                             ELSE "CONFLICT"]
    /\ UNCHANGED <<source, jobs, extraction, ledger>>

\* StaleJobOwnershipError, which no handler of the API catches.
SaveStale(c) ==
    /\ req[c].pc = "write" /\ source.rev > req[c].rev
    /\ Answer(c, "ERROR")
    /\ UNCHANGED <<source, jobs, extraction, ledger>>

-----------------------------------------------------------------------------
(* extract_meeting without an ownership checker, as the API calls it.      *)

\* The meeting is read, text and revision together ...
ExtractRead(c) ==
    /\ req[c].pc = "read" /\ req[c].op = "extract"
    /\ \/ source.rev = 0 /\ Answer(c, "NOTFOUND")
       \/ /\ source.rev # 0
          /\ req' = [req EXCEPT ![c].pc = "check", ![c].rev = source.rev,
                                ![c].text = source.text]
    /\ UNCHANGED <<source, jobs, extraction, ledger>>

\* ... the provider may fail ...
ProviderFails(c) ==
    /\ req[c].pc = "check"
    /\ Answer(c, "UNAVAILABLE")
    /\ UNCHANGED <<source, jobs, extraction, ledger>>

\* ... or answer, and the stored extraction may be newer by then ...
ExtractCheck(c) ==
    /\ req[c].pc = "check"
    /\ IF req[c].rev < extraction.rev THEN Answer(c, "ERROR") ELSE Go(c, "save")
    /\ UNCHANGED <<source, jobs, extraction, ledger>>

\* Mutant: only revisions that do not exist are refused.
DerivedGuardPast(r) == r <= source.rev

\* _guard_derived_revision: a derived row is written only at the revision the
\* meeting has.
DerivedGuard(r) == r = source.rev

\* Mutant: the row is stamped with the revision at the time of the write.
ExtractSaveRestamped(c) ==
    /\ req[c].pc = "save"
    /\ extraction' = [rev |-> source.rev, text |-> req[c].text]
    /\ Go(c, "enqueue")
    /\ UNCHANGED <<source, jobs, ledger>>

ExtractSave(c) ==
    /\ req[c].pc = "save"
    /\ IF DerivedGuard(req[c].rev)
       THEN /\ extraction' = [rev |-> req[c].rev, text |-> req[c].text]
            /\ Go(c, "enqueue")
       ELSE /\ Answer(c, "ERROR")
            /\ UNCHANGED extraction
    /\ UNCHANGED <<source, jobs, ledger>>

\* Mutant: the refresh job names the revision at the time of the enqueue.
EnqueueAgainLatest(c) ==
    /\ req[c].pc = "enqueue"
    /\ jobs' = jobs \cup {[source |-> source.rev,
                           refresh |-> req[c].op = "extract"]}
    /\ Answer(c, "OK")
    /\ UNCHANGED <<source, extraction, ledger>>

\* The enqueue after the write: ingest repeats the job of the transaction,
\* extract asks for a refresh of the revision it read.
EnqueueAgain(c) ==
    /\ req[c].pc = "enqueue"
    /\ jobs' = jobs \cup {[source |-> req[c].rev,
                           refresh |-> req[c].op = "extract"]}
    /\ Answer(c, "OK")
    /\ UNCHANGED <<source, extraction, ledger>>

\* The server stops: requests in progress have no answer.
Restart ==
    /\ \E c \in Clients : req[c].pc # "idle"
    /\ req' = [c \in Clients |-> [req[c] EXCEPT !.pc = "idle"]]
    /\ UNCHANGED <<source, jobs, extraction, ledger>>

-----------------------------------------------------------------------------
Save(c)    == SaveAndEnqueue(c) \/ SaveConflicts(c) \/ SaveStale(c)
Extract(c) == \/ ExtractRead(c) \/ ProviderFails(c)
              \/ ExtractCheck(c) \/ ExtractSave(c)

Next ==
    \/ \E c \in Clients : \/ Send(c) \/ IngestRead(c) \/ ReviseRead(c)
                          \/ Save(c) \/ Extract(c) \/ EnqueueAgain(c)
    \/ Restart

Spec == Init /\ [][Next]_vars

-----------------------------------------------------------------------------
TypeOK ==
    /\ source \in Stamped /\ extraction \in Stamped
    /\ jobs \subseteq Jobs
    /\ req \in [Clients -> Request]
    /\ ledger \in Seq([by : Clients, text : Texts])

\* "exactly one revision ordering is authoritative": the accepted writes are
\* numbered without gap or repetition and the last of them is the source, so
\* no accepted revision overwrote another one unseen.
GaplessHistory ==
    /\ Len(ledger) = source.rev
    /\ source.rev > 0 => source.text = ledger[source.rev].text

\* A revision and its processing job are stored together, over restarts at
\* any point, and no job names a revision that does not exist.
EveryRevisionHasJob ==
    /\ \A r \in 1 .. source.rev : [source |-> r, refresh |-> FALSE] \in jobs
    /\ \A j \in jobs : j.source \in 1 .. source.rev

\* A revise answered 202 owns the revision it wrote, whoever wrote before and
\* after it.
AnswerOwnsRevision ==
    \A c \in Clients :
        req[c].op = "revise" /\ req[c].answer = "OK"
        => /\ req[c].rev \in 1 .. Len(ledger)
           /\ ledger[req[c].rev] = [by |-> c, text |-> req[c].text]

\* A revise is answered 409 only after MaxTries other revisions were accepted
\* while it ran.
ConflictMeansBeaten ==
    \A c \in Clients :
        req[c].op = "revise" /\ req[c].answer = "CONFLICT"
        => source.rev >= req[c].began + MaxTries

\* The extraction was made from the text of the revision it is stamped with,
\* although the provider call lies between the read and the write.
ExtractionFaithful ==
    extraction.rev > 0 =>
        /\ extraction.rev <= source.rev
        /\ extraction.text = ledger[extraction.rev].text

\* A refresh job is enqueued only for a revision that has been extracted.
RefreshFollowsExtraction ==
    \A j \in jobs : j.refresh => j.source <= extraction.rev

\* Neither the source nor the extraction goes back to an older revision.
NeverBackwards ==
    [][source.rev' >= source.rev /\ extraction.rev' >= extraction.rev]_vars

-----------------------------------------------------------------------------
(* What the comments of the API promise.                                   *)

\* "the loser gets a MeetingConflictError from the monotonic guard and
\* retries as N+2": a revise is never answered with a server error.
LoserRetries ==
    \A c \in Clients : req[c].op = "revise" => req[c].answer # "ERROR"

\* "Idempotent for identical payloads": an ingest of the text that the
\* meeting has, and always had, is not refused.
IngestIdempotent ==
    \A c \in Clients :
        req[c].op = "ingest" /\ req[c].answer = "CONFLICT"
        => \E r \in 1 .. Len(ledger) : ledger[r].text # req[c].text

=============================================================================
