----------------------- MODULE SourceRevisionInvariant -----------------------
(***************************************************************************)
(* The inductive invariant of SourceRevision: what the rows, and the       *)
(* requests with what they have read, owe to each other between any two    *)
(* steps.  SourceRevisionProofs proves it, and the properties from it.     *)
(***************************************************************************)
EXTENDS SourceRevision

\* A request in progress has no answer yet, and a turn of its loop left.
Pending ==
    \A c \in Clients :
        req[c].pc # "idle" => req[c].answer = "NONE" /\ req[c].tries < MaxTries

\* A write carries a text and the revision after one that was there; all the
\* tries so far were lost to revisions accepted since the request arrived.
WritesNext ==
    \A c \in Clients :
        /\ req[c].op # "extract" /\ req[c].pc \in {"read", "write"}
              => req[c].text \in Texts
        /\ req[c].op = "revise" /\ req[c].pc = "read"
              => req[c].began + req[c].tries <= source.rev
        /\ req[c].pc = "write"
              => /\ req[c].op \in {"ingest", "revise"}
                 /\ req[c].rev \in 1 .. source.rev + 1
                 /\ req[c].op = "revise"
                       => req[c].began + req[c].tries < req[c].rev

\* An extraction under way holds the text of the revision it has read.
ReadsFaithful ==
    \A c \in Clients :
        req[c].pc \in {"check", "save"}
        => /\ req[c].op = "extract"
           /\ req[c].rev \in 1 .. source.rev
           /\ req[c].text = ledger[req[c].rev].text

\* What is about to be enqueued again exists, and a refresh was extracted.
EnqueuesExisting ==
    \A c \in Clients :
        req[c].pc = "enqueue"
        => /\ req[c].op \in {"ingest", "extract"}
           /\ req[c].rev \in 1 .. source.rev
           /\ req[c].op = "extract" => req[c].rev <= extraction.rev

\* Everything together is preserved by every step.
IInv ==
    /\ TypeOK
    /\ Pending /\ WritesNext /\ ReadsFaithful /\ EnqueuesExisting
    /\ GaplessHistory /\ EveryRevisionHasJob
    /\ AnswerOwnsRevision /\ ConflictMeansBeaten
    /\ ExtractionFaithful /\ RefreshFollowsExtraction

=============================================================================
