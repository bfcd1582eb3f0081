------------------------- MODULE SourceRevisionLog -------------------------
(***************************************************************************)
(* The requests of SourceRevision, which write in one transaction what     *)
(* they built from an earlier read, implement MeetingLog.  The refresh     *)
(* jobs of extract are not part of the log.                                *)
(***************************************************************************)
EXTENDS SourceRevision

Log == INSTANCE MeetingLog WITH
    rev  <- source.rev,
    jobs <- {j.source : j \in {k \in jobs : ~k.refresh}}

\* Every behaviour of the requests, over restarts, is one of the log: accepted
\* revisions are consecutive, each with its job in the same step, and the
\* enqueue after an ingest adds nothing.
ImplementsLog == Log!LogSpec
=============================================================================
