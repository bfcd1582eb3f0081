----------------------------- MODULE MeetingLog -----------------------------
(***************************************************************************)
(* What the API promises of the source of a meeting (app/api/meetings.py,  *)
(* ingest_meeting and revise_meeting): a revision and its processing job   *)
(* appear together, the revisions are 1, 2, 3, ... and nothing is taken    *)
(* back, whoever writes at the same time and whenever the server stops.    *)
(***************************************************************************)
EXTENDS Naturals

VARIABLES
    rev,  \* the newest revision; 0 is no meeting
    jobs  \* the revisions that have a processing job

logvars == <<rev, jobs>>

LogInit == rev = 0 /\ jobs = {}

Accept ==
    /\ rev' = rev + 1
    /\ jobs' = jobs \cup {rev + 1}

LogSpec == LogInit /\ [][Accept]_logvars
=============================================================================
