----------------------------- MODULE MCJobQueue -----------------------------
(* Small instances of the job queue for TLC: the worker ids, and in one     *)
(* module the properties, the refinement and the inductive invariant.       *)
EXTENDS JobQueueRefinement, JobQueueInvariant, TLC

CONSTANTS w1, w2

\* Workers are interchangeable where all of them are mortal: no action and no
\* property names one.  For safety runs only.
WorkerSymmetry == Permutations(Workers)

=============================================================================
