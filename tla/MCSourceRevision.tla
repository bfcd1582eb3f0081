-------------------------- MODULE MCSourceRevision --------------------------
(* Small instances of SourceRevision for TLC.                              *)
EXTENDS SourceRevisionInvariant, SourceRevisionLog, TLC

CONSTANTS c1, c2, c3, a, b

\* Clients are interchangeable, and so are texts: no action and no property
\* names one.
Symmetry == Permutations(Clients) \cup Permutations(Texts)

=============================================================================
