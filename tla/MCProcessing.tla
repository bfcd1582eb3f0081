---------------------------- MODULE MCProcessing ----------------------------
(***************************************************************************)
(* The instances of the modules about the processing of a meeting: the     *)
(* pipeline, the semantic index, the status, and what is found over the    *)
(* dependencies that it replaces meanwhile, their paths and impacts.       *)
(*                                                                         *)
(* A behaviour is one of one instance, "part", whose variables are kept in *)
(* s1, s2, ...  What one module needs of another it has as a step of its   *)
(* own, so that the parts share no state.                                  *)
(***************************************************************************)
EXTENDS Naturals, Sequences, FiniteSets

CONSTANTS
    Runs, Run, Callers,           \* of the pipeline: runs, the one where there is one,
    EntityIds, MentionIds,        \* requests, and the ids there are
    Indexers, Indexer, Cleaners,  \* of the semantic index: runs, the one, removals
    LastRevision, MaxJobs,        \* of the status: bounds on revisions, jobs
    MaxLate,                      \* and late writes,
    Evidence, Findings,           \* all evidence, and what a run may find
    Nodes, Listed,                \* of the search: entities, those the repository has,
    Origins,                      \* the ids asked about,
    FirstMeeting, SecondMeeting,
    Hops, FewHops, MaxWrites,     \* the depths asked for, and a bound on the writes
    Subjects, Subject,            \* of the impacts: those asked about, the one,
    Counts                        \* how many meetings may mention two entities

ASSUME PipelineAssumption == EntityIds \subseteq Nat \ {0} /\ IsFiniteSet(EntityIds)

ASSUME StatusAssumption == LastRevision \in Nat \ {0} /\ Findings \subseteq SUBSET Evidence

ASSUME SearchAssumption ==
    /\ Nodes \subseteq Nat /\ Listed \subseteq Nodes
    /\ Hops \in Nat \ {0} /\ FewHops \in Nat \ {0}

ASSUME ImpactAssumption == Subjects \subseteq Listed /\ Subject \in Nodes /\ Counts \subseteq Nat

VARIABLES part, s1, s2, s3, s4, s5, s6, s7, s8, s9, s10

vars == <<part, s1, s2, s3, s4, s5, s6, s7, s8, s9, s10>>

-----------------------------------------------------------------------------
(* The pipeline: two names that are similar, so that either alone stands   *)
(* for the other; one of the participants is declared.                     *)
Apollo     == <<1, 2, 3>>
ApolloTeam == <<1, 2, 3, 4>>
BothNames  == <<{Apollo, ApolloTeam}, {Apollo, ApolloTeam}>>

Pipeline(workers, requests, says, links) == INSTANCE MeetingPipeline WITH
    Short <- {}, Workers <- workers, Requests <- requests, Says <- says, Links <- links,
    Entities <- EntityIds, Mentions <- MentionIds, MaxRev <- 2, Declared <- {Apollo},
    rev <- s1, entity <- s2, mention <- s3, dependency <- s4, actor <- s5

\* Part "overlap": runs of the stages and requests at once; the second revision adds
\* the second name and the dependency.
SecondLater == <<{Apollo}, {Apollo, ApolloTeam}>>
LinkedLater == <<{}, {<<Apollo, ApolloTeam>>}>>
\* Part "serial": one run or one request at a time; both revisions have both names,
\* and the second turns the dependency.
LinkTurned == <<{<<Apollo, ApolloTeam>>}, {<<ApolloTeam, Apollo>>}>>

-----------------------------------------------------------------------------
(* The semantic index, of two ids: what was last said of an entity, and    *)
(* something the first mention says, with what another meeting says of it. *)

\* The mentions are of the first revision, of the second, and of another meeting.
Revisions == <<1, 2, 0>>
\* The entity is that of the first two; the second id is found for all.
Asked == [current \in SUBSET (1 .. 3) |-> IF current = {} THEN {2} ELSE {1, 2}]
Hashes == [s \in SUBSET (1 .. 3) |-> <<IF 2 \in s THEN 2 ELSE IF 1 \in s THEN 1 ELSE 0,
                                        IF 1 \notin s THEN 0 ELSE IF 3 \in s THEN 2 ELSE 1>>]

\* Runs at once.
Writers == INSTANCE SemanticIndex WITH
    Cleaners <- {}, Evidence <- {1, 2}, MaxRev <- 2, Mentions <- {1, 2}, Of <- Revisions,
    Scope <- Asked, Items <- Hashes, ReadMayFail <- FALSE, MaxFailures <- 0,
    rev <- s1, file <- s2, lock <- s3, failures <- s4, actor <- s5, stored <- s6, was <- s7
\* One run and removals; a read may fail once, which is taken for an empty file.
Unreadable == INSTANCE SemanticIndex WITH
    Indexers <- {Indexer}, Evidence <- {1, 2}, MaxRev <- 2, Mentions <- {1, 2}, Of <- Revisions,
    Scope <- Asked, Items <- Hashes, ReadMayFail <- TRUE, MaxFailures <- 1,
    rev <- s1, file <- s2, lock <- s3, failures <- s4, actor <- s5, stored <- s6, was <- s7
\* One run at a time, and mentions of another meeting.
Alone == INSTANCE SemanticIndex WITH
    Indexers <- {Indexer}, Cleaners <- {}, Evidence <- {1, 2}, MaxRev <- 2, Mentions <- {1, 2, 3},
    Of <- Revisions, Scope <- Asked, Items <- Hashes, ReadMayFail <- FALSE, MaxFailures <- 0,
    rev <- s1, file <- s2, lock <- s3, failures <- s4, actor <- s5, stored <- s6, was <- s7

\* Revisions, refreshes, and what runs without a lease still write.
Status == INSTANCE ConsistencyStatus WITH
    MaxRev <- LastRevision, Found <- Findings,
    rev <- s1, extraction <- s2, job <- s3, semantic <- s4, request <- s5, late <- s6

-----------------------------------------------------------------------------
(* The search over the dependency records, of two meetings.                *)
Graph(known, loads, depth, writing) == INSTANCE DependencyGraph WITH
    Entities <- Nodes, Known <- known, MeetingIds <- {FirstMeeting, SecondMeeting}, Roots <- Origins,
    Loads <- loads, MaxDepth <- depth, MaxWrites <- writing,
    deps <- s1, revision <- s2, root <- s3, status <- s4, stack <- s5, paths <- s6,
    cycles <- s7, writes <- s8, steady <- s9, ever <- s10

D == INSTANCE Dependencies

\* Part "search": any four records of a meeting; nothing is written meanwhile.
Stated  == D!Records(Nodes, {FirstMeeting}, {1})
AnyFour == {{a, b, c, d} : a, b, c, d \in Stated}
\* Part "disturbed": two records, some of a replaced revision, which change meanwhile;
\* some of the targets are unknown.
AnyTwo == {{a, b} : a \in Stated, b \in Stated \cup D!Records(Nodes, {SecondMeeting}, {0, 1})}

-----------------------------------------------------------------------------
(* The impacts that the dependencies make.                                 *)
Impacts(entities, asked, shared, loads, conditions, depth, changing) == INSTANCE Impact WITH
    Entities <- entities, Asked <- asked, Shared <- shared, Loads <- loads,
    Conditions <- conditions, MaxDepth <- depth, MaxChanges <- changing,
    deps <- s1, shared <- s2, condition <- s3, entity <- s4, pc <- s5, base <- s6,
    impacts <- s7, changes <- s8

\* What the other services may say of an entity.
Condition(blocked, attention, insights) ==
    [blocked |-> blocked, attention |-> attention, insights |-> insights]
Conditions ==
    {Condition(FALSE, "NONE", {}), Condition(TRUE, "NONE", {}), Condition(FALSE, "NONE", {"STALE_ENTITY"})}
MoreConditions == Conditions \cup
    {Condition(FALSE, "CRITICAL_ATTENTION", {}), Condition(TRUE, "CRITICAL_ATTENTION", {}),
     Condition(FALSE, "HIGH_ATTENTION", {"REOPEN_ATTEMPT"})}

\* Part "direct": up to three records, the third of another meeting, and every combination
\* of signals.
Said(m)    == D!Records(Listed, {m}, {1})
UpToThree  == {{}} \cup {{a} : a \in Said(FirstMeeting)}
                   \cup {{a, b, c} : a, b \in Said(FirstMeeting), c \in Said(SecondMeeting)}
\* Part "chains": four records that make chains, a change between the reads.
Depends    == {d \in Stated : d.type = "DEPENDS_ON"}
FourChains == {{a, b, c, d} : a, b, c, d \in Depends}

-----------------------------------------------------------------------------
Unused9 == s9 = {} /\ s10 = {}
Unused8 == s8 = {} /\ Unused9
Unused7 == s7 = {} /\ Unused8
Unused6 == s6 = {} /\ Unused7

Init ==
    \/ part = "overlap"    /\ Pipeline(Runs, Callers, SecondLater, LinkedLater)!Init /\ Unused6
    \/ part = "serial"     /\ Pipeline({Run}, {Run}, BothNames, LinkTurned)!Init /\ Unused6
    \/ part = "writers"    /\ Writers!Init    /\ Unused8
    \/ part = "unreadable" /\ Unreadable!Init /\ Unused8
    \/ part = "alone"      /\ Alone!Init      /\ Unused8
    \/ part = "status"     /\ Status!Init     /\ Unused7
    \/ part = "search"     /\ Graph(Nodes, AnyFour, Hops, 0)!Init
    \/ part = "disturbed"  /\ Graph(Listed, AnyTwo, FewHops, MaxWrites)!Init
    \/ part = "direct"     /\ Impacts(Listed, Subjects, Counts, UpToThree, MoreConditions, FewHops, 0)!Init
                           /\ Unused9
    \/ part = "chains"     /\ Impacts(Nodes, {Subject}, {0}, FourChains, Conditions, Hops, MaxWrites)!Init
                           /\ Unused9

Rest6 == <<part, s6, s7, s8, s9, s10>>
Rest7 == <<part, s7, s8, s9, s10>>
Rest8 == <<part, s8, s9, s10>>

Next ==
    \/ part = "overlap" /\ Pipeline(Runs, Callers, SecondLater, LinkedLater)!Next
                        /\ UNCHANGED Rest6
    \/ part = "serial"  /\ Pipeline({Run}, {Run}, BothNames, LinkTurned)!Next
                        /\ UNCHANGED Rest6
    \/ part = "writers"    /\ Writers!Next    /\ UNCHANGED Rest8
    \/ part = "unreadable" /\ Unreadable!Next /\ UNCHANGED Rest8
    \/ part = "alone"      /\ Alone!Next      /\ UNCHANGED Rest8
    \/ part = "status"     /\ Status!Next     /\ UNCHANGED Rest7
    \/ part = "search"     /\ Graph(Nodes, AnyFour, Hops, 0)!Next /\ UNCHANGED part
    \/ part = "disturbed"  /\ Graph(Listed, AnyTwo, FewHops, MaxWrites)!Next /\ UNCHANGED part
    \/ part = "direct"     /\ Impacts(Listed, Subjects, Counts, UpToThree, MoreConditions, FewHops, 0)!Next
                           /\ UNCHANGED <<part, s9, s10>>
    \/ part = "chains"     /\ Impacts(Nodes, {Subject}, {0}, FourChains, Conditions, Hops, MaxWrites)!Next
                           /\ UNCHANGED <<part, s9, s10>>

Spec == Init /\ [][Next]_vars

-----------------------------------------------------------------------------
(* The properties of the parts; each module says more of its own.          *)

\* Rows of a past revision are never touched and none is stamped
\* wrongly, whatever overlaps.  Without an overlap a dependency is backed by a mention
\* of its revision, no name is created twice, a resolved mention stays so, and a run
\* that is tried again observes nothing twice.
PipelineConsistent ==
    /\ [](/\ part = "overlap" => Pipeline(Runs, Callers, SecondLater, LinkedLater)!TypeOK
          /\ part = "serial"  =>
                /\ Pipeline({Run}, {Run}, BothNames, LinkTurned)!DependencyIsStated
                /\ Pipeline({Run}, {Run}, BothNames, LinkTurned)!NamesUnique)
    /\ [][/\ part = "overlap" => Pipeline(Runs, Callers, SecondLater, LinkedLater)!PastIsFrozen
          /\ part = "serial"  =>
                /\ Pipeline({Run}, {Run}, BothNames, LinkTurned)!NeverDowngraded
                /\ Pipeline({Run}, {Run}, BothNames, LinkTurned)!ObservedOnce]_vars

\* The index: a record carries what its evidence said at some moment while the meeting
\* was at the revision of the stamp, also after a read that failed; as long as reads
\* succeed a write changes its own record only, whatever crashed before it; what a run
\* has passed is in the file with its revision.
IndexKept ==
    /\ [](/\ part = "writers"    => Writers!TypeOK /\ Writers!StampIsTrue
          /\ part = "unreadable" => Unreadable!TypeOK /\ Unreadable!StampIsTrue
          /\ part = "alone"      => Alone!TypeOK /\ Alone!NoFalseCheckpoint)
    /\ [][/\ part = "writers"    => Writers!OthersSurvive
          /\ part = "unreadable" => Unreadable!OthersSurvive]_vars

\* The status: CURRENT is said only of a revision that a job of it has processed, with
\* nothing older in the index but what was under way, and FAILED and STALE have a
\* reason that lasts, though the request reads the rows one after the other.
StatusIsTrue ==
    part = "status" => Status!TypeOK /\ Status!CurrentIsProcessed /\ Status!LabelHasReason

\* The search: undisturbed, it finds every simple path once and the cycles are those of
\* its branches; disturbed, it finds the paths whose records are current all the time,
\* and none that had a hop which never was.
PathsComplete ==
    /\ part = "search" => /\ Graph(Nodes, AnyFour, Hops, 0)!TypeOK
                          /\ Graph(Nodes, AnyFour, Hops, 0)!AllPathsOnce
                          /\ Graph(Nodes, AnyFour, Hops, 0)!CyclesExact
    /\ part = "disturbed" => /\ Graph(Listed, AnyTwo, FewHops, MaxWrites)!TypeOK
                             /\ Graph(Listed, AnyTwo, FewHops, MaxWrites)!SteadyPathsFound

\* A related entity that is BLOCKED is reported, and nobody else as BLOCKED; the chains
\* lower no direct impact, and a chain that is reported is a shortest one, also when the
\* entities change meanwhile.
ImpactsComplete ==
    /\ part = "direct" =>
          /\ Impacts(Listed, Subjects, Counts, UpToThree, MoreConditions, FewHops, 0)!TypeOK
          /\ Impacts(Listed, Subjects, Counts, UpToThree, MoreConditions, FewHops, 0)!BlockedReported
    /\ part = "chains" =>
          /\ Impacts(Nodes, {Subject}, {0}, FourChains, Conditions, Hops, MaxWrites)!TypeOK
          /\ Impacts(Nodes, {Subject}, {0}, FourChains, Conditions, Hops, MaxWrites)!LevelsKept
          /\ Impacts(Nodes, {Subject}, {0}, FourChains, Conditions, Hops, MaxWrites)!ShortestChain

=============================================================================
