------------------------- MODULE OrganisationChange -------------------------
(***************************************************************************)
(* OrganisationChangeIntelligenceService: the changes of one entity, from  *)
(* its insights, its attention, its dependency records, the paths they     *)
(* make and the impacts on it.  Each of the five has reads of its own, the *)
(* first two of them two, and the pipeline may process a meeting between   *)
(* any two reads.                                                          *)
(* (A change_id contains the entity, so those of two entities never meet.) *)
(***************************************************************************)
EXTENDS EntityInsights

CONSTANTS
    Entities, \* ids, naturals
    Entity,   \* the one asked about
    Loads,    \* the sets of dependency records there may be
    MaxDepth, \* DEFAULT_MAX_DEPTH of the paths
    MaxWrites \* bound on the writes between the reads

VARIABLES
    deps,     \* dependency records, all of current revisions
    sources,  \* the entities an impact on this one comes from (module Impact)
    pc, insights, found, \* the scan
    held,     \* the timeline InsightService has read, of which the memory is to come
    writes    \* since the first read

D == INSTANCE Dependencies

scan == <<deps, sources, pc, insights, found, held, writes>>

NoDate == 0

-----------------------------------------------------------------------------
(* OrganisationChange.                                                     *)

\* make_change_id
ChangeId(type, key, meeting) == <<type, key, meeting>>

Change(type, key, meeting, at, index) ==
    [id |-> ChangeId(type, key, meeting), at |-> at, index |-> index]

TypeOf(c)    == c.id[1]
MeetingOf(c) == c.id[3]

\* REGRESSION_TRANSITIONS
Regressed(from) == from \in {"IN_PROGRESS", "OPEN"}

\* Of changes with the same id the first is kept.
Distinct(changes) ==
    {CHOOSE c \in changes : c.id = id : id \in {c.id : c \in changes}}

-----------------------------------------------------------------------------
(* The rules.                                                              *)

\* R1 to R7, R9 and R13
OfInsight(i) ==
    LET c(type, key) == Change(type, key, i.meeting, i.at, i.index) IN
    CASE i.type = "STATE_CHANGED" /\ <<i.from, i.to>> = <<"UNKNOWN", "OPEN">> ->
            {c("STATE_OPENED", <<i.from, i.to>>)}
      [] i.type = "STATE_CHANGED" /\ i.to = "IN_PROGRESS" ->
            {c("STATE_STARTED", <<i.from, i.to>>)}
      [] i.type = "ISSUE_BLOCKED" ->
            {c("STATE_BLOCKED", <<i.from>>)}
              \cup (IF Regressed(i.from) THEN {c("STATE_REGRESSED", <<i.from>>)} ELSE {})
      [] i.type = "ISSUE_RESOLVED" ->
            {c("STATE_RESOLVED", <<i.from>>), c("RISK_DEESCALATED", <<i.from>>)}
      [] i.type = "REOPEN_ATTEMPT" -> {c("STATE_REOPENED", <<>>)}
      [] i.type = "REPEATED_OBSERVATION" -> {c("REPEATED_UNRESOLVED", <<>>)}
      [] i.type = "STALE_ENTITY" -> {c("ENTITY_BECAME_STALE", <<>>)}
      [] OTHER -> {}

Blocking(is) == {i \in is : i.type = "ISSUE_BLOCKED"}

\* Mutant: the last time it was blocked.
AnchorLast(is) == CHOOSE i \in Blocking(is) : \A j \in Blocking(is) : j.at <= i.at

\* The first of the insights, by observed_at, then id: a digest, so any of the day.
Anchor(is) == CHOOSE i \in Blocking(is) : \A j \in Blocking(is) : i.at <= j.at

\* R8, from the insights and the attention, which are read one after the other.
Escalated(is, reasons) ==
    IF "ENTITY_BLOCKED" \notin reasons \/ Blocking(is) = {} THEN {}
    ELSE {Change("RISK_ESCALATED", <<>>, Anchor(is).meeting, Anchor(is).at, Anchor(is).index)}

\* R10
OfDependencies(records) ==
    {Change("NEW_DEPENDENCY", <<d.source, d.target, d.type>>, d.meeting, date[d.meeting], NoIndex) :
        d \in {r \in records : r.source = Entity}}

\* R11
OfPaths(records) ==
    {Change("DEPENDENCY_EXPANDED", p, NoMeeting, NoDate, NoIndex) :
        p \in {q \in D!SimplePaths(records, Entity, MaxDepth) : Len(q) > 2}}

\* R12: one, whose key is the set of its sources.
OfImpacts(set) ==
    IF set = {} THEN {}
    ELSE {Change("IMPACT_EXPANDED", SetToSortSeq(set, <), NoMeeting, NoDate, NoIndex)}

-----------------------------------------------------------------------------
(* The scan: get_changes.                                                  *)

ChangeInit ==
    /\ Init /\ now \in 1 .. MaxTime
    /\ deps \in Loads
    /\ sources \in SUBSET (Entities \ {Entity})
    /\ pc = "insights" /\ insights = {} /\ found = {} /\ held = <<>> /\ writes = 0

\* get_entity_insights begins, for the insights or for the attention.
LookAtTimeline ==
    /\ pc \in {"insights", "attention"} /\ held = <<>>
    /\ held' = <<Timeline(mentions)>>
    /\ UNCHANGED <<vars, now, deps, sources, pc, insights, found, writes>>

Step(from, to, changes) ==
    /\ pc = from /\ pc' = to
    /\ found' = Distinct(found \cup changes)
    /\ held' = <<>>
    /\ UNCHANGED <<vars, now, deps, sources, writes>>

\* get_entity_insights ends: the memory is read, from the mentions there are by now.
Evaluated == InsightsOf(held[1], Timeline(mentions))

ReadInsights ==
    /\ held # <<>>
    /\ insights' = Evaluated
    /\ Step("insights", "attention", UNION {OfInsight(i) : i \in insights'})

ReadAttention ==
    /\ held # <<>>
    /\ Step("attention", "dependencies", Escalated(insights, Reasons(Evaluated)))
    /\ UNCHANGED insights

ReadDependencies == Step("dependencies", "graph", OfDependencies(deps)) /\ UNCHANGED insights
ReadGraph        == Step("graph", "impacts", OfPaths(deps)) /\ UNCHANGED insights
ReadImpacts      == Step("impacts", "done", OfImpacts(sources)) /\ UNCHANGED insights

Started == pc # "insights" \/ held # <<>>

\* A meeting is processed: a mention more, or another set of records; or, between the
\* reads, a mention is resolved again.
Write ==
    /\ pc # "done"
    /\ \/ (Process \/ (Started /\ Withdraw)) /\ UNCHANGED deps
       \/ deps' \in Loads \ {deps} /\ UNCHANGED <<vars, now>>
    /\ writes' = IF Started THEN writes + 1 ELSE 0
    /\ writes' <= MaxWrites
    /\ UNCHANGED <<sources, pc, insights, found, held>>

ChangeNext ==
    LookAtTimeline \/ ReadInsights \/ ReadAttention \/ ReadDependencies \/ ReadGraph
        \/ ReadImpacts \/ Write

ChangeSpec == ChangeInit /\ [][ChangeNext]_<<vars, now, scan>>

-----------------------------------------------------------------------------
(* What is made of the list.                                               *)

\* start_date and end_date: what has no date is left out.
Window(changes, start, end) == {c \in changes : c.at # NoDate /\ start <= c.at /\ c.at <= end}

-----------------------------------------------------------------------------
\* Every change that has a date is of a meeting of that date or, if it is of the
\* entity as a whole, of its last meeting; only the graph changes have none.
ChangeTypeOK ==
    \A c \in found :
        /\ c.at = NoDate <=> TypeOf(c) \in {"DEPENDENCY_EXPANDED", "IMPACT_EXPANDED"}
        /\ MeetingOf(c) # NoMeeting => c.at = date[MeetingOf(c)]
        /\ \A d \in found : c.id = d.id => c = d

\* Whatever is written during the scan: a risk is escalated only over a blocking
\* that the same list reports, and what regressed was blocked.
EscalationAnchored ==
    \A c \in found :
        TypeOf(c) \in {"RISK_ESCALATED", "STATE_REGRESSED"} =>
            \E d \in found : TypeOf(d) = "STATE_BLOCKED" /\ MeetingOf(d) = MeetingOf(c) /\ d.at = c.at

\* The changes of state of the whole history are there, for every meeting in which
\* it entered a state, and no others.
HistoryReported ==
    LET t == Timeline(mentions)
        entered(s) == {t[i].mention.meeting : i \in {k \in DOMAIN t : t[k].to = s /\ t[k].from # s}}
        reported(type) == {MeetingOf(c) : c \in {d \in found : TypeOf(d) = type}}
    IN  pc = "done" /\ writes = 0 =>
            /\ reported("STATE_STARTED") = entered("IN_PROGRESS")
            /\ reported("STATE_BLOCKED") = entered("BLOCKED")
            /\ reported("STATE_RESOLVED") = entered("RESOLVED")
            /\ reported("STATE_OPENED") = entered("OPEN")
            /\ (\E c \in found : TypeOf(c) = "RISK_ESCALATED") <=> entered("BLOCKED") # {}

\* Two windows that do not overlap share no change and together have those of both.
WindowsAddUp ==
    \A d \in 1 .. MaxTime - 1 :
        Cardinality(Window(found, 1, MaxTime))
            = Cardinality(Window(found, 1, d)) + Cardinality(Window(found, d + 1, MaxTime))

\* The ids of the changes of state, which a scan compares with those of the last
\* one, stay when a meeting is processed that took place after all others.
StateChangeIds(stored) ==
    LET is == Insights(Timeline(stored)) IN
    {c.id : c \in {d \in UNION {OfInsight(i) : i \in is} \cup Escalated(is, Reasons(is)) :
                      TypeOf(d) # "ENTITY_BECAME_STALE"}}
IdsAreStable ==
    mentions # <<>> /\ (\A i \in DOMAIN Front(mentions) :
                            date[mentions[i].meeting] < date[Last(mentions).meeting])
        => StateChangeIds(Front(mentions)) \subseteq StateChangeIds(mentions)

=============================================================================
