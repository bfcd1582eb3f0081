----------------------------- MODULE Portfolio -----------------------------
(***************************************************************************)
(* PortfolioIntelligenceService: how much risk an entity is given in the   *)
(* organisation's portfolio.  Its attention, insights, actions, lifecycle  *)
(* and impacts are computed one after the other, each from reads of its    *)
(* own, while the pipeline may go on processing meetings.                  *)
(***************************************************************************)
EXTENDS EntityInsights

CONSTANTS
    ImpactSets, \* what the impacts may be
    MaxWrites   \* bound on the writes between the reads

VARIABLES
    pc,       \* what _build_entity_summary computes next
    held,     \* the timeline InsightService has read, of which the memory is to come
    read,     \* what has been computed
    writes,   \* since the first read
    kept      \* none of them took a mention from the entity

reading == <<pc, held, read, writes, kept>>

Levels == <<"NONE", "LOW", "MEDIUM", "HIGH", "CRITICAL">>
AtLeast(level, least) ==
    \E i, j \in DOMAIN Levels : i >= j /\ Levels[i] = level /\ Levels[j] = least

\* Of the insights and the actions only the numbers are used.
NothingRead == [attention |-> "NONE", insights |-> 0, actions |-> 0, state |-> "UNKNOWN",
                observations |-> 0, impacts |-> {}]

PortfolioInit ==
    /\ Init /\ now \in 1 .. MaxTime
    /\ pc = "attention" /\ held = <<>> /\ read = NothingRead /\ writes = 0 /\ kept = TRUE

-----------------------------------------------------------------------------
\* Mutant: a BLOCKED entity counts by its attention only.
ClassifyByAttention(r) ==
    IF r.attention = "CRITICAL" \/ "CRITICAL" \in r.impacts THEN "CRITICAL"
    ELSE IF r.attention = "HIGH" \/ "HIGH" \in r.impacts THEN "HIGH"
    ELSE IF r.attention = "MEDIUM" \/ "MEDIUM" \in r.impacts THEN "MEDIUM"
    ELSE IF r.observations > 0 THEN "LOW" ELSE "NONE"

\* _classify_risk; NONE is left out of the portfolio.
Classify(r) ==
    IF r.attention = "CRITICAL" \/ "CRITICAL" \in r.impacts THEN "CRITICAL"
    ELSE IF r.attention = "HIGH" \/ r.state = "BLOCKED" \/ "HIGH" \in r.impacts THEN "HIGH"
    ELSE IF r.attention = "MEDIUM" \/ "MEDIUM" \in r.impacts THEN "MEDIUM"
    ELSE IF r.observations > 0 THEN "LOW" ELSE "NONE"

\* PortfolioEntitySummary
Summary(r) ==
    [risk |-> Classify(r), attention |-> r.attention, insights |-> r.insights,
     actions |-> r.actions, impacts |-> Cardinality(r.impacts),
     state |-> r.state, observations |-> r.observations]

\* get_portfolio: what this entity adds to each of the counts.
Counts(r) ==
    LET s == Summary(r)   included == s.risk # "NONE"   one(c) == IF included /\ c THEN 1 ELSE 0 IN
    [total   |-> one(TRUE),
     urgent  |-> one(s.risk \in {"CRITICAL", "HIGH"}),
     others  |-> one(s.risk \in {"MEDIUM", "LOW"}),
     blocked |-> one(s.state = "BLOCKED"),
     actions |-> one(s.actions > 0),
     impacts |-> one(s.impacts > 0)]

-----------------------------------------------------------------------------
(* _build_entity_summary                                                   *)

\* get_entity_insights begins: it is called for the attention, for the insights, and
\* again for the attention and the insights of the actions.
LookAtTimeline ==
    /\ pc \in {"attention", "insights", "priority", "actions"} /\ held = <<>>
    /\ held' = <<Timeline(mentions)>>
    /\ UNCHANGED <<vars, now, pc, read, writes, kept>>

Read(from, to, result) ==
    /\ pc = from /\ pc' = to /\ read' = result /\ held' = <<>>
    /\ UNCHANGED <<vars, now, writes, kept>>

\* get_entity_insights ends: the memory is read, from the mentions there are by now.
Evaluated == InsightsOf(held[1], Timeline(mentions))

ReadAttention ==
    /\ held # <<>>
    /\ Read("attention", "insights", [read EXCEPT !.attention = AttentionOf(Evaluated)])
ReadInsights ==
    /\ held # <<>>
    /\ Read("insights", "priority", [read EXCEPT !.insights = Cardinality(Evaluated)])
ReadPriority ==
    /\ held # <<>>
    /\ Read("priority", IF AttentionOf(Evaluated) = "NONE" THEN "timeline" ELSE "actions", read)
ReadActions ==
    /\ held # <<>>
    /\ Read("actions", "timeline", [read EXCEPT !.actions = Cardinality(ActionTypes(Evaluated))])
ReadTimeline ==
    Read("timeline", "impacts", [read EXCEPT !.state = CurrentState(Timeline(mentions)),
                                             !.observations = Len(Timeline(mentions))])
\* The levels of the impacts directed at the entity (module Impact).
ReadImpacts ==
    \E impacts \in ImpactSets : Read("impacts", "done", [read EXCEPT !.impacts = impacts])

Started == pc # "attention" \/ held # <<>>

\* A meeting is processed or, between the reads, a mention resolved again.
Write ==
    /\ pc # "done"
    /\ \/ Process /\ kept' = kept
       \/ Started /\ Withdraw /\ kept' = FALSE
    /\ writes' = IF Started THEN writes + 1 ELSE 0
    /\ writes' <= MaxWrites
    /\ UNCHANGED <<pc, held, read>>

PortfolioNext ==
    LookAtTimeline \/ ReadAttention \/ ReadInsights \/ ReadPriority \/ ReadActions
        \/ ReadTimeline \/ ReadImpacts \/ Write

PortfolioSpec == PortfolioInit /\ [][PortfolioNext]_<<vars, now, reading>>

-----------------------------------------------------------------------------
Done == pc = "done"

\* What is counted as blocked is counted as urgent, whatever was written between
\* the reads, and the classes share the total.
CountsAgree ==
    Done => LET c == Counts(read) IN /\ c.total = c.urgent + c.others
                                     /\ c.blocked <= c.urgent

\* Nobody who was seen is left out.  What asked for more than LOW attention is counted
\* even if all its mentions were taken away before they were counted; and unless one
\* was, whatever any of the reads has seen is counted, though each may see more
\* than the one before it and the two halves of one may not fit together.
SeenIsIncluded ==
    LET included == Counts(read).total = 1 IN
    Done => /\ AtLeast(read.attention, "MEDIUM") => included
            /\ kept /\ (read.attention # "NONE" \/ read.insights > 0 \/ read.actions > 0) => included

\* Read without a write, the risk follows from the history: the other reasons
\* together never make CRITICAL what was never blocked, and what is stale and not
\* RESOLVED is urgent.  An entity without a mention whose impacts are all LOW is
\* left out: the code's comments, which speak of one without any signal, say otherwise.
RiskFollowsHistory ==
    LET t == Timeline(mentions)
        wasBlocked == \E i \in DOMAIN t : t[i].to = "BLOCKED"
    IN  Done /\ writes = 0 =>
            /\ Summary(read).risk = "CRITICAL" <=> wasBlocked \/ "CRITICAL" \in read.impacts
            /\ IsStale(t, t) => AtLeast(Summary(read).risk, "HIGH")
            /\ Summary(read).risk = "NONE" <=> t = <<>> /\ read.impacts \subseteq {"LOW"}

=============================================================================
