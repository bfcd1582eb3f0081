--------------------------- MODULE EntityInsights ---------------------------
(***************************************************************************)
(* What is said of an entity at some time: the insights its timeline       *)
(* gives (InsightService), the attention they ask for (AttentionService),  *)
(* the actions recommended (ActionRecommendationService), and the events   *)
(* of the unified timeline (UnifiedTimelineService).                       *)
(***************************************************************************)
EXTENDS EntityTimeline, FiniteSetsExt

CONSTANTS
    StaleThreshold, \* stale_threshold_days
    MaxTime         \* bound on the clock

VARIABLE now  \* current_time, of the request

NoMeeting == 0
NoIndex   == 0

-----------------------------------------------------------------------------
(* InsightService.  It reads the timeline, t, and then the memory, which   *)
(* is read from a timeline of its own, u.                                  *)

Insight(type, meeting, index, at) ==
    [type |-> type, meeting |-> meeting, index |-> index, at |-> at, from |-> "UNKNOWN", to |-> "UNKNOWN"]

\* Mutant: observed_at instead of the observation index.
InsightIdAt(i) == <<i.type, i.meeting, i.at>>

\* _make_insight_id
InsightId(i) == <<i.type, i.meeting, i.index>>

\* R1 to R3: what a valid transition gives.
TransitionTypes(to) ==
    {"STATE_CHANGED"} \cup (CASE to = "BLOCKED"  -> {"ISSUE_BLOCKED"}
                              [] to = "RESOLVED" -> {"ISSUE_RESOLVED"}
                              [] OTHER           -> {})

\* R1 to R4
OfEntry(t, i) ==
    LET m == t[i].mention.meeting
        types == (IF t[i].occurred THEN TransitionTypes(t[i].to) ELSE {})
                   \cup (IF ~ t[i].valid /\ t[i].from = "RESOLVED" THEN {"REOPEN_ATTEMPT"} ELSE {})
    IN  {[Insight(type, m, i, date[m]) EXCEPT !.from = t[i].from, !.to = t[i].to] : type \in types}

\* R5
OfRepeats(u) == {Insight("REPEATED_OBSERVATION", m, NoIndex, date[m]) : m \in Repeated(u)}

\* R7
IsStale(t, u) ==
    u # <<>> /\ CurrentState(t) # "RESOLVED" /\ now > LastObserved(u) + StaleThreshold

\* R6 and R7
OfEntity(t, u) ==
    {Insight(type, NoMeeting, NoIndex, LastObserved(u)) :
        type \in (IF u # <<>> /\ CurrentState(t) = "UNKNOWN" THEN {"UNKNOWN_STATE"} ELSE {})
                   \cup (IF IsStale(t, u) THEN {"STALE_ENTITY"} ELSE {})}

\* Those with the same id are one.
InsightsOf(t, u) ==
    LET all == UNION {OfEntry(t, i) : i \in DOMAIN t} \cup OfRepeats(u) \cup OfEntity(t, u) IN
    {CHOOSE i \in all : InsightId(i) = id : id \in {InsightId(i) : i \in all}}

Insights(t) == InsightsOf(t, t)

-----------------------------------------------------------------------------
(* AttentionService.                                                       *)

\* INSIGHT_TYPE_TO_REASON: ISSUE_RESOLVED asks for nothing.
Reason(type) ==
    CASE type = "ISSUE_BLOCKED" -> {"ENTITY_BLOCKED"}
      [] type = "STALE_ENTITY"  -> {"ENTITY_STALE"}
      [] type = "STATE_CHANGED" -> {"RECENT_STATE_CHANGE"}
      [] type = "ISSUE_RESOLVED" -> {}
      [] OTHER -> {type}

\* REASON_SCORES
Score(reason) ==
    CASE reason = "ENTITY_BLOCKED"      -> 100 [] reason = "REOPEN_ATTEMPT"       -> 50
      [] reason = "ENTITY_STALE"        -> 40  [] reason = "RECENT_STATE_CHANGE"  -> 20
      [] reason = "UNKNOWN_STATE"       -> 10  [] reason = "REPEATED_OBSERVATION" -> 15

\* Each reason counts once, however many insights it has.
Reasons(insights) == UNION {Reason(i.type) : i \in insights}

\* compute_attention_level
Level(score) ==
    IF score >= 100 THEN "CRITICAL" ELSE IF score >= 50 THEN "HIGH"
    ELSE IF score >= 20 THEN "MEDIUM" ELSE IF score > 0 THEN "LOW" ELSE "NONE"

AttentionOf(insights) == Level(MapThenSumSet(Score, Reasons(insights)))
Attention(t) == AttentionOf(Insights(t))

-----------------------------------------------------------------------------
(* ActionRecommendationService.                                            *)

\* REASON_TO_ACTION_TYPE
ActionOf(reason) ==
    CASE reason = "ENTITY_BLOCKED"       -> "ESCALATE"
      [] reason = "ENTITY_STALE"         -> "REQUEST_UPDATE"
      [] reason = "REOPEN_ATTEMPT"       -> "INVESTIGATE"
      [] reason = "REPEATED_OBSERVATION" -> "FOLLOW_UP"
      [] OTHER                           -> "REVIEW"

Latest(insights) == Max({i.at : i \in insights})

Action(type, priority, at) == [type |-> type, priority |-> priority, at |-> at]

ActionTypes(insights) == {ActionOf(r) : r \in Reasons(insights)}

\* One action of a type, with the priority of the attention, from its latest insight;
\* without attention there are none.
ActionsOf(attention, insights) ==
    LET of(type) == {i \in insights : \E r \in Reason(i.type) : ActionOf(r) = type} IN
    {Action(type, attention, Latest(of(type))) :
        type \in {a \in ActionTypes(insights) : attention # "NONE"}}

Actions(t) == ActionsOf(Attention(t), Insights(t))

-----------------------------------------------------------------------------
(* UnifiedTimelineService: the events, by their event_id.                  *)

Events(t) ==
    {<<IF t[i].occurred THEN "STATE_CHANGE" ELSE "OBSERVATION", t[i].mention.meeting, i>> : i \in DOMAIN t}
      \cup {<<"MEMORY_FACT", m, NoIndex>> : m \in Repeated(t)}
      \cup {<<"INSIGHT", InsightId(i)>> : i \in Insights(t)}
      \cup {<<"ACTION", a.type>> : a \in Actions(t)}
      \cup (IF Attention(t) = "NONE" THEN {} ELSE {<<"ATTENTION", Attention(t)>>})

-----------------------------------------------------------------------------
InsightInit == Init /\ now = 1

\* An entity is asked about at any time; what is known of it grows meanwhile.  The
\* meetings come in any order, the mentions of one in that of their ids.
Process ==
    /\ \E m \in Meetings, says \in Says : Observe(m, says, "RESOLVED")
    /\ Last(mentions').id = Len(mentions')
    /\ UNCHANGED now

\* A mention is resolved again: a worker that read it before it was RESOLVED, as one
\* whose lease was lost may have, finds it AMBIGUOUS, which takes it from the entity.
Withdraw ==
    /\ \E i \in DOMAIN mentions :
          /\ mentions[i].status = "RESOLVED"
          /\ mentions[i].revision = revision[mentions[i].meeting]
          /\ mentions' = [mentions EXCEPT ![i].status = "AMBIGUOUS"]
    /\ UNCHANGED <<date, revision, now>>

Tick == now < MaxTime /\ now' = now + 1 /\ UNCHANGED vars

InsightNext == Process \/ Tick

InsightSpec == InsightInit /\ [][InsightNext]_<<vars, now>>

-----------------------------------------------------------------------------
T == Timeline(mentions)

\* There is attention exactly when there is an action, and the actions have its level.
InsightTypeOK ==
    /\ now \in 1 .. MaxTime
    /\ Attention(T) = "NONE" <=> Actions(T) = {}
    /\ \A a \in Actions(T) : a.priority = Attention(T)

\* The ids keep insights apart: every transition, every attempt to reopen and every
\* meeting with several observations has its own one, and the unified timeline has
\* an event for each.
NothingMerged ==
    /\ Cardinality({i \in Insights(T) : i.type = "STATE_CHANGED"})
         = Cardinality({i \in DOMAIN T : T[i].from # T[i].to})
    /\ Cardinality({i \in Insights(T) : i.type = "REOPEN_ATTEMPT"})
         = Cardinality({i \in DOMAIN T : T[i].from = "RESOLVED" /\ ~ T[i].valid})
    /\ Cardinality(Events(T)) = Len(T) + Cardinality(Repeated(T)) + Cardinality(Insights(T))
                                  + Cardinality(Actions(T)) + (IF Attention(T) = "NONE" THEN 0 ELSE 1)

\* "stale entities reach HIGH": alone its score would not, but a stale entity has
\* changed its state or has none.  RESOLVED ones are left alone.
StaleIsHigh ==
    T # <<>> /\ now > LastObserved(T) + StaleThreshold =>
        IF CurrentState(T) = "RESOLVED"
        THEN \A a \in Actions(T) : a.type # "REQUEST_UPDATE"
        ELSE Attention(T) \in {"HIGH", "CRITICAL"}

\* An entity that is BLOCKED is CRITICAL and to be escalated, as of the day it was
\* blocked last.
BlockedIsEscalated ==
    CurrentState(T) = "BLOCKED" =>
        LET blocked == {i \in DOMAIN T : T[i].to = "BLOCKED" /\ T[i].from # "BLOCKED"} IN
        \E a \in Actions(T) : /\ a.type = "ESCALATE" /\ a.priority = "CRITICAL"
                              /\ a.at = date[T[Max(blocked)].mention.meeting]

=============================================================================
