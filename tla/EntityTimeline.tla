--------------------------- MODULE EntityTimeline ---------------------------
(***************************************************************************)
(* What the observations of one entity make of it: CorrelationService      *)
(* joins and sorts them, TemporalStateService replays them as a lifecycle, *)
(* OrganisationalMemoryService sums them up.  Nothing is stored: every     *)
(* read starts from the mentions, which come in the order the meetings are *)
(* processed in, not in the order they took place.                         *)
(***************************************************************************)
EXTENDS Naturals, Sequences, SequencesExt, FiniteSets, TLC

CONSTANTS
    Meetings,    \* ids, naturals: the second sort key
    Dates,       \* when they may have taken place
    Says,        \* the sets of lifecycle words a source text may have
    MaxMentions, \* bound on the mentions
    MaxRevision  \* bound on the revisions of a meeting

VARIABLES
    date,      \* of each meeting
    revision,  \* of its source
    mentions   \* those with this entity's id, in the order they were stored

vars == <<date, revision, mentions>>

States == {"UNKNOWN", "OPEN", "IN_PROGRESS", "BLOCKED", "RESOLVED"}
Words  == <<"RESOLVED", "BLOCKED", "IN_PROGRESS", "OPEN">>

MentionIds == 1 .. MaxMentions

Init ==
    /\ date \in [Meetings -> Dates]
    /\ revision = [m \in Meetings |-> 1]
    /\ mentions = <<>>

-----------------------------------------------------------------------------
(* Stage 1 and 2: interpretation and transition policy.                    *)

\* KeywordStateInterpreter: the first rule of which a word is there.
Interpret(says) ==
    IF says = {} THEN "UNKNOWN"
    ELSE Words[CHOOSE i \in DOMAIN Words :
                   Words[i] \in says /\ \A j \in 1 .. i - 1 : Words[j] \notin says]

\* _VALID_TRANSITIONS
Allowed(state) ==
    CASE state = "UNKNOWN"     -> {"OPEN", "IN_PROGRESS", "BLOCKED", "RESOLVED"}
      [] state = "OPEN"        -> {"IN_PROGRESS", "BLOCKED", "RESOLVED"}
      [] state = "IN_PROGRESS" -> {"BLOCKED", "RESOLVED"}
      [] state = "BLOCKED"     -> {"IN_PROGRESS", "RESOLVED"}
      [] state = "RESOLVED"    -> {}

\* DefaultTransitionPolicy.apply; "UNKNOWN" says nothing, and what is not
\* allowed is noted but not applied.
Apply(state, new) ==
    LET same == new \in {"UNKNOWN", state}   valid == new \in Allowed(state) IN
    [state    |-> IF ~ same /\ valid THEN new ELSE state,
     occurred |-> ~ same /\ valid,
     valid    |-> same \/ valid]

-----------------------------------------------------------------------------
(* CorrelationService and TemporalStateService.                            *)

\* Mutant: no tie-break.
PrecedesByDate(a, b) == date[a.meeting] < date[b.meeting]

\* meeting_date, meeting_id, mention_id
Precedes(a, b) ==
    LET key(m) == <<date[m.meeting], m.meeting, m.id>> IN
    \E i \in 1 .. 3 : key(a)[i] < key(b)[i] /\ \A j \in 1 .. i - 1 : key(a)[j] = key(b)[j]

\* get_entity_correlations: RESOLVED mentions, sorted.
Observations(stored) ==
    SortSeq(SelectSeq(stored, LAMBDA m : m.status = "RESOLVED"), Precedes)

\* An observation and what it did to the lifecycle.
Entry(mention, from, applied) ==
    [mention |-> mention, new |-> Interpret(mention.says), from |-> from, to |-> applied.state,
     occurred |-> applied.occurred, valid |-> applied.valid]

\* get_entity_timeline: one entry for each observation.
Timeline(stored) ==
    LET obs == Observations(stored)
        after[i \in 0 .. Len(obs)] ==
            IF i = 0 THEN "UNKNOWN" ELSE Apply(after[i - 1], Interpret(obs[i].says)).state
    IN [i \in 1 .. Len(obs) |->
            Entry(obs[i], after[i - 1], Apply(after[i - 1], Interpret(obs[i].says)))]

CurrentState(timeline) == IF timeline = <<>> THEN "UNKNOWN" ELSE Last(timeline).to

-----------------------------------------------------------------------------
(* OrganisationalMemoryService.                                            *)

Seen(timeline, m) == {i \in DOMAIN timeline : timeline[i].mention.meeting = m}

\* The REPEATED_OBSERVATION facts.
Repeated(timeline) == {m \in Meetings : Cardinality(Seen(timeline, m)) >= 2}

LastObserved(timeline) == date[Last(timeline).mention.meeting]

-----------------------------------------------------------------------------
\* A meeting is processed: a mention of the revision it is at.  Only a RESOLVED
\* one has an entity, in this code; the service does not rely on that.
Observe(m, says, status) ==
    /\ Len(mentions) < MaxMentions
    /\ \E id \in MentionIds \ {mentions[i].id : i \in DOMAIN mentions} :
          mentions' = Append(mentions, [id |-> id, meeting |-> m, revision |-> revision[m],
                                        says |-> says, status |-> status])
    /\ UNCHANGED <<date, revision>>

\* The source is revised: the mentions of its older revisions stay.
Revise(m) ==
    /\ revision[m] < MaxRevision
    /\ revision' = [revision EXCEPT ![m] = @ + 1]
    /\ UNCHANGED <<date, mentions>>

Next ==
    \E m \in Meetings :
        \/ \E says \in Says, status \in {"RESOLVED", "AMBIGUOUS"} : Observe(m, says, status)
        \/ Revise(m)

Spec == Init /\ [][Next]_vars

-----------------------------------------------------------------------------
\* Each entry takes up where the one before it ended.
TypeOK ==
    LET t == Timeline(mentions) IN
    /\ CurrentState(t) \in States
    /\ \A i \in DOMAIN t :
          /\ t[i].from = IF i = 1 THEN "UNKNOWN" ELSE t[i - 1].to
          /\ t[i].occurred <=> t[i].from # t[i].to

\* "The same repository state always produces exactly the same timeline": the
\* order in which the mentions were stored does not matter.
ArrivalDoesNotMatter ==
    \A p \in Permutations(DOMAIN mentions) :
        Timeline([i \in DOMAIN mentions |-> mentions[p[i]]]) = Timeline(mentions)

\* RESOLVED is terminal, and nothing is lost silently: every RESOLVED mention is
\* an entry, and one that speaks of another state either changes the state or is
\* flagged as invalid.
ResolvedIsFinal ==
    LET t == Timeline(mentions) IN
    /\ \A i, j \in DOMAIN t : i <= j /\ t[i].to = "RESOLVED" => t[j].to = "RESOLVED"
    /\ {t[i].mention.id : i \in DOMAIN t}
         = {mentions[i].id : i \in {k \in DOMAIN mentions : mentions[k].status = "RESOLVED"}}
    /\ \A i \in DOMAIN t : t[i].new \notin {"UNKNOWN", t[i].to} => ~ t[i].valid

\* Of every step.  The past is only extended by a meeting that took place after all others; what
\* the lifecycle was before it stands.
LaterOnlyAppends ==
    LET new == Last(mentions')   t == Timeline(mentions) IN
    /\ mentions' # mentions
    /\ \A i \in DOMAIN mentions : date[mentions[i].meeting] < date[new.meeting]
    => IsPrefix(t, Timeline(mentions'))

=============================================================================
