--------------------------- MODULE MCIntelligence ---------------------------
(***************************************************************************)
(* The instances of what is computed from mentions and records: the        *)
(* statements in the text of a mention and the entities it names, and,     *)
(* whenever they are asked for, timeline, insights, portfolio and changes. *)
(*                                                                         *)
(* A behaviour is one of one instance, "part", whose variables are kept in *)
(* s1, s2, ...  The parts share no state: what is written while a service  *)
(* reads is a step of its own module.                                      *)
(***************************************************************************)
EXTENDS Naturals, Sequences

CONSTANTS person, issue  \* the types of entities

VARIABLES part, s1, s2, s3, s4, s5, s6, s7, s8, s9, s10, s11

vars == <<part, s1, s2, s3, s4, s5, s6, s7, s8, s9, s10, s11>>

-----------------------------------------------------------------------------
(* The observations of one entity, in two or three meetings on the same or *)
(* on different days, which are processed in any order.                    *)

Speak == {{}, {"OPEN"}, {"BLOCKED"}, {"RESOLVED"}}

\* Three mentions, a text may speak of two states.
Lifecycle == INSTANCE EntityTimeline WITH
    Meetings <- {1, 2}, Dates <- {1, 2}, MaxMentions <- 3, MaxRevision <- 1,
    Says <- {{"IN_PROGRESS"}, {"BLOCKED"}, {"RESOLVED"}, {"RESOLVED", "BLOCKED"}},
    date <- s1, revision <- s2, mentions <- s3
\* Two mentions, and sources that are revised between them.
Revised == INSTANCE EntityTimeline WITH
    Meetings <- {1, 2}, Dates <- {1, 2}, MaxMentions <- 2, MaxRevision <- 2, Says <- Speak,
    date <- s1, revision <- s2, mentions <- s3

\* Three mentions, stale after two days.
Insight == INSTANCE EntityInsights WITH
    Meetings <- {1, 2}, Dates <- {1, 2}, MaxMentions <- 3, MaxRevision <- 1,
    Says <- (Speak \ {{"OPEN"}}) \cup {{"IN_PROGRESS"}}, StaleThreshold <- 2, MaxTime <- 4,
    date <- s1, revision <- s2, mentions <- s3, now <- s4

\* Three mentions, stale the day after the last, processed during the reads or before.
Overview == INSTANCE Portfolio WITH
    Meetings <- {1, 2}, Dates <- {1, 2}, MaxMentions <- 3, MaxRevision <- 1,
    Says <- Speak \ {{"OPEN"}}, StaleThreshold <- 0, MaxTime <- 2, MaxWrites <- 2,
    ImpactSets <- {{}, {"LOW"}, {"LOW", "MEDIUM"}, {"CRITICAL"}},
    date <- s1, revision <- s2, mentions <- s3, now <- s4,
    pc <- s5, held <- s6, read <- s7, writes <- s8, kept <- s9

Record(s, t, type, m) == [source |-> s, target |-> t, type |-> type, meeting |-> m, revision |-> 1]

\* Two mentions; the records, of which two may make a path, are replaced meanwhile.
Changes == INSTANCE OrganisationChange WITH
    Meetings <- {1, 2}, Dates <- {1, 2}, MaxMentions <- 2, MaxRevision <- 1,
    Says <- {{"IN_PROGRESS"}, {"BLOCKED"}, {"RESOLVED"}}, StaleThreshold <- 1, MaxTime <- 3,
    Entities <- {1, 2, 3}, Entity <- 1, MaxDepth <- 2, MaxWrites <- 2,
    Loads <- {{}, {Record(1, 2, "DEPENDS_ON", 1)},
              {Record(1, 2, "BLOCKS", 2), Record(2, 3, "DEPENDS_ON", 1)}},
    date <- s1, revision <- s2, mentions <- s3, now <- s4, deps <- s5, sources <- s6,
    pc <- s7, insights <- s8, found <- s9, held <- s10, writes <- s11
\* Three mentions in up to three meetings, no records, undisturbed.
History == INSTANCE OrganisationChange WITH
    Meetings <- {1, 2, 3}, Dates <- {1, 2}, MaxMentions <- 3, MaxRevision <- 1,
    Says <- {{"IN_PROGRESS"}, {"BLOCKED"}, {"RESOLVED"}}, StaleThreshold <- 1, MaxTime <- 2,
    Entities <- {1}, Entity <- 1, MaxDepth <- 2, MaxWrites <- 0, Loads <- {{}},
    date <- s1, revision <- s2, mentions <- s3, now <- s4, deps <- s5, sources <- s6,
    pc <- s7, insights <- s8, found <- s9, held <- s10, writes <- s11

-----------------------------------------------------------------------------
(* Statements: every text of one or two clauses.  The forms of a verb are  *)
(* one pattern of the code, so that one stands for them.                   *)

\* A name that is the beginning of another, and an entity with an alias.
NamesOf(e) == <<{<<"alpha">>}, {<<"alpha", "beta">>}, {<<"gamma">>, <<"customer", "support">>}>>[e]

Saying(says, phrases) == {[words |-> words, says |-> says] : words \in phrases}

Verbs ==
    Saying("DEPENDS_ON",
           {<<"depends", "on">>, <<"is", "dependent", "on">>, <<"is", "waiting", "for">>,
            <<"cannot", "proceed", "until">>, <<"is", "blocked", "until">>,
            <<"requires">>, <<"needs">>})
    \cup Saying("BLOCKS", {<<"is", "blocking">>, <<"blocks">>, <<"blocked">>})
    \cup Saying("BLOCKED_BY", {<<"is", "blocked", "by">>, <<"is", "being", "blocked", "by">>})
    \cup Saying("NOTHING",
                {<<"was", "blocked", "by">>, <<"is", "not", "blocked", "by">>,
                 <<"is", "waiting", "on">>, <<"never", "blocks">>})

Statements == INSTANCE DependencyStatements WITH
    Entities <- {1, 2, 3}, Names <- NamesOf, IsEndings <- {"is", "being", "analysis"},
    Verbs <- Verbs,
    Later <- {v \in Verbs : v.words \in {<<"blocks">>, <<"needs">>, <<"is", "blocked", "by">>}},
    Tails <- {<<>>, <<"to", "finish">>, <<"before", "friday">>},
    Joints <- {<<".">>, <<"and">>, <<"which">>, <<"so", "that">>},
    said <- s1, joint <- s2, next <- s3, found <- s4

-----------------------------------------------------------------------------
\* Every registry of two entities with an alias each.  Token 0 is a single letter.
Resolution == INSTANCE EntityResolution WITH
    Short <- {0}, Types <- {issue, person}, MaxEntities <- 2, MaxAliases <- 1,
    Texts <- {<<0>>, <<1, 2>>, <<2, 1>>, <<1, 2, 3>>, <<1, 2, 3, 4>>, <<1, 2, 5, 6>>},
    mention <- s1, registry <- s2

-----------------------------------------------------------------------------
Unused10 == s10 = {} /\ s11 = {}
Unused5 == s5 = {} /\ s6 = {} /\ s7 = {} /\ s8 = {} /\ s9 = {} /\ Unused10
Unused4 == s4 = {} /\ Unused5

Init ==
    \/ part = "lifecycle" /\ Lifecycle!Init /\ Unused4
    \/ part = "revised"   /\ Revised!Init   /\ Unused4
    \/ part = "insight"   /\ Insight!InsightInit    /\ Unused5
    \/ part = "overview"  /\ Overview!PortfolioInit /\ Unused10
    \/ part = "changes"   /\ Changes!ChangeInit
    \/ part = "history"   /\ History!ChangeInit
    \/ part = "statements" /\ Statements!Init /\ Unused5
    \/ part = "resolution" /\ Resolution!Init /\ s3 = {} /\ Unused4

Next ==
    \/ part = "lifecycle" /\ Lifecycle!Next /\ UNCHANGED <<part, s4, s5, s6, s7, s8, s9, s10, s11>>
    \/ part = "revised"   /\ Revised!Next   /\ UNCHANGED <<part, s4, s5, s6, s7, s8, s9, s10, s11>>
    \/ part = "insight"   /\ Insight!InsightNext /\ UNCHANGED <<part, s5, s6, s7, s8, s9, s10, s11>>
    \/ part = "overview"  /\ Overview!PortfolioNext /\ UNCHANGED <<part, s10, s11>>
    \/ part = "changes"   /\ Changes!ChangeNext /\ UNCHANGED part
    \/ part = "history"   /\ History!ChangeNext /\ UNCHANGED part
    \/ part = "statements" /\ Statements!Next /\ UNCHANGED <<part, s5, s6, s7, s8, s9, s10, s11>>
    \/ part = "resolution" /\ Resolution!Next
                           /\ UNCHANGED <<part, s3, s4, s5, s6, s7, s8, s9, s10, s11>>

Spec == Init /\ [][Next]_vars

-----------------------------------------------------------------------------
(* The properties of the parts; each module says more of its own.          *)

\* The lifecycle of an entity does not depend on the order the meetings
\* are processed in; RESOLVED is terminal, and what is not applied is flagged; a later
\* meeting only appends to the timeline, also when sources are revised.
LifecycleFollowsHistory ==
    /\ [](part = "lifecycle" => /\ Lifecycle!TypeOK /\ Lifecycle!ArrivalDoesNotMatter
                                /\ Lifecycle!ResolvedIsFinal)
    /\ [][/\ part = "lifecycle" => Lifecycle!LaterOnlyAppends
          /\ part = "revised"   => Revised!LaterOnlyAppends]_vars

\* The ids keep insights and events apart; a stale entity reaches HIGH; an entity that
\* is blocked is CRITICAL and escalated, as of the day it was blocked last.
InsightsFollowHistory ==
    part = "insight" => /\ Insight!InsightTypeOK /\ Insight!NothingMerged
                        /\ Insight!StaleIsHigh /\ Insight!BlockedIsEscalated

\* Whatever is written between the reads, the counts of the portfolio agree and an
\* entity that asked for more than LOW attention is counted; unless a mention was taken
\* from it meanwhile, so is one that any of the reads has seen.  Without a write the
\* risk follows the history of the entity.
PortfolioAgrees ==
    part = "overview" => /\ Overview!CountsAgree /\ Overview!SeenIsIncluded
                         /\ Overview!RiskFollowsHistory

\* An escalation is anchored where the entity was blocked, and what adjacent windows
\* report is what one over both reports, whatever is written between the reads.
\* Undisturbed, the changes of the lifecycle are all reported, and the ids of the past
\* stay when a later meeting is processed.
ChangesReported ==
    /\ part = "changes" => /\ Changes!ChangeTypeOK /\ Changes!EscalationAnchored
                           /\ Changes!WindowsAddUp
    /\ part = "history" => History!HistoryReported /\ History!IdsAreStable

\* Every dependency is what a clause says, in its direction, and what is said by a
\* clause that stands alone is found.
StatementsFaithful ==
    part = "statements" => /\ Statements!TypeOK
                           /\ Statements!NothingFabricated
                           /\ Statements!StatementFound

\* The shortlist loses nobody the score would have reached, who is
\* selected leads by the margin, a name matched in full is not passed over, and the
\* growth of the registry moves a decision only towards what is new.
DecisionsSound ==
    /\ [](part = "resolution" => /\ Resolution!TypeOK /\ Resolution!Recall
                                 /\ Resolution!SelectsClearWinner /\ Resolution!ExactMatchWins)
    /\ [][part = "resolution" => Resolution!GrowthIsLocal]_vars

=============================================================================
