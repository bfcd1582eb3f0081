-------------------------- MODULE EvidenceRetrieval --------------------------
(***************************************************************************)
(* EvidenceRetrievalService and EvidenceContextBuilder: how the signals of *)
(* the derived read models become evidence items for an intent, and how a  *)
(* set of items is ranked and bounded into the context the answer provider *)
(* sees.  A signal is what one of the read models reports: where it comes  *)
(* from ("src"), what it is, its level, and the text it rests on.  The     *)
(* hash that identifies an item is taken as injective: the id of an item   *)
(* is what is hashed, and the order of the hashes any one.                 *)
(***************************************************************************)
EXTENDS Integers, Sequences, FiniteSets

CONSTANTS
    Entities, Meetings,
    None,            \* no entity, no meeting
    Hash(_),         \* the hash of an id, as a number in the order of the strings
    MaxCharacters    \* MAX_CONTEXT_CHARACTERS, in units of one short item

\* The rules of the classifier, top down; first match wins.
RuleOrder == <<"ENTITY_DEPENDENCIES", "ENTITY_IMPACTS", "ENTITY_RISKS", "ENTITY_HISTORY",
               "ENTITY_ACTIONS", "ENTITY_CHANGES", "ENTITY_STATUS", "ORGANISATION_RISKS",
               "ORGANISATION_CHANGES", "ORGANISATION_PRIORITIES">>

Intents == {RuleOrder[i] : i \in DOMAIN RuleOrder}
EntityIntents == {RuleOrder[i] : i \in 1 .. 7}

\* EvidenceType, as far as evidence of the type is built.
EvidenceTypes == {"ENTITY", "OBSERVATION", "STATE_TRANSITION", "STATE", "MEMORY_FACT", "ATTENTION",
                  "INSIGHT", "IMPACT", "DEPENDENCY_PATH", "RELATIONSHIP", "ACTION",
                  "ORGANISATION_CHANGE"}

\* QueryIntentService.classify, for a question that contains patterns of these rules.
Classify(matches) ==
    IF matches = {} THEN "UNKNOWN"
    ELSE RuleOrder[CHOOSE i \in DOMAIN RuleOrder :
            RuleOrder[i] \in matches /\ \A j \in 1 .. i - 1 : RuleOrder[j] \notin matches]

\* _INTENT_PRIORITIES: the types relevant to an intent, the most relevant first.
Relevant ==
    [ENTITY_STATUS |-> <<"STATE", "ATTENTION", "INSIGHT", "MEMORY_FACT", "STATE_TRANSITION">>,
     ENTITY_HISTORY |-> <<"STATE_TRANSITION", "MEMORY_FACT", "OBSERVATION">>,
     ENTITY_RISKS |-> <<"ATTENTION", "IMPACT", "INSIGHT", "DEPENDENCY">>,
     ENTITY_DEPENDENCIES |-> <<"DEPENDENCY_PATH", "DEPENDENCY", "RELATIONSHIP">>,
     ENTITY_IMPACTS |-> <<"IMPACT", "DEPENDENCY_PATH">>,
     ENTITY_ACTIONS |-> <<"ACTION", "INSIGHT", "ATTENTION">>,
     ENTITY_CHANGES |-> <<"ORGANISATION_CHANGE", "STATE_TRANSITION">>,
     ORGANISATION_PRIORITIES |-> <<"ATTENTION", "ACTION", "INSIGHT">>,
     ORGANISATION_CHANGES |-> <<"ORGANISATION_CHANGE">>,
     ORGANISATION_RISKS |-> <<"ATTENTION", "IMPACT", "INSIGHT">>]

\* _get_priority: lower is more relevant, 99 is not relevant.
Priority(intent, type) ==
    LET at == {i \in 1 .. Len(Relevant[intent]) : Relevant[intent][i] = type}
    IN  IF at = {} THEN 99 ELSE CHOOSE i \in at : TRUE

\* weight_map of the fetchers
Weight(level) ==
    CASE level = "CRITICAL" -> 4 [] level = "HIGH" -> 3 [] level = "MEDIUM" -> 2 [] OTHER -> 1

-----------------------------------------------------------------------------
(* The builders and fetchers                                               *)

\* EvidenceItem, for the signal s.
Item(s, type, weight, intent, text) ==
    [id |-> <<type, s.entity, s.meeting, s.key>>, type |-> type, entity |-> s.entity,
     meeting |-> s.meeting, at |-> s.at, weight |-> weight, priority |-> Priority(intent, type),
     topic |-> s.topic, says |-> s.says, text |-> text /\ s.text]

\* The n-th of a set of numbers, and a list built from the chosen indices in their order.
Nth(S, n) == CHOOSE i \in S : Cardinality({j \in S : j <= i}) = n
Each(chosen, made) == [n \in 1 .. Cardinality(chosen) |-> made[Nth(chosen, n)]]

\* The signals of a read model about an entity, or about any.
About(signals, source, e) ==
    {i \in DOMAIN signals : signals[i].src = source /\ e \in {signals[i].entity, None}}

EntityEvidence(intent, e) ==
    <<[id |-> <<"ENTITY", e, None, "entity">>, type |-> "ENTITY", entity |-> e, meeting |-> None,
       at |-> 1, weight |-> 0, priority |-> Priority(intent, "ENTITY"), topic |-> "entity",
       says |-> 0, text |-> FALSE]>>

TimelineEvidence(signals, intent, e, text) ==
    Each({i \in About(signals, "timeline", e) : signals[i].what \in {"OBSERVATION", "STATE_TRANSITION"}},
         [i \in DOMAIN signals |->
            LET s == signals[i] IN
            Item(s, s.what, IF s.what = "OBSERVATION" THEN 1
                            ELSE IF s.level \in {"BLOCKED", "RESOLVED"} THEN 3 ELSE 2, intent, text)])

\* A fact is identified by its type and meeting, not by its mention.
MemoryEvidence(signals, intent, e) ==
    Each(About(signals, "memory", e),
         [i \in DOMAIN signals |->
            LET s == signals[i] IN
            Item([s EXCEPT !.key = s.what], IF s.what = "CURRENT_STATE" THEN "STATE" ELSE "MEMORY_FACT",
                 IF s.what = "STATE_TRANSITION" THEN 2 ELSE 1, intent, FALSE)])

\* The items of one type, as urgent as the signal they come from.
Levelled(signals, type, intent, text) ==
    [i \in DOMAIN signals |-> Item(signals[i], type, Weight(signals[i].level), intent, text)]

AttentionEvidence(signals, intent, e) ==
    Each({i \in About(signals, "attention", e) : signals[i].level # "NONE"},
         Levelled(signals, "ATTENTION", intent, FALSE))

InsightEvidence(signals, intent, e, text) ==
    Each(About(signals, "insight", e), Levelled(signals, "INSIGHT", intent, text))

ImpactEvidence(signals, intent, e, multiHop) ==
    Each({i \in About(signals, "impact", e) : multiHop \/ signals[i].what = "DIRECT"},
         Levelled(signals, "IMPACT", intent, FALSE))

DependencyEvidence(signals, intent, e) ==
    Each(About(signals, "path", e),
         [i \in DOMAIN signals |-> Item(signals[i], "DEPENDENCY_PATH",
                                        IF signals[i].what = "DIRECT" THEN 3 ELSE 2, intent, FALSE)])

RelationshipEvidence(signals, intent, e, text) ==
    Each(About(signals, "relationship", e),
         [i \in DOMAIN signals |-> Item(signals[i], "RELATIONSHIP", 3, intent, text)])

ActionEvidence(signals, intent, e) ==
    Each(About(signals, "action", e), Levelled(signals, "ACTION", intent, FALSE))

First(s, n) == SubSeq(s, 1, IF Len(s) < n THEN Len(s) ELSE n)

ChangeEvidence(signals, intent, e, limit, text) ==
    First(Each(About(signals, "change", e), Levelled(signals, "ORGANISATION_CHANGE", intent, text)),
          limit)

\* The summary is about no entity; risk_only leaves the summary in.
PortfolioEvidence(signals, intent, riskOnly) ==
    Each({i \in About(signals, "portfolio", None) : \/ ~riskOnly \/ signals[i].entity = None
                                                    \/ signals[i].level \in {"CRITICAL", "HIGH"}},
         [i \in DOMAIN signals |->
            LET s == signals[i] IN
            Item(s, "MEMORY_FACT", IF s.entity = None THEN (IF s.level = "CRITICAL" THEN 4 ELSE 3)
                                   ELSE Weight(s.level), intent, FALSE)])

\* The items of every entity, the most urgent first, as many as the limit.
TopAttentionEvidence(signals, intent, limit) ==
    LET all == AttentionEvidence(signals, intent, None)
        place(i) == Cardinality({j \in DOMAIN all : \/ all[j].weight > all[i].weight
                                                    \/ all[j].weight = all[i].weight /\ j <= i})
    IN  First([n \in DOMAIN all |-> all[CHOOSE i \in DOMAIN all : place(i) = n]], limit)

\* retrieve_evidence
Retrieve(signals, intent, e, limit, text) ==
    IF e # None THEN
        (IF e \in Entities THEN EntityEvidence(intent, e) ELSE <<>>) \o
        CASE intent = "ENTITY_STATUS" ->
                TimelineEvidence(signals, intent, e, text) \o MemoryEvidence(signals, intent, e)
                \o AttentionEvidence(signals, intent, e) \o InsightEvidence(signals, intent, e, text)
          [] intent = "ENTITY_HISTORY" ->
                TimelineEvidence(signals, intent, e, text) \o MemoryEvidence(signals, intent, e)
          [] intent = "ENTITY_RISKS" ->
                AttentionEvidence(signals, intent, e) \o InsightEvidence(signals, intent, e, text)
                \o ImpactEvidence(signals, intent, e, FALSE)
                \o TimelineEvidence(signals, intent, e, text)
          [] intent = "ENTITY_DEPENDENCIES" ->
                DependencyEvidence(signals, intent, e)
                \o RelationshipEvidence(signals, intent, e, text)
          [] intent = "ENTITY_IMPACTS" -> ImpactEvidence(signals, intent, e, TRUE)
          [] intent = "ENTITY_ACTIONS" ->
                ActionEvidence(signals, intent, e) \o AttentionEvidence(signals, intent, e)
                \o InsightEvidence(signals, intent, e, text)
          [] intent = "ENTITY_CHANGES" -> ChangeEvidence(signals, intent, e, limit, text)
          [] OTHER -> <<>>
    ELSE CASE intent = "ORGANISATION_CHANGES" -> ChangeEvidence(signals, intent, None, limit, text)
           [] intent \in {"ORGANISATION_PRIORITIES", "ORGANISATION_RISKS"} ->
                PortfolioEvidence(signals, intent, intent = "ORGANISATION_RISKS")
                \o TopAttentionEvidence(signals, intent, limit)
           [] OTHER -> <<>>

-----------------------------------------------------------------------------
(* The semantic corpus                                                     *)

\* A dictionary by evidence id: the last item of an id is the one kept.
LastOf(items) ==
    {items[i] : i \in {j \in DOMAIN items : \A k \in j + 1 .. Len(items) : items[k].id # items[j].id}}

\* The order in which the corpus asks for the intents.
CorpusOrder == <<"ENTITY_STATUS", "ENTITY_HISTORY", "ENTITY_RISKS", "ENTITY_DEPENDENCIES",
                 "ENTITY_IMPACTS", "ENTITY_ACTIONS", "ENTITY_CHANGES", "ORGANISATION_CHANGES",
                 "ORGANISATION_PRIORITIES", "ORGANISATION_RISKS">>

\* The limit it asks with.
CorpusLimit == 1000

\* What the intents find, of the entity intents about these entities (build_semantic_corpus
\* asks about all): an item keeps the priority of the last intent that retrieved it.
CorpusOf(signals, entities) ==
    LET asked(i) == IF CorpusOrder[i] \in EntityIntents THEN entities ELSE {None}
        pass(i) == UNION {LastOf(Retrieve(signals, CorpusOrder[i], e, CorpusLimit, TRUE)) : e \in asked(i)}
        found == UNION {{<<i, x>> : x \in pass(i)} : i \in DOMAIN CorpusOrder}
    IN  {p[2] : p \in {f \in found : \A g \in found : g[2].id = f[2].id => g[1] <= f[1]}}

\* _make_evidence_representation: what the embedding and its hash are taken of.
Representation(x) == [type |-> x.type, entity |-> x.entity, topic |-> x.topic,
                      says |-> x.says, text |-> x.text]

-----------------------------------------------------------------------------
(* EvidenceContextBuilder                                                  *)

\* The order of two evidence ids.
HashOrder(a, b) == Hash(a) < Hash(b)

\* sort_key: severity, relevance to the intent, recency (no timestamp: 0), id.
Before(x, y) ==
    \/ x.weight > y.weight
    \/ x.weight = y.weight /\ x.priority < y.priority
    \/ x.weight = y.weight /\ x.priority = y.priority /\ x.at > y.at
    \/ x.weight = y.weight /\ x.priority = y.priority /\ x.at = y.at /\ HashOrder(x.id, y.id)

Ranked(items) ==
    [n \in 1 .. Cardinality(items) |->
        CHOOSE x \in items : Cardinality({y \in items : Before(y, x)}) = n - 1]

\* The length of an item's text; a transcript excerpt makes it long.
Characters(x) == IF x.text THEN 2 ELSE 1

Length(s, n) == Cardinality({p \in (1 .. n) \X (1 .. 2) : p[2] <= Characters(s[p[1]])})

\* The loop stops at the first item that does not fit.
Fitting(s) ==
    LET fit == {n \in 0 .. Len(s) : Length(s, n) <= MaxCharacters}
    IN  SubSeq(s, 1, CHOOSE n \in fit : \A k \in fit : k <= n)

\* build_context: what the provider sees of items that have distinct ids.
Context(items, max) ==
    LET bounded == First(Ranked(items), max) IN
    [items |-> Fitting(bounded),
     truncated |-> Cardinality(items) > max \/ Len(Fitting(bounded)) < Len(bounded)]

=============================================================================
