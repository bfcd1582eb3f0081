------------------------------- MODULE Query -------------------------------
(***************************************************************************)
(* NaturalLanguageQueryService with hybrid retrieval and the fallback for  *)
(* questions of unclear intent: one request reads the entities, the        *)
(* derived signals, the semantic corpus, the persisted index and the       *)
(* revisions of the meetings one after the other, while meetings are       *)
(* refreshed, their mentions resolved and their evidence indexed.          *)
(*                                                                         *)
(* The read models report what all resolved mentions say that are stored,  *)
(* those of replaced revisions too; none is ever deleted.                  *)
(***************************************************************************)
EXTENDS EvidenceRetrieval

CONSTANTS
    Forms,          \* [Entities -> SUBSET names]: normalized name and aliases
    Mentions,       \* what may be observed: records of a meeting, a revision, an entity
    Report(_),      \* what the read models report when these mentions are resolved, in order
    Corpora,        \* the evidence found then, of the intents about these entities
    Parts,          \* sets of evidence a run of the index stage may get written
    Requests,       \* what clients ask
    MinOverlap,     \* MIN_OVERLAP_TOKENS
    ProbeTopK,      \* FALLBACK_PROBE_TOP_K
    Keys,           \* what tells the signals of one kind, entity and meeting apart
    MaxRevision,    \* bounds of the model: on the revisions,
    MaxMoments,     \* and on what revisions and mentions have been
    Fails           \* whether the search may fail: {FALSE} or BOOLEAN

SignalRecords ==
    [src : STRING, what : Keys, entity : Entities \cup {None}, meeting : Meetings \cup {None},
     key : Keys, level : STRING, at : Int, topic : STRING, text : BOOLEAN, says : Nat]

EvidenceIds == EvidenceTypes \X (Entities \cup {None}) \X (Meetings \cup {None}) \X Keys

ConstantsOK ==
    /\ IsFiniteSet(Entities) /\ IsFiniteSet(Meetings) /\ None \notin Entities \cup Meetings
    /\ "entity" \in Keys
    /\ {MaxRevision, MaxMoments} \subseteq Nat \ {0} /\ MaxCharacters \in Nat
    /\ \A r \in Requests : /\ DOMAIN r = {"question", "entity", "max", "text"}
                           /\ r.max \in Nat \ {0}
                           /\ r.question.matches \subseteq Intents
    /\ IsFiniteSet(Mentions)
    /\ \A k \in Mentions : /\ k.meeting \in Meetings /\ k.entity \in Entities
                          /\ k.revision \in 1 .. MaxRevision
    /\ \A S \in SUBSET Mentions : Report(S) \in Seq(SignalRecords)
    /\ Corpora = [S \in SUBSET Mentions |-> [es \in SUBSET Entities |-> CorpusOf(Report(S), es)]]
    /\ \A a, b \in EvidenceIds : Hash(a) \in Int /\ (Hash(a) = Hash(b) => a = b)

VARIABLES
    revision,   \* [Meetings -> source_revision]
    observed,   \* the mentions that are RESOLVED
    was,        \* what revisions and mentions have been (history)
    index,      \* the records of the semantic index
    q,          \* the request in progress
    shown       \* the last preview, while nothing it rests on has changed

vars == <<revision, observed, was, index, q, shown>>

NoAnswer == [status |-> 0, evidence |-> <<>>, cited |-> <<>>, entity |-> None,
             insufficient |-> FALSE, warnings |-> {}]
NoRequest == [question |-> None]
NoPreview == [request |-> NoRequest, items |-> <<>>]

Idle == [pc |-> "idle", request |-> NoRequest, preview |-> FALSE, calm |-> TRUE, failed |-> FALSE,
         intent |-> "UNKNOWN", entity |-> None, structured |-> {}, corpus |-> {}, hits |-> {},
         semantic |-> {}, asOf |-> <<>>, items |-> <<>>, truncated |-> FALSE, answer |-> NoAnswer]

Signals == Report(observed)

Init ==
    /\ revision = [m \in Meetings |-> 1]
    /\ observed = {k \in Mentions : k.revision = 1}
    /\ was = {[revision |-> revision, observed |-> observed]}
    /\ index = {}
    /\ q = Idle
    /\ shown = NoPreview

-----------------------------------------------------------------------------
(* The pipeline, as far as a query can tell                                *)

Disturbed == q' = [q EXCEPT !.calm = FALSE] /\ shown' = NoPreview

Noted ==
    /\ was' = was \cup {[revision |-> revision', observed |-> observed']}
    /\ Cardinality(was') <= MaxMoments

Refresh(m) ==
    /\ revision[m] < MaxRevision
    /\ revision' = [revision EXCEPT ![m] = @ + 1]
    /\ Disturbed /\ UNCHANGED <<observed, index>> /\ Noted

\* A mention is resolved; only those of the revision that is current may be saved.
Observe(k) ==
    /\ k \notin observed /\ k.revision = revision[k.meeting]
    /\ observed' = observed \cup {k}
    /\ Disturbed /\ UNCHANGED <<revision, index>> /\ Noted

\* Resolved again, it is ambiguous.
Withdraw(k) ==
    /\ k \in observed /\ k.revision = revision[k.meeting]
    /\ observed' = observed \ {k}
    /\ Disturbed /\ UNCHANGED <<revision, index>> /\ Noted

\* The entities of the meeting's current mentions: those the index stage asks about.
Named(m, moment) ==
    {k.entity : k \in {o \in moment.observed : /\ o.meeting = m
                                              /\ o.revision = moment.revision[m]}}

\* build_semantic_evidence_for_meeting
MeetingEvidence(m, moment, entities) == {x \in Corpora[moment.observed][entities] : x.meeting = m}

\* The records of the evidence found at a moment, stamped with the revision of that moment.
Records(m, moment, entities) ==
    {[id |-> x.id, meeting |-> m, revision |-> moment.revision[m], hash |-> Representation(x)] :
        x \in MeetingEvidence(m, moment, entities)}

\* A run of the index stage ends, or is stopped on its way.  It selected the entities and
\* found their evidence at moments of the revision it read (a refresh before the check of
\* the revision ends it, see SemanticIndex), and writes as late as it likes, over records
\* of later runs too.  No record is deleted.
Index(m) ==
    /\ \E fetched \in was :
          \E entities \in {Named(m, w) : w \in {v \in was : v.revision[m] = fetched.revision[m]}} :
             \E written \in {{r \in Records(m, fetched, entities) : r.id \in part} : part \in Parts} :
                index' = {r \in index : \A n \in written : n.id # r.id} \cup written
    /\ index' # index
    /\ Disturbed /\ UNCHANGED <<revision, observed, was>>

-----------------------------------------------------------------------------
(* query and query_evidence_only                                           *)

Step(next) == q' = next /\ UNCHANGED <<revision, observed, was, index, shown>>

\* An answer without evidence; a preview shows no items.
Reply(state, answer) ==
    /\ q' = [state EXCEPT !.pc = "done", !.answer = answer]
    /\ shown' = IF state.preview /\ state.calm /\ ~state.failed
                THEN [request |-> state.request, items |-> state.items] ELSE shown
    /\ UNCHANGED <<revision, observed, was, index>>

Insufficient(entity, warnings) ==
    [NoAnswer EXCEPT !.status = 200, !.entity = entity, !.insufficient = TRUE, !.warnings = warnings]

\* query_evidence_only ends with the context's items, whether or not there are any.
Preview(state) == Reply(state, [NoAnswer EXCEPT !.status = 200, !.evidence = state.items])

Ask(r, preview) ==
    /\ q.pc = "idle"
    /\ LET intent == Classify(r.question.matches) IN
       q' = [Idle EXCEPT !.pc = IF intent = "UNKNOWN" THEN "unclear"
                                ELSE IF intent \in EntityIntents THEN "resolve" ELSE "retrieve",
                         !.request = r, !.preview = preview, !.intent = intent, !.entity = r.entity]
    /\ shown' = IF preview THEN NoPreview ELSE shown
    /\ UNCHANGED <<revision, observed, was, index>>

\* An unclear question is probed, unless it is a preview or has no word to probe with.
Unclear ==
    /\ q.pc = "unclear"
    /\ IF q.preview \/ q.request.question.tokens = 0
       THEN Reply(q, Insufficient(q.entity, {}))
       ELSE Step([q EXCEPT !.pc = "corpus"])

\* QueryEntityResolver.resolve, resolve_by_id: the entities the request may mean.
Matched(r) ==
    IF r.entity # None THEN {r.entity} \cap Entities
    ELSE {e \in Entities : Forms[e] \cap r.question.names # {}}

Resolve ==
    /\ q.pc = "resolve"
    /\ LET matched == Matched(q.request) IN
       IF Cardinality(matched) = 1
       THEN Step([q EXCEPT !.pc = "retrieve", !.entity = CHOOSE e \in matched : TRUE])
       ELSE Reply([q EXCEPT !.entity = None],
                  Insufficient(None, {IF matched = {} THEN "unresolved" ELSE "ambiguous"}))

\* The structured evidence of the hybrid service: twice the limit, always with source text.
ReadStructured ==
    /\ q.pc = "retrieve"
    /\ Step([q EXCEPT !.pc = "corpus",
                      !.structured = LastOf(Retrieve(Signals, q.intent, q.entity, 2 * q.request.max, TRUE))])

ReadCorpus ==
    /\ q.pc = "corpus"
    /\ Step([q EXCEPT !.pc = "search", !.corpus = Corpora[observed][Entities]])

\* Similarity, as the rank of the topic among those the embedding finds similar enough.
Similar(question, x) == \E i \in DOMAIN question.similar : question.similar[i] = x.topic
Closer(question, x, y) ==
    \E i, j \in DOMAIN question.similar :
        /\ question.similar[i] = x.topic /\ question.similar[j] = y.topic
        /\ i < j \/ (i = j /\ HashOrder(x.id, y.id))

\* The records whose source item still exists and reads as it did when it was embedded.
Rehydrated(records, corpus, question) ==
    {[item |-> p[2], meeting |-> p[1].meeting, revision |-> p[1].revision] :
        p \in {found \in records \X corpus : /\ found[1].id = found[2].id
                                              /\ found[1].hash = Representation(found[2])
                                              /\ Similar(question, found[2])}}

\* search_persisted; embedding the question or reading the index may fail.  The corpus is
\* not needed any more.
Search(fails) ==
    /\ q.pc = "search"
    /\ Step([q EXCEPT !.pc = "revisions", !.failed = fails, !.corpus = {},
                      !.hits = IF fails THEN {} ELSE Rehydrated(index, q.corpus, q.request.question)])

\* Mutant: a record of any revision will do.
CurrentUnchecked(hits, revisions) == {h.item : h \in hits}

\* _is_current_record
Current(hits, revisions) == {h.item : h \in {k \in hits : k.revision = revisions[k.meeting]}}

TopK(items, k, question) ==
    {x \in items : Cardinality({y \in items : Closer(question, y, x)}) < k}

\* For an entity, only its own evidence or what was retrieved anyway.
Candidates(matches, structured, entity) ==
    {x \in matches : \/ entity \in {None, x.entity}
                     \/ \E y \in structured : y.id = x.id}

\* LexicalSufficiencyFallback: attributable, and sharing enough words with the question.
Sufficient(matches, question) ==
    {x \in matches : /\ x.entity # None \/ x.meeting # None
                     /\ question.shares[x.topic] >= MinOverlap}

AtMost(k, n) == IF k < n THEN k ELSE n

\* The matches that are current: for an unclear question those that suffice, for any other
\* the candidates that were not retrieved anyway.
Found(state, revisions) ==
    LET r == state.request
        matches(k) == TopK(Current(state.hits, revisions), k, r.question)
    IN  IF state.intent = "UNKNOWN"
        THEN Sufficient(matches(AtMost(r.max, ProbeTopK)), r.question)
        ELSE {x \in Candidates(matches(r.max), state.structured, state.entity) :
                \A y \in state.structured : y.id # x.id}

\* What the context is built from: for a clear question the best of all.
Supplied(state, revisions) ==
    IF state.intent = "UNKNOWN" THEN Found(state, revisions)
    ELSE LET merged == First(Ranked(state.structured \cup Found(state, revisions)), state.request.max)
         IN  {merged[i] : i \in DOMAIN merged}

\* The revisions are looked up, the matches merged, and the context built.
BuildContext ==
    /\ q.pc = "revisions"
    /\ LET supplied == Supplied(q, revision)
           context == Context(supplied, q.request.max)
           next == [q EXCEPT !.pc = "context", !.asOf = revision, !.items = context.items,
                             !.semantic = Found(q, revision), !.truncated = context.truncated,
                         !.structured = {}, !.hits = {}]
       IN  IF q.preview THEN Preview(next)
           ELSE IF supplied = {} /\ q.intent = "UNKNOWN" THEN Reply(next, Insufficient(q.entity, {}))
           ELSE Step(next)

Warnings == (IF q.truncated THEN {"truncated"} ELSE {})
            \cup (IF q.intent = "UNKNOWN" THEN {"unclear"} ELSE {})

NothingFound ==
    /\ q.pc = "context" /\ q.items = <<>>
    /\ Reply(q, Insufficient(q.entity, Warnings))

\* The citations of items in the context, each once, in the order they were made.
Validated(cited, items) ==
    Each({i \in DOMAIN cited : /\ \E x \in DOMAIN items : items[x].id = cited[i]
                               /\ \A j \in 1 .. i - 1 : cited[j] # cited[i]}, cited)

\* The provider may cite anything, and decides whether the evidence is enough.
Answer(cited, insufficient) ==
    /\ q.pc = "context" /\ q.items # <<>>
    /\ Reply(q, [status |-> 200, evidence |-> q.items, cited |-> Validated(cited, q.items),
                 entity |-> q.entity, insufficient |-> insufficient,
                 warnings |-> Warnings \cup (IF \E i \in DOMAIN cited : \A x \in DOMAIN q.items :
                                                    q.items[x].id # cited[i]
                                             THEN {"citation"} ELSE {})])

\* submit_query: 502 when the answer cannot be parsed, 503 when there is none.
ProviderFails(status) ==
    /\ q.pc = "context" /\ q.items # <<>>
    /\ status \in {502, 503}
    /\ Reply(q, [NoAnswer EXCEPT !.status = status])

Close ==
    /\ q.pc = "done"
    /\ Step(Idle)

\* Of what the provider may cite: nothing, or something twice, or something and what is
\* invented.
Invented == <<"INVENTED">>
Cited == {q.items[i].id : i \in DOMAIN q.items} \cup {Invented}
Citations == {<<>>} \cup {p \in Cited \X Cited : p[2] \in {p[1], Invented}}

Next ==
    \/ \E m \in Meetings : Refresh(m) \/ Index(m)
    \/ \E k \in Mentions : Observe(k) \/ Withdraw(k)
    \/ \E r \in Requests, preview \in BOOLEAN : Ask(r, preview)
    \/ Unclear \/ Resolve \/ ReadStructured \/ ReadCorpus \/ (\E fails \in Fails : Search(fails))
    \/ BuildContext \/ NothingFound \/ Close
    \/ \E cited \in Citations, insufficient \in BOOLEAN : Answer(cited, insufficient)
    \/ \E status \in {502, 503} : ProviderFails(status)

Spec == Init /\ [][Next]_vars

-----------------------------------------------------------------------------
(* Properties                                                              *)

Answered == q.pc = "done" /\ ~q.preview

TypeOK ==
    /\ revision \in [Meetings -> 1 .. MaxRevision]
    /\ observed \subseteq Mentions /\ Cardinality(was) <= MaxMoments
    /\ q.answer.status \in {0, 200, 502, 503}
    /\ q.pc \in {"context", "done"} => Len(q.items) <= q.request.max

\* Whatever the provider cites, an answer cites only evidence it shows, each item once; and
\* evidence is shown only by an answer the provider gave.
CitationsGrounded ==
    LET a == q.answer IN
    /\ \A i \in DOMAIN a.cited : /\ \E x \in DOMAIN a.evidence : a.evidence[x].id = a.cited[i]
                                 /\ \A j \in DOMAIN a.cited : a.cited[i] = a.cited[j] => i = j
    /\ \A i, j \in DOMAIN a.evidence : a.evidence[i].id = a.evidence[j].id => i = j

\* The evidence of a question about an entity is about the one entity the question can mean,
\* although the semantic search covers the whole organisation; when it can mean several, or
\* none, there is no evidence at all.
EntityFocus ==
    q.intent \in EntityIntents =>
        \A i \in DOMAIN q.items : Matched(q.request) = {q.items[i].entity}

\* What only the semantic search found was reported, in the words that were embedded, at a
\* moment when its meeting was at the revision that is current when the revisions are
\* looked up, although the corpus, the index and the revisions are read one after the other
\* and the index may be written late.  The mention it rests on may be of an earlier
\* revision: the read models keep those.
SemanticOfRevision ==
    \A x \in q.semantic : \E moment \in was :
        /\ moment.revision[x.meeting] = q.asOf[x.meeting]
        /\ \E i \in DOMAIN Report(moment.observed) :
              LET s == Report(moment.observed)[i] IN
              /\ s.meeting = x.meeting /\ s.entity = x.entity
              /\ s.topic = x.topic /\ s.says = x.says

\* A search that fails costs no structured evidence: the context is the best of it.
FailureKeepsStructured ==
    q.failed /\ q.calm /\ q.intent # "UNKNOWN" /\ q.pc = "context" =>
        LET read == LastOf(Retrieve(Signals, q.intent, q.entity, 2 * q.request.max, TRUE)) IN
        q.items = Fitting(First(Ranked(read), q.request.max))

\* A question whose intent is clear is answered from the evidence its preview shows, as
\* long as nothing changes in between.
PreviewAgrees ==
    /\ q.pc = "context" /\ ~q.failed /\ q.intent # "UNKNOWN"
    /\ shown.request = q.request
    => q.items = shown.items

=============================================================================
