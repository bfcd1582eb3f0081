-------------------------- MODULE MeetingPipeline --------------------------
(***************************************************************************)
(* The mentions, entities and dependencies of one meeting: the stages      *)
(* RESOLVED and RELATIONSHIPS_PERSISTED of a job (app/services/            *)
(* meeting_pipeline_orchestrator.py and the services it calls) and the     *)
(* endpoints of app/api/entities.py that write the same rows, while the    *)
(* meeting is revised.                                                     *)
(*                                                                         *)
(* An actor is a run of a worker or a request.  A read or a transaction is *)
(* a step.  An actor may stop at any step: the process ends, the lease is  *)
(* lost (assert_owned raises) or a guarded write is refused.               *)
(***************************************************************************)
EXTENDS ResolutionPolicy

CONSTANTS
    Workers,   \* runs of the job's stages
    Requests,  \* requests to the entity endpoints
    Entities,  \* ids, naturals: lists are in their order
    Mentions,  \* ids
    MaxRev,    \* bound on revisions
    Says,      \* the names in the transcript of each revision
    Declared,  \* the names of declared participants
    Links      \* what a revision says of dependencies: pairs of names

Actors == Workers \cup Requests
None   == 0
Names  == (UNION {Says[r] : r \in 1 .. MaxRev})
             \cup (UNION {{l[1], l[2]} : l \in UNION {Links[r] : r \in 1 .. MaxRev}})

VARIABLES
    rev,        \* source_revision of the meeting
    entity,     \* entities: the name, <<>> while there is none
    mention,    \* entity_mentions
    dependency, \* dependencies, by source and target: revision and mention
    actor       \* where each actor is, and its locals

vars == <<rev, entity, mention, dependency, actor>>

Idle  == [pc |-> "idle"]
Empty == [rev |-> 0, text |-> <<>>, status |-> "UNRESOLVED", entity |-> None]

Init ==
    /\ rev = 1
    /\ entity = [e \in Entities |-> <<>>]
    /\ mention = [m \in Mentions |-> Empty]
    /\ dependency = [p \in Entities \X Entities |-> [rev |-> 0, mention |-> None]]
    /\ actor = [a \in Actors |-> Idle]

At(a, pc)    == actor[a].pc = pc
Become(a, l) == actor' = [actor EXCEPT ![a] = l]
Stored(m)    == mention[m].rev > 0
Current      == {m \in Mentions : mention[m].rev = rev}

\* _guard_derived_revision, in the transaction of every derived write.
Guarded(r) == r = rev

\* list_entities, as the policy sees it; all of one type.
Registry == {[id |-> e, name |-> entity[e], aliases |-> {}] :
                e \in {x \in Entities : entity[x] # <<>>}}

\* find_by_canonical_name: the first of that name, or None.
Find(name) ==
    LET same == {e \in Entities : entity[e] = name}
    IN  IF same = {} THEN None ELSE Min(same)

-----------------------------------------------------------------------------
(* observe_meeting.                                                        *)

\* Participants and known entities, where the transcript names them.
Proposals == {n \in Says[rev] : n \in Declared \/ Find(n) # None}

\* The meeting, its mentions and the entities are read; a proposal without a
\* mention in this revision is to be observed.
Observe(w) ==
    /\ At(w, "idle")
    /\ Become(w, [pc |-> "observe", rev |-> rev,
                  todo |-> Proposals \ {mention[m].text : m \in Current}])
    /\ UNCHANGED <<rev, entity, mention, dependency>>

\* A mention is created, and then decided on.
CreateMention(w) ==
    /\ At(w, "observe")
    /\ \E t \in actor[w].todo, m \in Mentions :
          /\ ~ Stored(m) /\ Guarded(actor[w].rev)
          /\ mention' = [mention EXCEPT ![m] =
               [Empty EXCEPT !.rev = actor[w].rev, !.text = t]]
          /\ Become(w, [pc |-> "score", mention |-> m,
                        next |-> [actor[w] EXCEPT !.todo = @ \ {t}]])
    /\ UNCHANGED <<rev, entity, dependency>>

\* _current_mentions for resolve_meeting.
ListMentions(w) ==
    /\ At(w, "observe") /\ actor[w].todo = {}
    /\ Become(w, [pc |-> "resolve", todo |-> Current])
    /\ UNCHANGED <<rev, entity, mention, dependency>>

-----------------------------------------------------------------------------
(* ResolutionService.resolve, of the pipeline and of the endpoint.         *)

\* A resolved mention is left alone.
Fetch(a) ==
    /\ \/ At(a, "resolve") /\ \E m \in actor[a].todo :
             LET next == [actor[a] EXCEPT !.todo = @ \ {m}] IN
             Become(a, IF mention[m].status = "RESOLVED" THEN next
                       ELSE [pc |-> "score", mention |-> m, next |-> next])
       \/ At(a, "idle") /\ a \in Requests /\ \E m \in Mentions :
             /\ Stored(m) /\ mention[m].status # "RESOLVED"
             /\ Become(a, [pc |-> "score", mention |-> m, next |-> Idle])
    /\ UNCHANGED <<rev, entity, mention, dependency>>

\* get_scored_candidates, which reads the mention again and the entities, and
\* the decision of the policy.
Scored(a) ==
    LET m == actor[a].mention
        d == Decide(mention[m].text, Registry)
    IN  /\ At(a, "score")
        /\ Become(a, IF mention[m].status = "RESOLVED" \/ d.outcome = "UNRESOLVED"
                     THEN actor[a].next
                     ELSE [pc |-> "update", mention |-> m, next |-> actor[a].next,
                           status |-> d.outcome,
                           entity |-> IF d.outcome = "RESOLVED" THEN d.entity.id ELSE None])
        /\ UNCHANGED <<rev, entity, mention, dependency>>

\* Mutant: the row is found by its text.
UpdateByText(a) ==
    LET m == actor[a].mention
        same == {n \in Current : mention[n].text = mention[m].text}
    IN  /\ At(a, "update") /\ Guarded(mention[m].rev)
        /\ mention' = [n \in Mentions |->
              IF n \in same THEN [mention[n] EXCEPT !.status = actor[a].status,
                                                   !.entity = actor[a].entity]
              ELSE mention[n]]
        /\ Become(a, actor[a].next)
        /\ UNCHANGED <<rev, entity, dependency>>

\* The whole row is written, as it was read and with the decision.
Update(a) ==
    LET m == actor[a].mention IN
    /\ At(a, "update") /\ Guarded(mention[m].rev)
    /\ mention' = [mention EXCEPT ![m].status = actor[a].status,
                                  ![m].entity = actor[a].entity]
    /\ Become(a, actor[a].next)
    /\ UNCHANGED <<rev, entity, dependency>>

-----------------------------------------------------------------------------
(* resolve_mention_dependencies.                                           *)

\* _current_mentions for persist_relationships.
ListResolved(w) ==
    /\ At(w, "resolve") /\ actor[w].todo = {}
    /\ Become(w, [pc |-> "relate", next |-> Idle,
                  todo |-> {m \in Current : mention[m].entity # None}])
    /\ UNCHANGED <<rev, entity, mention, dependency>>

\* What the mention's text says its entity depends on, as far as it is known.
Stated(m) ==
    {t \in Entities : \E l \in Links[mention[m].rev] :
        /\ l[1] = entity[mention[m].entity]
        /\ t = Find(l[2]) /\ t # None /\ t # mention[m].entity}

\* The mention is read again, its entity and its targets looked up.
ReadStatements(a) ==
    /\ At(a, "relate")
    /\ \E m \in actor[a].todo :
          LET next == [actor[a] EXCEPT !.todo = @ \ {m}] IN
          Become(a, IF mention[m].entity = None \/ Stated(m) = {} THEN next
                    ELSE [pc |-> "save", mention |-> m, next |-> next,
                          source |-> mention[m].entity, todo |-> Stated(m)])
    /\ UNCHANGED <<rev, entity, mention, dependency>>

\* One dependency after the other; the id is that of source, target and meeting.
SaveDependency(a) ==
    LET m == actor[a].mention IN
    /\ At(a, "save") /\ Guarded(mention[m].rev)
    /\ \E t \in actor[a].todo :
          /\ dependency' = [dependency EXCEPT ![<<actor[a].source, t>>] =
                              [rev |-> mention[m].rev, mention |-> m]]
          /\ Become(a, IF actor[a].todo = {t} THEN actor[a].next
                       ELSE [actor[a] EXCEPT !.todo = @ \ {t}])
    /\ UNCHANGED <<rev, entity, mention>>

\* Both stages are done.
Finish(a) ==
    /\ At(a, "relate") /\ actor[a].todo = {}
    /\ Become(a, actor[a].next)
    /\ UNCHANGED <<rev, entity, mention, dependency>>

-----------------------------------------------------------------------------
(* The endpoints.                                                          *)

\* create_entity looks for the name ...
LookUpEntity(c) ==
    /\ At(c, "idle")
    /\ \E n \in Names : Find(n) = None /\ Become(c, [pc |-> "insert", name |-> n])
    /\ UNCHANGED <<rev, entity, mention, dependency>>

\* ... and adds it.
CreateEntity(c) ==
    /\ At(c, "insert")
    /\ \E e \in Entities :
          /\ entity[e] = <<>>
          /\ entity' = [entity EXCEPT ![e] = actor[c].name]
    /\ Become(c, Idle)
    /\ UNCHANGED <<rev, mention, dependency>>

\* register_mention looks for an entity of exactly that name ...
LookUpMention(c) ==
    /\ At(c, "idle")
    /\ \E t \in Says[1] : Become(c, [pc |-> "register", text |-> t, entity |-> Find(t)])
    /\ UNCHANGED <<rev, entity, mention, dependency>>

\* ... stores the mention, of revision 1 always, and its dependencies.
RegisterMention(c) ==
    /\ At(c, "register") /\ Guarded(1)
    /\ \E m \in Mentions :
          /\ ~ Stored(m)
          /\ mention' = [mention EXCEPT ![m] =
               [rev |-> 1, text |-> actor[c].text, entity |-> actor[c].entity,
                status |-> IF actor[c].entity = None THEN "UNRESOLVED" ELSE "RESOLVED"]]
          /\ Become(c, IF actor[c].entity = None THEN Idle
                       ELSE [pc |-> "relate", next |-> Idle, todo |-> {m}])
    /\ UNCHANGED <<rev, entity, dependency>>

\* The meeting is revised.
Revise ==
    /\ rev < MaxRev
    /\ rev' = rev + 1
    /\ UNCHANGED <<entity, mention, dependency, actor>>

\* An actor stops where it is.
Stop(a) ==
    /\ ~ At(a, "idle")
    /\ Become(a, Idle)
    /\ UNCHANGED <<rev, entity, mention, dependency>>

Decided(a) == Fetch(a) \/ Scored(a) \/ Update(a)
Related(a) == ReadStatements(a) \/ SaveDependency(a) \/ Finish(a)

Next ==
    \/ \E w \in Workers : Observe(w) \/ CreateMention(w) \/ ListMentions(w) \/ ListResolved(w)
    \/ \E c \in Requests : \/ LookUpEntity(c) \/ CreateEntity(c)
                           \/ LookUpMention(c) \/ RegisterMention(c)
    \/ \E a \in Actors : Decided(a) \/ Related(a) \/ Stop(a)
    \/ Revise

Spec == Init /\ [][Next]_vars

-----------------------------------------------------------------------------
\* Rows have their types, and an entity is assigned exactly to what is
\* resolved (INVARIANT 4 and 5 of the resolution service).
TypeOK ==
    /\ rev \in 1 .. MaxRev
    /\ \A e \in Entities : entity[e] = <<>> \/ entity[e] \in Names
    /\ \A m \in Mentions :
          /\ mention[m].rev \in 0 .. rev
          /\ mention[m].status \in {"UNRESOLVED", "AMBIGUOUS", "RESOLVED"}
          /\ mention[m].entity \in Entities \cup {None}
          /\ mention[m].status = "RESOLVED" <=> mention[m].entity # None
    /\ \A p \in DOMAIN dependency : dependency[p].rev \in 0 .. rev

\* Of every step.  "Derived and semantic writes are stamped with that revision so revision N
\* state can never masquerade as revision N+1": what a stale run, or an
\* endpoint, has to write after the revision never touches a row.
PastIsFrozen ==
    /\ \A m \in Mentions : Stored(m) /\ mention[m].rev < rev => mention'[m] = mention[m]
    /\ \A m \in Mentions : ~ Stored(m) => mention'[m].rev \in {0, rev}
    /\ \A p \in DOMAIN dependency : dependency'[p].rev >= dependency[p].rev

\* A dependency row is backed by its evidence: a mention of the same revision
\* that is resolved to the source, and whose text says so.
DependencyIsStated ==
    \A p \in DOMAIN dependency :
        LET d == dependency[p]   m == dependency[p].mention IN
        d.rev > 0 => /\ mention[m].rev = d.rev /\ mention[m].entity = p[1]
                     /\ <<entity[p[1]], entity[p[2]]>> \in Links[d.rev]

\* Of every step.  A run that is tried again after it stopped observes nothing twice: what it
\* adds has no twin in the revision.
ObservedOnce ==
    \A w \in Workers, m \in Mentions :
       At(w, "observe") /\ ~ Stored(m) /\ mention'[m].rev > 0
       => ~ \E n \in Current : mention[n].text = mention'[m].text

\* Of every step.  "RESOLVED must never become UNRESOLVED" nor AMBIGUOUS.
NeverDowngraded ==
    \A m \in Mentions : mention[m].status = "RESOLVED"
                        => mention'[m].status = "RESOLVED"

\* "This prevents accidental duplicates": one entity of each name.
NamesUnique ==
    \A e, f \in Entities : entity[e] # <<>> /\ entity[e] = entity[f] => e = f

=============================================================================
