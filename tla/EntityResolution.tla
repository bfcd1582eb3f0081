-------------------------- MODULE EntityResolution --------------------------
(***************************************************************************)
(* The decisions about one mention while the registry of entities grows:   *)
(* ResolutionPolicy over every small registry, one entity or alias after   *)
(* the other as create_entity of app/services/entity_service.py and        *)
(* add_alias of the repository add them.  No endpoint adds aliases yet.    *)
(***************************************************************************)
EXTENDS ResolutionPolicy

CONSTANTS
    Texts,        \* names, aliases and surface forms
    Types,        \* EntityType
    MaxEntities,  \* bound
    MaxAliases    \* bound, per entity

VARIABLES
    mention,   \* the text and the type of the mention
    registry   \* the entities

vars == <<mention, registry>>

Init ==
    /\ mention \in [text : Texts, type : Types]
    /\ registry = {}

\* find_by_canonical_name.
Found(text, type) ==
    {e \in registry : e.type = type /\ text \in Representations(e)}

\* create_entity returns the entity there is, or adds one.
CreateEntity ==
    /\ Cardinality(registry) < MaxEntities
    /\ \E text \in Texts, type \in Types :
          /\ Found(text, type) = {}
          /\ registry' = registry \cup {[type |-> type, name |-> text, aliases |-> {}]}
    /\ UNCHANGED mention

\* add_alias adds it whatever it is.
AddAlias ==
    /\ \E e \in registry, text \in Texts :
          /\ Cardinality(e.aliases) < MaxAliases
          /\ registry' = (registry \ {e}) \cup {[e EXCEPT !.aliases = @ \cup {text}]}
    /\ UNCHANGED mention

Next == CreateEntity \/ AddAlias
Spec == Init /\ [][Next]_vars

-----------------------------------------------------------------------------
\* list_entities(mention.entity_type).
SameType(entities, type) == {e \in entities : e.type = type}

\* get_scored_candidates and decide, for a mention that is not resolved.
Decision == Decide(mention.text, SameType(registry, mention.type))

TypeOK ==
    /\ mention \in [text : Texts, type : Types]
    /\ \A e \in registry : e.type \in Types /\ e.name \in Texts /\ e.aliases \subseteq Texts
    /\ \A e, f \in registry : e.type = f.type /\ e.name = f.name => e = f

\* The shortlist of the generator loses nothing the scorer would have decided
\* for: who reaches the threshold has a token in common, unless the mention
\* has no token that is long enough.
Recall ==
    Tokens(mention.text) # {}
    => \A e \in registry : Score(mention.text, e) >= Threshold
                           => e \in Candidates(mention.text, registry)

\* "the system abstains when uncertain": who is selected is of the type of the
\* mention, strong enough, and leads everyone else of that type by the margin.
SelectsClearWinner ==
    Decision.outcome = "RESOLVED"
    => LET e == Decision.entity IN
       /\ e.type = mention.type
       /\ Score(mention.text, e) >= Threshold
       /\ \A o \in registry \ {e} :
             o.type = mention.type => Score(mention.text, e) - Margin >= Score(mention.text, o)

\* Of every step.  A new entity or a new alias moves a decision from one entity to another only
\* towards the entity that is new or has the alias.
GrowthIsLocal ==
    LET d == Decision   n == Decision' IN
    d.outcome = "RESOLVED" /\ n.outcome = "RESOLVED" /\ n.entity # d.entity
    => n.entity \notin registry

\* A name the mention matches in full is never passed over for a partial match.
ExactMatchWins ==
    \A e \in SameType(registry, mention.type) :
        /\ mention.text \in Representations(e)
        /\ Decision.outcome = "RESOLVED"
        => mention.text \in Representations(Decision.entity)

=============================================================================
