------------------------------- MODULE Impact -------------------------------
(***************************************************************************)
(* ImpactAnalysisService over EntityRelationshipService: which entities    *)
(* put one entity at risk, how much, and along which chain of explicit     *)
(* records.  The service reads the state of the entities twice, for the    *)
(* direct relationships and then for the chains; a source may be processed *)
(* in between.                                                             *)
(***************************************************************************)
EXTENDS Dependencies

CONSTANTS
    Entities,    \* ids, naturals
    Asked,       \* those asked about
    Loads,       \* the sets of dependency records (all current)
    Shared,      \* how many meetings may mention two entities
    Conditions,  \* what the other services may say of an entity
    MaxDepth,    \* of the chains
    MaxChanges   \* bound on what happens meanwhile

VARIABLES
    deps, shared,  \* current records; meetings that mention an entity and the one asked about
    condition,     \* of each entity: [blocked, attention, insights]
    entity,        \* the one asked about
    pc, base, impacts, changes

vars == <<deps, shared, condition, entity, pc, base, impacts, changes>>

Init ==
    /\ deps \in Loads
    /\ entity \in Asked
    /\ shared \in [Entities \ {entity} -> Shared]
    /\ condition \in [Entities \ {entity} -> Conditions]
    /\ pc = "ask" /\ base = <<>> /\ impacts = <<>> /\ changes = 0

Others   == Entities \ {entity}
Levels   == <<"LOW", "MEDIUM", "HIGH", "CRITICAL">>
Rank(l)  == CHOOSE i \in DOMAIN Levels : Levels[i] = l
None     == 0

-----------------------------------------------------------------------------
(* EntityRelationshipService.                                              *)

Edges(s) == {g \in Outgoing(deps, entity) \cup Incoming(deps, entity) : s \in {g.source, g.target}}

\* CO_OCCURS_WITH, or a record in either direction.
Related == {s \in Others : shared[s] > 0 \/ Edges(s) # {}}

\* The strongest of the relationships with s.
RelationStrength(s) == Max({shared[s]} \cup {Strength(deps, g) : g \in Edges(s)})

DependsOn(a, b) == "DEPENDS_ON" \in HopTypes(deps, a, b) \/ "BLOCKS" \in HopTypes(deps, b, a)

-----------------------------------------------------------------------------
(* get_entity_impacts                                                      *)

Signals(s) ==
    LET c == condition[s] IN
    (IF c.blocked THEN {"BLOCKED_ENTITY"} ELSE {})
      \cup (IF c.blocked /\ DependsOn(entity, s) THEN {"EXPLICIT_DEPENDENCY"} ELSE {})
      \cup (IF c.attention = "NONE" THEN {} ELSE {c.attention})
      \cup c.insights

Level(signals, strong) ==
    LET has(signal) == signal \in signals IN
    IF has("EXPLICIT_DEPENDENCY") THEN "HIGH"
    ELSE IF has("CRITICAL_ATTENTION") /\ strong THEN "CRITICAL"
    ELSE IF has("BLOCKED_ENTITY") \/ has("CRITICAL_ATTENTION") \/ (has("HIGH_ATTENTION") /\ strong)
         THEN "HIGH"
    ELSE IF has("REOPEN_ATTEMPT") \/ has("HIGH_ATTENTION") THEN "MEDIUM"
    ELSE "LOW"

\* EntityImpact; a direct dependency on what is BLOCKED gets its depth in the merge.
DirectImpact(s) ==
    LET explicit == "EXPLICIT_DEPENDENCY" \in Signals(s) IN
    [level    |-> Level(Signals(s), RelationStrength(s) >= 2),
     signals  |-> Signals(s),
     strength |-> RelationStrength(s),
     depth    |-> IF explicit THEN 1 ELSE None,
     path     |-> IF explicit THEN <<entity, s>> ELSE <<>>]

Ask ==
    /\ pc = "ask"
    /\ base' = [s \in {r \in Related : Signals(r) # {}} |-> DirectImpact(s)]
    /\ pc' = "propagate"
    /\ UNCHANGED <<deps, shared, condition, entity, impacts, changes>>

-----------------------------------------------------------------------------
(* get_entity_impacts_multi_hop                                            *)

Transitive == {p \in SimplePaths(deps, entity, MaxDepth) : Len(p) > 2}

Before(p, q) ==
    \/ Len(p) < Len(q)
    \/ Len(p) = Len(q) /\ \E i \in DOMAIN p : p[i] < q[i] /\ \A j \in 1 .. i - 1 : p[j] = q[j]

\* The paths are sorted by depth, and the first one is kept.
ShortestTo(s) ==
    LET to == {p \in Transitive : p[Len(p)] = s} IN CHOOSE p \in to : \A q \in to \ {p} : Before(p, q)

HopStrength(a, b) == Strength(deps, [source |-> a, target |-> b, type |-> HopType(deps, a, b)])

TransitiveImpact(s) ==
    LET p == ShortestTo(s) IN
    [level    |-> IF Len(p) = 3 THEN "MEDIUM" ELSE "LOW",
     signals  |-> {"BLOCKED_ENTITY", "TRANSITIVE_DEPENDENCY"},
     strength |-> Min({HopStrength(p[i], p[i + 1]) : i \in 1 .. Len(p) - 1}),
     depth    |-> Len(p) - 1,
     path     |-> p]

Chained == {s \in Others : condition[s].blocked /\ \E p \in Transitive : p[Len(p)] = s}

\* Mutant: the chain always wins.
MergeChain(old, new) == new

\* The stronger one; the direct one is told that there is a chain too.
Merge(old, new) ==
    IF Rank(new.level) > Rank(old.level) THEN new
    ELSE [old EXCEPT !.signals = @ \cup {"TRANSITIVE_DEPENDENCY"},
                     !.depth = IF @ = None THEN new.depth ELSE @,
                     !.path = IF old.depth = None THEN new.path ELSE @]

\* What is reported of s, which has an impact of either kind.
Merged(s) ==
    IF s \notin Chained THEN base[s]
    ELSE IF s \notin DOMAIN base THEN TransitiveImpact(s)
    ELSE Merge(base[s], TransitiveImpact(s))

Propagate ==
    /\ pc = "propagate"
    /\ impacts' = [s \in DOMAIN base \cup Chained |-> Merged(s)]
    /\ pc' = "done"
    /\ UNCHANGED <<deps, shared, condition, entity, base, changes>>

\* A meeting that is processed meanwhile changes the state of an entity.
Change ==
    /\ pc = "propagate" /\ changes < MaxChanges
    /\ \E s \in Others, c \in Conditions : condition' = [condition EXCEPT ![s] = c]
    /\ changes' = changes + 1
    /\ UNCHANGED <<deps, shared, entity, pc, base, impacts>>

Next == Ask \/ Propagate \/ Change

Spec == Init /\ [][Next]_vars

-----------------------------------------------------------------------------
\* What is reported of an entity has a signal, and a depth exactly with a path.
TypeOK ==
    \A s \in DOMAIN impacts :
        LET i == impacts[s] IN
        /\ s \in Others /\ i.signals # {} /\ i.strength > 0
        /\ (i.depth = None) <=> (i.path = <<>>)
        /\ i.path # <<>> => i.path[1] = entity /\ i.path[Len(i.path)] = s /\ Len(i.path) = i.depth + 1

\* Whoever a walk of at most n records leads to.
Within(n) ==
    {s \in Entities : \E k \in 0 .. n : \E walk \in [1 .. k + 1 -> Entities] :
        /\ walk[1] = entity /\ walk[k + 1] = s
        /\ \A i \in 1 .. k : \E d \in deps : d.source = walk[i] /\ d.target = walk[i + 1]}

\* A BLOCKED entity that the entity is related to, or reaches over max_depth
\* records, is reported, and nobody else is called BLOCKED; a direct one is
\* never less than HIGH, whatever other signals it has.
BlockedReported ==
    LET linked == {s \in Others : shared[s] > 0
                                     \/ \E d \in deps : {d.source, d.target} = {entity, s}} IN
    pc = "done" /\ changes = 0 =>
        /\ \A s \in Others : condition[s].blocked /\ s \in linked \cup Within(MaxDepth)
                                <=> s \in DOMAIN impacts /\ "BLOCKED_ENTITY" \in impacts[s].signals
        /\ \A s \in linked : condition[s].blocked => Rank(impacts[s].level) >= Rank("HIGH")

\* The chains never take away a direct impact or lower it, whatever has changed
\* between the two reads.
LevelsKept ==
    pc = "done" => \A s \in DOMAIN base :
                       s \in DOMAIN impacts /\ Rank(impacts[s].level) >= Rank(base[s].level)

\* A chain that is reported is a shortest one of several records.
ShortestChain ==
    \A s \in DOMAIN impacts :
        impacts[s].depth > 1 =>
            \A k \in 2 .. impacts[s].depth - 1 :
                ~ \E p \in SimplePaths(deps, entity, k) : Len(p) = k + 1 /\ p[k + 1] = s

=============================================================================
