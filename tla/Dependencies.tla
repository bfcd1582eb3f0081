---------------------------- MODULE Dependencies ----------------------------
(***************************************************************************)
(* Explicit dependency records, the edges and paths they make             *)
(* (app/models/dependency*.py, app/repositories/dependency_repository.py), *)
(* for the modules that read them.                                         *)
(***************************************************************************)
EXTENDS Naturals, FiniteSets, FiniteSetsExt, Sequences

Types == {"DEPENDS_ON", "BLOCKS"}

\* ExplicitDependency: source depends on target, or source blocks target, as one
\* meeting said in one of its revisions.
Records(entities, meetings, revisions) ==
    {d \in [source : entities, target : entities, type : Types,
            meeting : meetings, revision : revisions] : d.source # d.target}

\* filter_current_records: what the meeting says now.
Current(deps, revision) == {d \in deps : d.revision = revision[d.meeting]}

\* save: dependency_id is made of all but the revision.
Save(deps, d) == {e \in deps : [e EXCEPT !.revision = d.revision] # d} \cup {d}

Edge(d) == [source |-> d.source, target |-> d.target, type |-> d.type]

\* The meetings that state an edge; their number is its strength.
Meetings(deps, edge) == {d.meeting : d \in {c \in deps : Edge(c) = edge}}
Strength(deps, edge) == Cardinality(Meetings(deps, edge))

Outgoing(deps, e) == {Edge(d) : d \in {c \in deps : c.source = e}}
Incoming(deps, e) == {Edge(d) : d \in {c \in deps : c.target = e}}

\* The types of the edges from a to b.
HopTypes(deps, a, b) == {d.type : d \in {c \in deps : c.source = a /\ c.target = b}}

\* Reference definition: the paths of at most n hops from root that visit no
\* entity twice.
SimplePaths(deps, root, n) ==
    LET nodes == {d.target : d \in deps} \cup {root} IN
    {p \in UNION {[1 .. k + 1 -> nodes] : k \in 1 .. n} :
        /\ p[1] = root
        /\ \A i, j \in DOMAIN p : p[i] = p[j] => i = j
        /\ \A i \in 1 .. Len(p) - 1 : HopTypes(deps, p[i], p[i + 1]) # {}}

\* A path without its types has one chosen: BLOCKS sorts first.
HopType(deps, a, b) == IF "BLOCKS" \in HopTypes(deps, a, b) THEN "BLOCKS" ELSE "DEPENDS_ON"

=============================================================================
