-------------------------- MODULE DependencyGraph --------------------------
(***************************************************************************)
(* DependencyGraphService: a depth-first search over the edges of the      *)
(* dependency repository, which it reads again at every node it expands.   *)
(* Another thread may process a meeting meanwhile.                         *)
(***************************************************************************)
EXTENDS Dependencies, Functions

CONSTANTS
    Entities,  \* ids, naturals: edges are sorted by them
    Known,     \* those the entity repository has
    MeetingIds,
    Roots,     \* the ids asked about
    Loads,     \* the sets of records there may be at first
    MaxDepth,  \* the max_depth that is asked for, 1 .. 10
    MaxWrites  \* bound on what the other thread does

VARIABLES
    deps,      \* the repository
    revision,  \* of each meeting, the current one
    root,      \* the entity asked about
    status,    \* "idle", "search", "done" or "not_found"
    stack,     \* entity path and relationship path of what is left to visit
    paths,     \* the paths recorded
    cycles,    \* cycle_entity_ids
    writes,
    steady,    \* history: the records that have been current since the search began
    ever       \* history: the records that have been current at some time since

search  == <<root, status, stack, paths, cycles>>
store   == <<deps, revision, writes>>
history == <<steady, ever>>
vars    == <<search, store, history>>

Init ==
    /\ deps \in Loads
    /\ revision = [m \in MeetingIds |-> 1]
    /\ root \in Roots
    /\ status = "idle"
    /\ stack = <<>> /\ paths = {} /\ cycles = {}
    /\ writes = 0
    /\ steady = {} /\ ever = {}

Now == Current(deps, revision)

-----------------------------------------------------------------------------
\* The order of the sort key source:target:type, of edges with one source.
Precedes(a, b) ==
    \/ a.target < b.target
    \/ a.target = b.target /\ a.type = "BLOCKS" /\ b.type # "BLOCKS"

\* The n-th edge is the one that n - 1 others precede.
Sorted(edges) ==
    [n \in 1 .. Cardinality(edges) |->
        CHOOSE g \in edges : Cardinality({h \in edges : Precedes(h, g)}) = n - 1]

\* Mutant: records of a revision that was replaced count.
OutgoingEdgesOfAll(e) == Outgoing(deps, e)

\* _get_outgoing_edges
OutgoingEdges(e) == Outgoing(Now, e)

Begin ==
    /\ status = "idle"
    /\ IF root \in Known
       THEN status' = "search" /\ stack' = <<[entities |-> <<root>>, types |-> <<>>]>>
       ELSE status' = "not_found" /\ UNCHANGED stack
    /\ steady' = Now /\ ever' = Now
    /\ UNCHANGED <<store, root, paths, cycles>>

\* An edge to an unknown entity is skipped, one to an entity of the path closes a cycle.
Descends(entry, e) == e \in Known /\ e \notin Range(entry.entities)

\* Any path but the root's, once: a second entry with the same entities is dropped.
Record(entry) ==
    IF Len(entry.entities) = 1 \/ \E p \in paths : p.entities = entry.entities
    THEN paths ELSE paths \cup {entry}

\* An edge back into the path is not followed, and noted.
Closes(entry, out) == {g.target : g \in out} \cap Range(entry.entities)

Extended(entry, g) ==
    [entities |-> Append(entry.entities, g.target), types |-> Append(entry.types, g.type)]

\* One iteration of _traverse: pop, record, push in reverse order.
Visit ==
    LET entry == stack[Len(stack)]
        here  == entry.entities[Len(entry.entities)]
        out   == IF Len(entry.types) < MaxDepth THEN OutgoingEdges(here) ELSE {}
        push  == Sorted({g \in out : Descends(entry, g.target)})
    IN
    /\ status = "search" /\ stack # <<>>
    /\ paths' = Record(entry)
    /\ stack' = SubSeq(stack, 1, Len(stack) - 1) \o
                [i \in 1 .. Len(push) |-> Extended(entry, push[Len(push) + 1 - i])]
    /\ cycles' = cycles \cup Closes(entry, out)
    /\ UNCHANGED <<store, history, root, status>>

Finish ==
    /\ status = "search" /\ stack = <<>>
    /\ status' = "done"
    /\ UNCHANGED <<store, history, root, stack, paths, cycles>>

-----------------------------------------------------------------------------
\* The other thread: a source is revised, and what it says is resolved again.
\* Before the search, that only makes another initial state.
Revise(m) ==
    /\ status = "search" /\ writes < MaxWrites /\ revision[m] = 1
    /\ revision' = [revision EXCEPT ![m] = 2]
    /\ writes' = writes + 1
    /\ steady' = {d \in steady : d.meeting # m}
    /\ UNCHANGED <<search, deps, ever>>

Resolve(d) ==
    /\ status = "search" /\ writes < MaxWrites
    /\ d.revision = revision[d.meeting] /\ d \notin deps
    /\ deps' = Save(deps, d)
    /\ writes' = writes + 1
    /\ ever' = ever \cup {d}
    /\ UNCHANGED <<search, revision, steady>>

Next ==
    \/ Begin \/ Visit \/ Finish
    \/ \E m \in MeetingIds : Revise(m)
    \/ \E d \in Records(Entities, MeetingIds, {1, 2}) : Resolve(d)

Spec == Init /\ [][Next]_vars

-----------------------------------------------------------------------------
\* Paths start at the root, visit no entity twice, and are not longer than asked.
TypeOK ==
    /\ status \in {"idle", "search", "done", "not_found"}
    /\ cycles \subseteq Known
    /\ \A p \in paths \cup Range(stack) :
          /\ p.entities[1] = root /\ Range(p.entities) \subseteq Known
          /\ Len(p.types) = Len(p.entities) - 1 /\ Len(p.types) <= MaxDepth
          /\ IsInjective(p.entities)

Reachable == {d \in Now : d.target \in Known}

\* Undisturbed, the search finds every simple path of at most max_depth hops,
\* each once with the relationship types that sort first ("Multiple paths to the
\* same entity are NOT collapsed", "If two branches produce the same exact
\* entity_path, only one is kept").
AllPathsOnce ==
    status = "done" /\ writes = 0 =>
        paths = {[entities |-> p, types |-> [i \in 1 .. Len(p) - 1 |-> HopType(Now, p[i], p[i + 1])]] :
                 p \in SimplePaths(Reachable, root, MaxDepth)}

\* Undisturbed, an entity is said to close a cycle exactly when it is the start
\* of a cycle on some branch the depth allows.
CyclesExact ==
    status = "done" /\ writes = 0 =>
        cycles = {e \in Entities :
                    \E p \in SimplePaths(Reachable, root, MaxDepth - 1) \cup {<<root>>} :
                        e \in Range(p) /\ HopTypes(Reachable, p[Len(p)], e) # {}}

\* Whatever is written while it runs: a path whose records were current all the
\* time is found, and every hop of a path that is returned was current at some time.
SteadyPathsFound ==
    LET seen(records) == {d \in records : d.target \in Known} IN
    status = "done" =>
        /\ SimplePaths(seen(steady), root, MaxDepth) \subseteq {p.entities : p \in paths}
        /\ {p.entities : p \in paths} \subseteq SimplePaths(seen(ever), root, MaxDepth)

=============================================================================
