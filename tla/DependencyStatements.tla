----------------------- MODULE DependencyStatements -----------------------
(***************************************************************************)
(* How the sentences of a mention become dependencies: the patterns of     *)
(* app/dependency_extraction/keyword_extractor.py and the rules by which   *)
(* app/services/dependency_resolution_service.py keeps what they match.    *)
(*                                                                         *)
(* A text is a sequence of words in lower case with one space between two, *)
(* and "." for every character that a participant cannot contain; the      *)
(* regular expressions are given by what they match in it.  The entities   *)
(* do not change here, and every one has a resolved mention of the text.   *)
(***************************************************************************)
EXTENDS Naturals, Sequences, SequencesExt, FiniteSets, FiniteSetsExt

CONSTANTS
    Entities,   \* 1 .. n, in the order in which they are found
    Names(_),   \* an entity's canonical name and aliases: sequences of words
    IsEndings   \* the words that end in "is" or "being"

-----------------------------------------------------------------------------
(* The extractor.                                                          *)

Articles == {"the", "a", "an"}

\* Mutant: the passive as the active.
PatternUnswapped(words, type, passive) == [words |-> words, type |-> type, passive |-> FALSE]

\* The words between the participants, in either form; in the passive the first
\* participant is the target.
Pattern(words, type, passive) == [words |-> words, type |-> type, passive |-> passive]

Patterns ==
    {Pattern(w, "DEPENDS_ON", FALSE) : w \in
       {{<<"depends", "on">>, <<"depend", "on">>}, {<<"is", "dependent", "on">>},
        {<<"is", "waiting", "for">>}, {<<"cannot", "proceed", "until">>},
        {<<"cannot", "proceed", "without">>}, {<<"is", "blocked", "until">>},
        {<<"requires">>, <<"require">>}, {<<"needs">>, <<"need">>}}}
    \cup {Pattern(w, "BLOCKS", FALSE) : w \in
            {{<<"is", "blocking">>}, {<<"blocks">>}, {<<"blocked">>}}}
    \cup {Pattern(w, "BLOCKS", TRUE) : w \in
            {{<<"is", "blocked", "by">>}, {<<"is", "being", "blocked", "by">>}}}

Length(pattern) == Len(CHOOSE w \in pattern.words : TRUE)

\* The pieces of the text that a participant cannot reach across.
Segments(text) ==
    LET stops == {0, Len(text) + 1} \cup {i \in DOMAIN text : text[i] = "."}
    IN {SubSeq(text, i + 1, Min({j \in stops : j > i}) - 1) :
          i \in stops \ {Len(text) + 1}}

\* "blocked" has two lookarounds against the passive.
Allowed(pattern, seg, i) ==
    pattern.words = {<<"blocked">>} =>
        seg[i - 1] \notin IsEndings /\ seg[i + 1] # "by"

\* Where the words of the pattern occur with a word before and one after.
Occurrences(pattern, seg) ==
    {i \in 2 .. Len(seg) - Length(pattern) :
       /\ SubSeq(seg, i, i + Length(pattern) - 1) \in pattern.words
       /\ Allowed(pattern, seg, i)}

StripArticle(words) ==
    IF Len(words) > 1 /\ words[1] \in Articles THEN Tail(words) ELSE words

\* Where a verbal continuation begins: "to", "in order", "so that", "before",
\* and a word more.
Clauses(words) ==
    {i \in 2 .. Len(words) - 1 :
       \/ words[i] \in {"to", "before"}
       \/ /\ i + 1 < Len(words)
          /\ SubSeq(words, i, i + 1) \in {<<"in", "order">>, <<"so", "that">>}}

StripClause(words) ==
    IF Clauses(words) = {} THEN words ELSE SubSeq(words, 1, Min(Clauses(words)) - 1)

Normalized(words) == StripClause(StripArticle(words))

\* The first participant is everything from the start of the piece to the
\* first occurrence, the second one the rest of the piece.
StatementOf(pattern, seg) ==
    LET i     == Min(Occurrences(pattern, seg))
        left  == Normalized(SubSeq(seg, 1, i - 1))
        right == Normalized(SubSeq(seg, i + Length(pattern), Len(seg)))
    IN [source |-> IF pattern.passive THEN right ELSE left,
        target |-> IF pattern.passive THEN left ELSE right,
        type   |-> pattern.type]

\* extract_relationship_statements, without the repetitions.
Statements(text) ==
    {s \in UNION {{StatementOf(p, seg) : p \in {q \in Patterns : Occurrences(q, seg) # {}}} :
                    seg \in Segments(text)} :
       s.source # s.target}

-----------------------------------------------------------------------------
(* The resolution.                                                         *)

Called(words) == {e \in Entities : words \in Names(e)}

SourceMatches(statement, e) == statement.source \in Names(e)

\* The dependencies that the mention of an entity adds.
Resolved(text, e) ==
    {[source |-> e, target |-> Min(Called(s.target)), type |-> s.type] :
       s \in {t \in Statements(text) :
                /\ SourceMatches(t, e)
                /\ Called(t.target) # {} /\ Min(Called(t.target)) # e}}

-----------------------------------------------------------------------------
(* A meeting whose mentions quote one text.  The text is given as what it  *)
(* says: clauses of subject, verb, object and the words after it, joined.  *)

CONSTANTS
    Verbs,  \* [words, says: "DEPENDS_ON", "BLOCKS", "BLOCKED_BY" or "NOTHING"]
    Tails,  \* the words that may follow an object
    Joints, \* the words between two clauses
    Later   \* the verbs of a second clause

VARIABLES
    said,   \* the clauses
    joint,  \* the words between them
    next,   \* the entity whose mention is resolved next
    found   \* the dependencies

vars == <<said, joint, next, found>>

First  == [subject : Entities, object : Entities, verb : Verbs, tail : Tails, the : BOOLEAN]
Second == [subject : Entities, object : Entities, verb : Later, tail : {<<>>}, the : {FALSE}]

\* A subject by one of its names, an object by another one if there is one.
Name(e)  == CHOOSE n \in Names(e) : TRUE
Alias(e) == IF Names(e) = {Name(e)} THEN Name(e)
                                    ELSE CHOOSE n \in Names(e) : n # Name(e)

Words(c) == (IF c.the THEN <<"the">> ELSE <<>>) \o Name(c.subject) \o c.verb.words
            \o (IF c.the THEN <<"the">> ELSE <<>>) \o Alias(c.object) \o c.tail

Text == IF Len(said) = 1 THEN Words(said[1])
                         ELSE Words(said[1]) \o joint \o Words(said[2])

Init ==
    /\ \/ said \in {<<c>> : c \in First} /\ joint = <<>>
       \/ said \in {<<c, d>> : c \in First, d \in Second} /\ joint \in Joints
    /\ next = 1
    /\ found = {}

\* resolve_mention_dependencies, over the mentions of the meeting.
Resolve ==
    /\ next \in Entities
    /\ found' = found \cup Resolved(Text, next)
    /\ next' = next + 1
    /\ UNCHANGED <<said, joint>>

Next == Resolve

Spec == Init /\ [][Next]_vars

-----------------------------------------------------------------------------
(* Properties.                                                             *)

\* What a clause says of two entities.
Says(c) ==
    IF c.subject = c.object \/ c.verb.says = "NOTHING" THEN {}
    ELSE IF c.verb.says = "BLOCKED_BY"
           THEN {[source |-> c.object, target |-> c.subject, type |-> "BLOCKS"]}
           ELSE {[source |-> c.subject, target |-> c.object, type |-> c.verb.says]}

TypeOK ==
    /\ next \in 1 .. Cardinality(Entities) + 1
    /\ \A d \in found : d.source \in Entities /\ d.target \in Entities \ {d.source}

\* "omit rather than fabricate": every dependency is what some clause says, in
\* its direction; the match of a pattern across two clauses, a negated or past
\* passive verb, and a mention of another entity add none.
NothingFabricated == found \subseteq UNION {Says(said[i]) : i \in DOMAIN said}

\* A clause that stands alone in its sentence is found when the mentions have
\* been resolved, with its articles and with the clause that follows it.
StatementFound ==
    next \notin Entities =>
       \A i \in DOMAIN said :
          Len(said) = 1 \/ joint = <<".">> => Says(said[i]) \subseteq found
=============================================================================
