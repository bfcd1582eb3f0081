-------------------------- MODULE ResolutionPolicy --------------------------
(***************************************************************************)
(* From the text of a mention and the registry to a decision: the lexical  *)
(* generator and scorer and the threshold policy of app/entity_resolution. *)
(*                                                                         *)
(* A text is a sequence of tokens, as _normalize leaves it.  Scores are    *)
(* counted in units of 1/300, exact for up to five tokens.  The code       *)
(* counts in floats: for these scores it finds every margin of exactly     *)
(* 0.1 to be 0.09999999999999998, below DEFAULT_AMBIGUITY_MARGIN.          *)
(***************************************************************************)
EXTENDS Naturals, Sequences, FiniteSets, FiniteSetsExt

CONSTANT Short   \* the tokens of fewer than MIN_TOKEN_LENGTH characters

One       == 300   \* the score 1.0
Threshold == 255   \* DEFAULT_RESOLUTION_THRESHOLD, 0.85
Margin    == 30    \* DEFAULT_AMBIGUITY_MARGIN, 0.10

Tokens(text) == {text[i] : i \in DOMAIN text} \ Short

\* An entity is its type, its name and its aliases.
Representations(e)  == {e.name} \cup e.aliases
EntityTokens(e)     == UNION {Tokens(r) : r \in Representations(e)}

\* Mutant: only the name is looked at.
CandidatesByName(text, entities) ==
    {e \in entities : Tokens(text) \cap Tokens(e.name) # {}}

\* LexicalCandidateGenerator: at least one token in common.
Candidates(text, entities) ==
    {e \in entities : Tokens(text) \cap EntityTokens(e) # {}}

\* _score_representation: 0.6 of the mention's tokens, 0.4 of the candidate's.
RepresentationScore(text, r) ==
    LET common == Cardinality(Tokens(text) \cap Tokens(r)) IN
    IF text = r THEN One
    ELSE IF Tokens(text) = {} \/ Tokens(r) = {} THEN 0
    ELSE (180 * common) \div Cardinality(Tokens(text))
         + (120 * common) \div Cardinality(Tokens(r))

\* LexicalCandidateScorer: the best representation counts.
Score(text, e) == Max({RepresentationScore(text, r) : r \in Representations(e)})

Unresolved  == [outcome |-> "UNRESOLVED"]
Ambiguous   == [outcome |-> "AMBIGUOUS"]
Resolved(e) == [outcome |-> "RESOLVED", entity |-> e]

\* ThresholdResolutionPolicy.decide over the scored candidates.  Two of the
\* same score are too close, so the order of equals does not matter.
Decide(text, entities) ==
    LET shortlist == Candidates(text, entities)
        best   == CHOOSE e \in shortlist : \A o \in shortlist :
                     Score(text, o) <= Score(text, e)
        second == Max({Score(text, o) : o \in shortlist \ {best}})
    IN  IF shortlist = {} \/ Score(text, best) < Threshold THEN Unresolved
        ELSE IF shortlist = {best} \/ Score(text, best) > second + Margin
             THEN Resolved(best)
        ELSE Ambiguous

=============================================================================
