------------------------------ MODULE QueryData ------------------------------
(***************************************************************************)
(* What the checked instance of Query is given: one meeting refreshed      *)
(* once, mentions of both revisions, two entities that share an alias, and *)
(* eight questions.                                                         *)
(***************************************************************************)
EXTENDS Integers, Sequences, FiniteSets

Nothing == "none"

Signal(src, what, entity, meeting, key, level, at, topic, text, says) ==
    [src |-> src, what |-> what, entity |-> entity, meeting |-> meeting, key |-> key,
     level |-> level, at |-> at, topic |-> topic, text |-> text, says |-> says]

Mention(revision, entity) == [meeting |-> "m1", revision |-> revision, entity |-> entity]

\* In the first revision e1 is blocked, in the second it is open.
Blocked == Mention(1, "e1")
Opened == Mention(2, "e1")
AllMentions == {Blocked, Opened}

\* What a mention adds to the read models.  A memory fact is identified by type and meeting,
\* so that of the second revision replaces that of the first.
SignalsOf(k) ==
    IF k = Blocked
    THEN <<Signal("timeline", "STATE_TRANSITION", "e1", "m1", "t1", "BLOCKED", 2, "blocked", TRUE, 1),
           Signal("memory", "STATE_TRANSITION", "e1", "m1", "", "", 2, "blocked", FALSE, 1),
           Signal("insight", "NEW", "e1", "m1", "i1", "HIGH", 2, "blocked", TRUE, 1),
           Signal("action", "ESCALATE", "e1", "m1", "a1", "HIGH", 2, "open", FALSE, 1),
           Signal("change", "DETECTED", "e1", "m1", "c1", "HIGH", 2, "blocked", TRUE, 1)>>
    ELSE <<Signal("timeline", "STATE_TRANSITION", "e1", "m1", "t2", "OPEN", 2, "open", TRUE, 2),
           Signal("memory", "STATE_TRANSITION", "e1", "m1", "", "", 2, "open", FALSE, 2)>>

StandingSignals ==
    <<Signal("attention", "", "e1", Nothing, "at1", "HIGH", 3, "urgent", FALSE, 0),
      Signal("attention", "", "e2", Nothing, "at2", "NONE", 3, "urgent", FALSE, 0),
      Signal("memory", "CURRENT_STATE", "e1", Nothing, "", "", 0, "blocked", FALSE, 0),
      Signal("portfolio", "", Nothing, Nothing, "summary", "HIGH", 3, "urgent", FALSE, 0),
      Signal("portfolio", "", "e1", Nothing, "entity", "MEDIUM", 3, "urgent", FALSE, 0)>>

\* In the order of the read models: what stands first, the first revision before the second.
SaidBy(k, observed) == IF k \in observed THEN SignalsOf(k) ELSE <<>>
ReportOf ==
    [observed \in SUBSET AllMentions |->
        StandingSignals \o SaidBy(Blocked, observed) \o SaidBy(Opened, observed)]
Reported(observed) == ReportOf[observed]

Elements(s) == {s[i] : i \in DOMAIN s}

\* The order of the hashes, as that of the types and keys below.
Order == <<"OBSERVATION", "STATE_TRANSITION", "ORGANISATION_CHANGE", "INSIGHT", "ACTION",
           "ATTENTION", "MEMORY_FACT", "STATE", "ENTITY", "IMPACT", "DEPENDENCY_PATH",
           "RELATIONSHIP">>
KeyOrder == <<"t1", "t2", "c1", "i1", "a1", "at1", "at2", "STATE_TRANSITION", "CURRENT_STATE", "summary",
              "entity", "DETECTED", "NEW", "ESCALATE", "">>
AllKeys == Elements(KeyOrder)

\* A run writes all it found, or is stopped after the transitions.
EvidenceIds == Elements(Order) \X {"none", "e1", "e2"} \X {"none", "m1"} \X AllKeys
Stopped == {id \in EvidenceIds : id[1] = "STATE_TRANSITION"}
WrittenParts == {EvidenceIds, Stopped}

Place(s) == [x \in Elements(s) |-> CHOOSE i \in DOMAIN s : s[i] = x]
TypePlace == Place(Order)
KeyPlace == Place(KeyOrder)
EntityPlace == Place(<<"none", "e2", "e1">>)
MeetingPlace == Place(<<"none", "m1">>)
HashOf(id) == 100 * TypePlace[id[1]] + 6 * KeyPlace[id[4]] + 2 * EntityPlace[id[2]] + MeetingPlace[id[3]]

NamesOf == [e \in {"e1", "e2"} |-> IF e = "e1" THEN {"apollo", "payments"} ELSE {"billing", "payments"}]

Question(matches, names, tokens, similar, shared) ==
    [matches |-> matches, names |-> names, tokens |-> tokens, similar |-> similar,
     shares |-> [t \in {"blocked", "open", "urgent", "entity"} |-> IF t \in shared THEN 2 ELSE 1]]

Status == Question({"ENTITY_STATUS"}, {"apollo"}, 2, <<"open", "blocked">>, {})
Both == Question({"ENTITY_RISKS", "ORGANISATION_RISKS"}, {"payments"}, 2, <<"blocked">>, {})
Changed == Question({"ORGANISATION_RISKS"}, {}, 3, <<"open", "blocked">>, {})
Vague == Question({}, {"apollo"}, 3, <<"blocked", "open">>, {"blocked"})
Short == Question({}, {}, 0, <<"blocked">>, {})

Ask(question, entity, max, text) ==
    [question |-> question, entity |-> entity, max |-> max, text |-> text]

Questions ==
    {Ask(Status, Nothing, 3, TRUE), Ask(Both, Nothing, 2, TRUE), Ask(Both, "e2", 2, TRUE),
     Ask(Status, "gone", 2, TRUE), Ask(Changed, Nothing, 3, TRUE), Ask(Vague, Nothing, 2, TRUE),
     Ask(Short, Nothing, 1, TRUE), Ask(Changed, "e1", 3, FALSE)}

=============================================================================
