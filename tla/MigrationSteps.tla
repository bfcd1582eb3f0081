--------------------------- MODULE MigrationSteps ---------------------------
(***************************************************************************)
(* The statements of _migrate (app/persistence/sqlite_store.py), version   *)
(* by version; what running them does is in Migration.  A table is its row *)
(* <<table, "">>, and indexes, all CREATE INDEX IF NOT EXISTS, are left    *)
(* out.                                                                    *)
(***************************************************************************)
EXTENDS Naturals, Sequences, SequencesExt

SCHEMA_VERSION == 6

Statement(kind, step, on) == [kind |-> kind, step |-> step, on |-> on]

Creates(step, tables) ==  \* CREATE TABLE IF NOT EXISTS
    [i \in DOMAIN tables |-> Statement("create", step, <<tables[i], "">>)]

\* ALTER TABLE ADD COLUMN unless PRAGMA table_info lists the column.
Ensures(step, tables, column) ==
    FlattenSeq([i \in DOMAIN tables |->
        <<Statement("look", step, <<tables[i], column>>),
          Statement("add", step, <<tables[i], column>>)>>])

Alter(step, table, column) == Statement("alter", step, <<table, column>>)
Insert(step) == Statement("version", step, <<"schema_version", "">>)
Commit(step) == Statement("commit", step, <<"schema_version", "">>)

AuthTables == <<"users", "organisations", "organisation_members",
                "auth_sessions", "auth_login_attempts", "security_events">>

BaseTables == <<"meetings", "extraction_results", "entities",
                "entity_mentions", "dependencies">>

Step1 == <<Commit(1)>> \o Creates(1, BaseTables) \o <<Insert(1)>>

Step2 == Creates(2, <<"background_jobs">>) \o <<Insert(2)>>

Step3 ==
    <<Alter(3, "meetings", "source_revision"),
      Alter(3, "background_jobs", "processing_revision"), Insert(3)>>

Step4 ==
    Ensures(4, <<"entity_mentions", "dependencies", "extraction_results">>,
            "source_revision")
    \o <<Insert(4)>>

Step5 ==
    Ensures(5, Append(BaseTables, "background_jobs"), "organisation_id")
    \o <<Statement("update", 5, <<"background_jobs", "">>), Commit(5)>>
    \o Creates(5, AuthTables)
    \o <<Insert(5)>>

Step6 == <<Alter(6, "background_jobs", "result_summary"), Insert(6)>>

Program == Step1 \o Step2 \o Step3 \o Step4 \o Step5 \o Step6

=============================================================================
