------------------------------ MODULE Records -------------------------------
(***************************************************************************)
(* The records the REST interface lists, creates, changes and deletes, what *)
(* the program itself writes of the audited ones, and the audit trail.      *)
(*                                                                          *)
(* Source: src/backend/app/repositories/ (one class per table, all of one   *)
(* shape), src/backend/app/api/ and src/backend/app/services/ (the routes   *)
(* that call them), src/backend/app/audit/recorder.py and the foreign keys  *)
(* in src/backend/migrations/versions/.                                     *)
(*                                                                          *)
(* What differs between the tables is a descriptor of each (the columns an  *)
(* UPDATE may set, the columns only the INSERT stores, the rows it refers   *)
(* to, whether its writes are audited and whether its rows belong to a      *)
(* user); what they share are the actions.  Every write is one transaction  *)
(* and the answer is read in another one, so writes of other requests come  *)
(* between.  A transaction that fails leaves no trace and is not an action. *)
(* Discovery, scans, reconcilers and the routes that decide over a flag or  *)
(* a suggestion write rows of audited tables as well, but no audit row: of  *)
(* a transaction of theirs each row it writes is a step here.               *)
(* Listings and plain reads change nothing.  The rows of the audit trail    *)
(* are append-only here: the table audit_logs also has the generic routes   *)
(* of every table, through which an administrator may edit it.              *)
(***************************************************************************)
EXTENDS Naturals, Sequences, FiniteSets

CONSTANTS
    RowIds,      \* row identifiers (uuid4: never used twice)
    Users,       \* users who own rows of an owned table
    PutColumns,  \* columns that the requests of the instance try to change
    MaxWrites,   \* bound: writes per behaviour, of requests and of the program
    None         \* no row, no owner, no answer

ASSUME RecordsConstantsOK ==
    /\ MaxWrites \in Nat
    /\ IsFiniteSet(RowIds) /\ Users # {}
    /\ None \notin RowIds \cup Users

-----------------------------------------------------------------------------
(* The tables *)

NoRefs == [column \in {} |-> ""]

Table(stored, refs, createOnly) ==
    [ stored |-> stored, createOnly |-> createOnly, refs |-> refs,
      onDelete |-> "set null", audited |-> FALSE, owned |-> FALSE ]

Audited(table) == [table EXCEPT !.audited = TRUE]
Owned(table) == [table EXCEPT !.owned = TRUE]
Cascading(table) == [table EXCEPT !.onDelete = "cascade"]

AuditLogs ==
    Table({"name", "actor", "entity_type", "entity_id", "detail", "action"}, NoRefs, {})
ConnectionTests ==
    Table({"name", "status", "message", "source_id", "latency_ms", "tested_at"},
          [source_id |-> "sources"], {})
DashboardItemFields ==
    Table({"name", "dashboard_item_id", "discovered_field_id", "field_role"},
          [dashboard_item_id |-> "dashboard_items",
          discovered_field_id |-> "discovered_fields"], {})
DashboardItemLayouts ==
    Owned(Table({"name", "dashboard_item_id", "grid_col_span", "grid_col_start",
                "grid_row_span"}, NoRefs, {}))
DashboardItems ==
    Table({"name", "dashboard_id", "source_suggestion_id", "title", "item_type",
          "aggregation", "position"}, [dashboard_id |-> "dashboards",
          source_suggestion_id |-> "suggestions"], {"grid_col_span", "grid_col_start",
          "grid_row_span"})
Dashboards == Table({"name", "description"}, NoRefs, {"grid_columns"})
Datasets ==
    Audited(Table({"name", "object_type", "source_id", "first_seen_run_id",
                  "last_seen_run_id"}, [source_id |-> "sources",
                  first_seen_run_id |-> "discovery_runs",
                  last_seen_run_id |-> "discovery_runs"], {}))
DeletionRequests ==
    Table({"name", "subject_key", "subject_key_hash", "status", "reason",
          "error_detail", "attempts", "records_deleted", "profiles_cleared",
          "verified_by", "verified_at", "completed_at", "dataset_id"},
          [dataset_id |-> "datasets"], {})
DeltaCursors ==
    Table({"name", "pipeline_id", "cursor_field_id", "last_run_id", "cursor_kind",
          "cursor_value"}, [pipeline_id |-> "pipelines",
          cursor_field_id |-> "discovered_fields", last_run_id |-> "runs"], {})
DiscoveredFields ==
    Table({"name", "data_type", "dataset_id", "is_nullable", "is_key", "field_position",
          "first_seen_run_id", "last_seen_run_id"}, [dataset_id |-> "datasets",
          first_seen_run_id |-> "discovery_runs",
          last_seen_run_id |-> "discovery_runs"], {})
DiscoveryRuns ==
    Table({"name", "status", "trigger", "source_id"}, [source_id |-> "sources"], {})
FeedCredentials ==
    Table({"name", "principal", "key_hash", "key_prefix", "revoked"}, NoRefs, {})
FieldProfiles ==
    Table({"name", "discovered_field_id", "row_count", "null_count", "distinct_count",
          "min_value", "max_value", "most_common_value"},
          [discovered_field_id |-> "discovered_fields"], {})
IngestedRecords ==
    Table({"name", "run_id", "dataset_id", "business_key", "op", "ingested_at"},
          [run_id |-> "runs", dataset_id |-> "datasets"], {})
LoadSequences ==
    Table({"name", "description", "schedule_cadence", "schedule_enabled",
          "last_fired_at"}, NoRefs, {})
OdataServiceConfigs ==
    Table({"name", "metadata_path", "default_entity_set", "source_id",
          "supports_delta"}, [source_id |-> "sources"], {})
PiiFlags ==
    Audited(Table({"name", "category", "detection_tier", "status", "confidence",
                  "rationale", "fingerprint", "discovered_field_id", "dataset_id"},
                  [discovered_field_id |-> "discovered_fields",
                  dataset_id |-> "datasets"], {}))
Pipelines ==
    Audited(Table({"name", "dataset_id", "cdc_pattern", "schedule", "is_enabled"},
                  [dataset_id |-> "datasets"], {}))
ProcessDefinitions ==
    Table({"name", "process_key", "version", "description", "status",
          "review_cycle_days"}, NoRefs, {})
ProcessSteps ==
    Table({"name", "step_key", "ordinal", "step_type", "service_impl",
          "candidate_groups", "form_key", "timer_duration", "process_definition_id",
          "retry_limit"}, [process_definition_id |-> "process_definitions"], {})
RetentionPolicies ==
    Audited(Cascading(Table({"name", "table_class", "action", "scope", "dataset_id",
                            "retention_period_days", "is_enabled"},
                            [dataset_id |-> "datasets"], {})))
RetentionRuns ==
    Table({"name", "status", "trigger", "policy_id", "records_purged",
          "records_anonymized", "error_detail"}, [policy_id |-> "retention_policies"],
          {})
Runs ==
    Table({"name", "pipeline_id", "status", "trigger", "started_at", "finished_at",
          "rows_read", "rows_written", "error_detail"}, [pipeline_id |-> "pipelines"],
          {"rows_suppressed"})
SequenceFlows ==
    Table({"name", "flow_key", "source_step", "target_step", "condition_expression",
          "is_default", "process_definition_id"},
          [process_definition_id |-> "process_definitions"], {})
SequenceRunSteps ==
    Table({"name", "run_id", "step_id", "status", "started_at", "finished_at"}, NoRefs,
          {})
SequenceRuns ==
    Table({"name", "sequence_id", "status", "started_at", "finished_at",
          "triggered_by"}, NoRefs, {})
SequenceSteps ==
    Table({"name", "sequence_id", "pipeline_id", "label", "order_index"}, NoRefs, {})
SourceConnections ==
    Audited(Table({"name", "endpoint", "protocol_version", "source_id",
                  "timeout_seconds", "verify_tls"}, [source_id |-> "sources"], {}))
SourceCredentials ==
    Audited(Table({"name", "auth_scheme", "principal", "source_id", "secret_ref",
                  "token_endpoint"}, [source_id |-> "sources"], {}))
Sources == Audited(Table({"name", "type"}, NoRefs, {}))
SuggestionFields ==
    Table({"name", "suggestion_id", "discovered_field_id", "field_role"},
          [suggestion_id |-> "suggestions",
          discovered_field_id |-> "discovered_fields"], {})
Suggestions ==
    Audited(Table({"name", "dataset_id", "title", "item_type", "aggregation", "score",
                  "rationale", "strategy", "status", "fingerprint"},
                  [dataset_id |-> "datasets"], {}))
SuppressionEntries ==
    Table({"name", "key_hash", "dataset_id", "deletion_request_id"},
          [dataset_id |-> "datasets", deletion_request_id |-> "deletion_requests"], {})

Catalogue ==
    [ audit_logs |-> AuditLogs, connection_tests |-> ConnectionTests,
      dashboard_item_fields |-> DashboardItemFields, dashboard_item_layouts |-> DashboardItemLayouts,
      dashboard_items |-> DashboardItems, dashboards |-> Dashboards,
      datasets |-> Datasets, deletion_requests |-> DeletionRequests,
      delta_cursors |-> DeltaCursors, discovered_fields |-> DiscoveredFields,
      discovery_runs |-> DiscoveryRuns, feed_credentials |-> FeedCredentials,
      field_profiles |-> FieldProfiles, ingested_records |-> IngestedRecords,
      load_sequences |-> LoadSequences, odata_service_configs |-> OdataServiceConfigs,
      pii_flags |-> PiiFlags, pipelines |-> Pipelines,
      process_definitions |-> ProcessDefinitions, process_steps |-> ProcessSteps,
      retention_policies |-> RetentionPolicies, retention_runs |-> RetentionRuns,
      runs |-> Runs, sequence_flows |-> SequenceFlows,
      sequence_run_steps |-> SequenceRunSteps, sequence_runs |-> SequenceRuns,
      sequence_steps |-> SequenceSteps, source_connections |-> SourceConnections,
      source_credentials |-> SourceCredentials, sources |-> Sources,
      suggestion_fields |-> SuggestionFields, suggestions |-> Suggestions,
      suppression_entries |-> SuppressionEntries ]

\* What is written of audited tables without record_audit: the references of a row that
\* is inserted, and the columns that an UPDATE sets.  Discovery inserts datasets; a scan
\* inserts and changes PII flags, and a steward decides over one; the reconciler inserts
\* suggestions and changes them, rescoring does, and so do accept and dismiss.
Evidence == {"detection_tier", "confidence", "rationale", "discovered_field_id"}
Unrecorded ==
    [ datasets |-> [refs |-> {"source_id"}, updates |-> {}],
      pii_flags |-> [ refs |-> {"dataset_id", "discovered_field_id"},
                      updates |-> {{"status"}, {"status"} \cup Evidence, Evidence,
                                   {"discovered_field_id"}} ],
      suggestions |-> [ refs |-> {"dataset_id"},
                        updates |-> {{"status"}, {"status", "score"}, {"score", "strategy"}} ] ]

-----------------------------------------------------------------------------

VARIABLES
    focus,    \* the tables of this behaviour: one, or a table and one it refers to
    rows,     \* rows[t][id]: life, references, owner, by whom it was made ("nobody", a
              \* "route" or the "program"), the columns that requests changed, and those
              \* that the program changed; the last three for the properties only
    trail,    \* trail[t][id]: the audit rows about it, in order of commit
    reading,  \* requests that have written and have yet to read their answer
    answer,   \* the last answer given
    writes    \* writes made so far

recordsVars == <<focus, rows, trail, reading, answer, writes>>

RefColumns(t) == {c \in DOMAIN Catalogue[t].refs : Catalogue[t].refs[c] \in focus}
Entry(action, detail) == [action |-> action, detail |-> detail]
Ask(op, t, id, user) == [op |-> op, table |-> t, id |-> id, user |-> user]
Live(t) == {id \in RowIds : rows[t][id].life = "live"}

\* Identifiers are drawn at random: nobody asks for one before it exists.
Known(t, id) == rows[t][id].life # "never"

\* The rows of t that a statement WHERE id = %s (AND user_id = %s) finds.
Found(t, id, user) ==
    /\ id \in Live(t)
    /\ Catalogue[t].owned => rows[t][id].owner = user

\* Seeded fault: the audit row is written without a look at the statement's row count.
RecordedAlways(t, id, action, detail, happened) ==
    IF Catalogue[t].audited
    THEN [trail EXCEPT ![t][id] = Append(@, Entry(action, detail))]
    ELSE trail

\* record_audit on the cursor of the write, when there was something to write to.
Recorded(t, id, action, detail, happened) ==
    IF Catalogue[t].audited /\ happened
    THEN [trail EXCEPT ![t][id] = Append(@, Entry(action, detail))]
    ELSE trail

RecordsTypeOK ==
    /\ focus \subseteq DOMAIN Catalogue
    /\ \A t \in focus, id \in RowIds :
          /\ rows[t][id].life \in {"never", "live", "gone"}
          /\ rows[t][id].refs \in [RefColumns(t) -> RowIds \cup {None}]
          /\ rows[t][id].changed \subseteq Catalogue[t].stored
          /\ rows[t][id].owner \in Users \cup {None}
          /\ rows[t][id].by \in {"nobody", "route", "program"}
          /\ rows[t][id].unrecorded \subseteq Catalogue[t].stored
    /\ writes \in 0..MaxWrites

\* A table and one it refers to, or a table on its own.
Focuses == {{t} : t \in DOMAIN Catalogue}
              \cup UNION {{{t, Catalogue[t].refs[c]} : c \in DOMAIN Catalogue[t].refs} :
                              t \in DOMAIN Catalogue}

RecordsInit ==
    /\ focus \in {f \in Focuses : \A g \in Focuses : f \subseteq g => g = f}
    /\ rows = [t \in focus |-> [id \in RowIds |->
                 [ life |-> "never", refs |-> [c \in RefColumns(t) |-> None],
                   changed |-> {}, owner |-> None, by |-> "nobody", unrecorded |-> {} ]]]
    /\ trail = [t \in focus |-> [id \in RowIds |-> <<>>]]
    /\ reading = {}
    /\ answer = None
    /\ writes = 0

-----------------------------------------------------------------------------
(* Requests *)

\* POST: the INSERT names the creator as owner of an owned table's row; a reference to
\* a row that does not exist is refused by its foreign key.
Create(t, id, user) ==
    /\ rows[t][id].life = "never"
    /\ \E refs \in [RefColumns(t) -> RowIds \cup {None}] :
          /\ \A c \in RefColumns(t) : refs[c] \in Live(Catalogue[t].refs[c]) \cup {None}
          /\ rows' = [rows EXCEPT ![t][id] =
                        [ life |-> "live", refs |-> refs, changed |-> {},
                          owner |-> IF Catalogue[t].owned THEN user ELSE None,
                          by |-> "route", unrecorded |-> {} ]]
    /\ trail' = Recorded(t, id, "create", {}, TRUE)
    /\ reading' = reading \cup {Ask("create", t, id, user)}
    /\ UNCHANGED answer

\* PUT with one of the columns of the update model: a column of the table's list is
\* written, one that only the INSERT stores is dropped, and then nothing is written.
Update(t, id, user, column) ==
    /\ column \in Catalogue[t].stored \cup Catalogue[t].createOnly
    /\ LET found  == Found(t, id, user)
           fields == {column} \cap Catalogue[t].stored
       IN /\ \E value \in IF column \in RefColumns(t)
                          THEN Live(Catalogue[t].refs[column]) \cup {None} ELSE {None} :
                rows' = IF found /\ fields # {}
                        THEN [rows EXCEPT
                                ![t][id].changed = @ \cup fields,
                                ![t][id].refs = [c \in RefColumns(t) |->
                                                   IF c = column THEN value ELSE @[c]]]
                        ELSE rows
          /\ trail' = IF fields = {} THEN trail
                      ELSE Recorded(t, id, "update", fields, found)
          /\ reading' = reading \cup
                          {Ask(IF fields = {} THEN "read" ELSE "update", t, id, user)}
    /\ UNCHANGED answer

\* A row that goes takes the rows that cascade with it, and is forgotten by the others.
Without(t, id) ==
    LET Refers(u, other) ==
            {c \in RefColumns(u) : Catalogue[u].refs[c] = t
                                     /\ rows[u][other].refs[c] = id}
    IN [u \in focus |-> [other \in RowIds |->
          LET row == rows[u][other] IN
          IF (u = t /\ other = id)
             \/ (row.life = "live" /\ Catalogue[u].onDelete = "cascade"
                   /\ Refers(u, other) # {})
          THEN [row EXCEPT !.life = "gone", !.refs = [c \in RefColumns(u) |-> None]]
          ELSE [row EXCEPT !.refs = [c \in RefColumns(u) |->
                                       IF c \in Refers(u, other) THEN None ELSE @[c]]]]]

\* DELETE: answered by the statement's row count, with no read after it.
Delete(t, id, user) ==
    /\ LET found == Found(t, id, user) IN
          /\ rows' = IF found THEN Without(t, id) ELSE rows
          /\ trail' = Recorded(t, id, "delete", {}, found)
          /\ answer' = [ Ask("delete", t, id, user) EXCEPT
                           !.op = IF found THEN "delete" ELSE "not found" ]
    /\ UNCHANGED reading

\* get_by_id in a transaction of its own: what others committed meanwhile is what the
\* request answers, an absent row with 404.
ReadBack(ask) ==
    /\ reading' = reading \ {ask}
    /\ answer' = [ask EXCEPT !.op = IF Found(ask.table, ask.id, ask.user)
                                    THEN @ ELSE "not found"]
    /\ UNCHANGED <<rows, trail>>

-----------------------------------------------------------------------------
(* Writes of audited tables that record_audit is not called for *)

\* Discovery, a scan or a reconciler adds a row for what it has found.
InsertUnrecorded(t, id) ==
    /\ rows[t][id].life = "never"
    /\ \E refs \in [RefColumns(t) -> RowIds \cup {None}] :
          /\ \A c \in RefColumns(t) :
                refs[c] \in IF c \in Unrecorded[t].refs THEN Live(Catalogue[t].refs[c])
                           ELSE {None}
          /\ rows' = [rows EXCEPT ![t][id] =
                        [ life |-> "live", refs |-> refs, changed |-> {}, owner |-> None,
                          by |-> "program", unrecorded |-> {} ]]
    /\ UNCHANGED <<trail, reading, answer>>

\* A scan, a reconciler, a rescoring or a decision changes a row by its id.
UpdateUnrecorded(t, id, columns) ==
    /\ id \in Live(t)
    /\ \E refs \in [RefColumns(t) -> RowIds \cup {None}] :
          /\ \A c \in RefColumns(t) :
                refs[c] \in IF c \in columns THEN Live(Catalogue[t].refs[c])
                           ELSE {rows[t][id].refs[c]}
          /\ rows' = [rows EXCEPT ![t][id].refs = refs,
                                  ![t][id].unrecorded = @ \cup columns]
    /\ UNCHANGED <<trail, reading, answer>>

-----------------------------------------------------------------------------

Write ==
    /\ writes < MaxWrites
    /\ writes' = writes + 1
    /\ \E t \in focus, id \in RowIds :
       \E user \in IF Catalogue[t].owned THEN Users ELSE {CHOOSE u \in Users : TRUE} :
          \/ Create(t, id, user)
          \/ Known(t, id) /\ \E column \in PutColumns : Update(t, id, user, column)
          \/ Known(t, id) /\ Delete(t, id, user)
    /\ UNCHANGED focus

WriteUnrecorded ==
    /\ writes < MaxWrites
    /\ writes' = writes + 1
    /\ \E t \in focus \cap DOMAIN Unrecorded, id \in RowIds :
          \/ InsertUnrecorded(t, id)
          \/ \E columns \in Unrecorded[t].updates : UpdateUnrecorded(t, id, columns)
    /\ UNCHANGED focus

Read ==
    /\ \E ask \in reading : ReadBack(ask)
    /\ UNCHANGED <<focus, writes>>

RecordsNext == Write \/ WriteUnrecorded \/ Read

RecordsSpec == RecordsInit /\ [][RecordsNext]_recordsVars

-----------------------------------------------------------------------------
(* Properties *)

\* Whatever requests and writes of the program interleave, the audit trail of an audited
\* row is exactly what the routes of its table did to it: it starts with the creation of
\* a row that a route made and has none for a row the program made, its updates name
\* exactly the columns that were ever changed by a request and none of those that only
\* the program changed, it ends with a deletion just when the row was deleted by a
\* request, nothing follows the deletion, and a row that was never made has none.  A row
\* that a cascade removed ends without one.  What the trail leaves out is confined to the
\* tables of Unrecorded.  A request that is told its write was made finds it in the trail.
\* record_audit: "an audited write and its audit row commit or roll back together".
TrailExact ==
    /\ \A t \in focus, id \in RowIds :
          Catalogue[t].audited =>
             LET row == rows[t][id]
                 es  == trail[t][id]
                 At(action) == {n \in DOMAIN es : es[n].action = action}
             IN /\ At("create") = IF row.by = "route" THEN {1} ELSE {}
                /\ At("delete") \subseteq {Len(es)}
                /\ row.life = "never" => es = <<>>
                /\ row.life = "live" => At("delete") = {}
                /\ row.life = "gone" =>
                      At("delete") # {} \/ Catalogue[t].onDelete = "cascade"
                /\ row.changed = UNION {es[n].detail : n \in At("update")}
                /\ row.by = "program" \/ row.unrecorded # {} => t \in DOMAIN Unrecorded
    /\ (/\ answer # None
        /\ Catalogue[answer.table].audited
        /\ answer.op \in {"create", "update", "delete"}) =>
             \E n \in DOMAIN trail[answer.table][answer.id] :
                trail[answer.table][answer.id][n].action = answer.op
=============================================================================
