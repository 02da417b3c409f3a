# Verification of AIDW

TLA+ models of the AIDW backend (`src/backend/app`), TLC configurations that
model-check them on small instances, and TLAPS proofs of their main properties
for every instance.

AIDW ingests data sets from OData sources into PostgreSQL, discovers and profiles
their schema, suggests dashboard items, serves the landed data as an OData feed,
and governs it: retention, PII flags, and the right to be forgotten. All state is
in the database. API threads and an optional worker process share it, and every
`with get_cursor()` block is one transaction at READ COMMITTED
(`db/connection.py`). What is hard about the system is what happens *between* those
transactions.

In this file, file names without a directory are relative to `src/backend/app`.

## Contents

1. [The system's parts](#1-the-systems-parts)
2. [Modules](#2-modules)
3. [Deletion requests](#3-deletion-requests)
4. [Ingest](#4-ingest)
5. [Load sequences](#5-load-sequences)
6. [Governance](#6-governance)
7. [Services](#7-services)
8. [Runs](#8-runs)
9. [Proofs](#9-proofs)
10. [Disagreements found](#10-disagreements-found)
11. [What is not modelled](#11-what-is-not-modelled)
12. [Plan](#12-plan)

## 1. The system's parts

`PROJECT.json` lists every component with its files and status, and the hazards
at the lines where they bite. The parts with state of their own:

| Part | State | Operations | Talks to |
|---|---|---|---|
| Deletion requests (`governance/`, `worker/loop.py`) | `deletion_requests` (status, attempts, subject), `suppression_entries`, erasure rows in `audit_logs` | create, verify, reject, claim (inline or by the worker), erase, requeue, reap; PUT and DELETE on the row | deletes from `ingested_records`, `ingested_payloads`, `field_profiles` |
| Ingest (`ingest/`) | `runs`, `delta_cursors`, the op-log `ingested_records`, the landing table `ingested_payloads` | request, claim, load, bootstrap the cursor, fetch and store pages, finish, fail, reap | reads `suppression_entries`; fetches from the remote source |
| Load sequences (`services/sequence_execution_service.py`, `worker/scheduling.py`, `worker/scheduled_execution.py`) | `load_sequences.last_fired_at`, `sequence_runs`, `sequence_run_steps` | fire when due, create by hand, mark, claim, execute steps, close, reap twice | every step starts an ingest run and executes it in place |
| Worker loop (`worker/loop.py`) | none | per iteration: reap runs, deletions, marked sequence runs, running sequence runs; fire due sequences; drain sequence runs, runs, deletions | all of the above |
| Retention (`retention/`) | `retention_runs`, policies | create, claim, plan, delete with record, fail, reap | deletes from five tables by age, never live runs |
| PII watchdog (`pii/`) | `pii_flags` (flagged, stale, confirmed, dismissed; schema or profile tier) | reconcile a scan, scrub profiles, confirm, dismiss | writes `field_profiles`; called by discovery and profiling |
| Profiling (`profiling/`) | `field_profiles` | sample a source, detect, suppress, write | reads flags and suppressions before it writes |
| Suggestions (`suggestion/`, `dashboard/service.py`) | `suggestions`, `suggestion_fields`, `dashboards`, `dashboard_items` | reconcile with the schema, rescore, accept, dismiss | called by discovery and profiling |
| Discovery (`discovery/`) | `datasets`, `discovered_fields` | read `$metadata`, upsert, two best-effort follow-ups | triggers suggestions and the PII scan |
| Feed (`feed/`, `api/feed_odata.py`) | the client's position, in its nextLink | name the sets, parse and evaluate `$filter`, sort, page, count | reads the landing table |
| Feed credentials (`feed/auth.py`, `api/feed_credentials.py`) | `feed_credentials` | create, update, revoke, rotate, look up by principal or key | guards every request to the feed |
| Authentication (`auth/`) | a cached JWKS document | validate a token, ask for a role | identity provider |
| Egress (`egress/`), connection tests | none; `source_credentials` and `source_connections` are read, `connection_tests` written | judge the destination, find the credential, send, follow redirects | used by ingest, discovery, profiling, charts |
| Records (`api/`, `services/`, `repositories/`) | 33 tables, `audit_logs` | create, read, update, delete by id | every table, those of the protocols above too |

Without state: chart series, process diagrams, the workflow engine's client.

What makes each part correct, and what is hard about it:

* **Deletion requests.** An erasure happens whole, once, for a verified request,
  with a proof; a claimed request is never stuck, a terminal one never moves.
  Hard: executors that a reaper took for dead wake up beside their successor, and
  a request can be executed by an API thread and by workers. The generation
  token (`attempts`) has to fence them. Beside all that, the generic PUT and DELETE
  change the row in any state.
* **Ingest.** No row behind the watermark is missing or stale. Hard: the source
  changes while it is paged, ties at page ends, the row cap, late executors,
  overlapping runs, two-transaction claims.
* **Sequences.** Steps run in order, once, and only after success; the schedule
  fires and does not double-fire. Hard: the mark and the claim are two
  transactions, neither the claim nor a step refreshes `updated_at`, by which the
  reaper goes, and the last update of a run is unguarded.
* **Retention.** What is purged is recorded, and only what the policy covers.
  Hard: the reaper between the claim and the DELETE.
* **PII and suggestions.** Human decisions stick; flagged fields expose no values.
  Hard: the reconcilers read, decide and write without locks.
* **Erasure against ingest, profiling and charts.** An erased subject does not come
  back and is not shown. Hard: the suppression list is read before the rows it
  should hold back are written.
* **Worker loop.** Every queue is drained in the end. Hard: what an exception in one
  phase skips, and rows that a crash leaves half taken.
* **Feed.** Who follows the links gets every row once. Hard: four limits at a time
  (`$top`, `$skip`, the page size, the set's end), and rows that come and go.
* **Credentials, tokens, egress.** Only a key that is good opens, and only where it
  belongs. Hard: two lookups per request, caches, rotation in two transactions,
  redirects.
* **Records.** The audit trail tells what requests did to an audited row. Hard: writes of
  others between a request's statements, cascades, and what the program writes of the
  same tables without an audit row.

## 2. Modules

| Module | Models | Code it stands for |
|---|---|---|
| `DeletionRequests` | the deletion request protocol | `governance/executor.py`, `governance/lifecycle.py`, the claims and the reaper in `worker/loop.py`, `repositories/deletion_requests_postgres_repository.py` |
| `Erasure` | what that protocol promises: an abstract specification with no threads, claims or retries | (a promise, not code) |
| `DeletionRequestsProofs` | its theorems | |
| `Ingest` | cursor ingest of one pipeline from a changing source | `ingest/*.py`, the claim and the reaper in `worker/loop.py` |
| `Replica` | what that ingest promises for one executor at a time: an abstract specification with no runs, pages or failures | (a promise, not code) |
| `IngestProofs` | the theorems of `Ingest` | |
| `Mapping` | keys, cursor values, watermark and filter literal, as functions | `ingest/mapper.py`, `cursor.py`, `filters.py` |
| `SequenceRuns` | load sequences, schedule, runs, steps, reapers | `services/sequence_execution_service.py`, `worker/scheduling.py`, `worker/scheduled_execution.py`, `worker/loop.py` |
| `SequencePlan` | what those runs promise: an abstract specification with no claims, markers or executors | (a promise, not code) |
| `SequenceRunsProofs` | its theorems | |
| `WorkerLoop` | one pass of the worker after another | `worker/loop.py` |
| `Deployment` | whether transactions of different requests overlap: the constant and the variable that three of the next share | (the installation) |
| `ErasedSubjects` | the erasure beside an ingest page, a profile and a chart | `governance/executor.py`, `ingest/cursor.py`, `profiling/service.py`, `dashboard/data_service.py`, `series/` |
| `PiiFlags` | flags, two scan tiers, profile values, stewards | `pii/service.py`, `profiling/service.py` |
| `SchemaRules` | the pure rules over schemas, names, samples, profiles | `discovery/schema_reader.py`, `suggestion/engine.py`, `suggestion/rescore.py`, `pii/engine.py`, `pii/values.py` |
| `Suggestions` | the inbox, reconciliation, accept, dismiss | `suggestion/service.py`, `dashboard/service.py` |
| `RetentionSweeps` | sweeps of one policy | `retention/` |
| `PiiFlagsProofs`, `GovernanceProofs` | the theorems of `PiiFlags`; those of `Suggestions`, `ErasedSubjects` and `RetentionSweeps`, and of the four together | |
| `FeedFilter`, `FeedServer` | `$filter`, `$orderby` and names as functions; paging through the feed | `feed/`, `api/feed_odata.py` |
| `FeedCredentials` | the feed's keys and the requests that show them | `feed/auth.py`, `api/feed_credentials.py` |
| `TokenAuth` | bearer tokens and the cached key document | `auth/` |
| `Egress` | outgoing requests and the connection test | `egress/`, `api/connection_tests.py` |
| `Records` | all tables of the REST interface and the audit trail | `repositories/`, `audit/recorder.py`, the migrations' foreign keys |
| `FeedServerProofs`, `RecordsProofs`, `ServicesProofs` | the theorems of `FeedServer`; of `Records`; of `FeedCredentials`, `TokenAuth` and `Egress` | |
| `ChartSeries` | the series of a chart, as functions | `dashboard/data_service.py`, `series/`, `ingest/landing.py` |
| `Diagrams` | process diagrams, as functions | `bpmn/`, `api/process_*.py`, `services/load_sequence_bpmn_service.py` |
| `MCDeletionRequests`, `MCIngest`, `MCSequenceRuns` | small instances | |
| `MCGovernance` | small instances of the four of section 6 | |
| `MCServices` | small instances of those of section 7 | |

`MCGovernance` and `MCServices` extend several components that share no variable
but the kind of deployment; names are therefore told apart across them
(`FlagsNext`, `SubjectsNext`, `CredNext`, ...). The components that are only
instantiated there are `WorkerLoop` and the pure functions. A behaviour is one of a single component, which the variable `part` names and the
rest of which stays as it starts; nothing is interleaved that does not interact.

Conventions shared by the modules:

* One transaction is one action. A transaction that reads and later writes
  without a lock is two actions, because others commit in between.
* An actor (API thread or worker) has a program counter, and the values it read
  earlier, in a record. Crash actions forget the record and nothing else.
* Rows that do not exist have status `"absent"`; deleted rows have `"deleted"`
  where an executor may still hold their id.
* `Forget` in `Ingest` and `SequenceRuns` returns a finished row's id to the pool,
  so that a small set of ids gives runs without end. It requires that nobody
  executes the row, which uuids guarantee in the program.
* A section "Seeded faults" holds plausible bugs, each the mutated form of the
  definition named beside it. No action uses them; they serve to confirm that a
  property fails when the code is wrong in that way.
* A component whose promise depends on the deployment has a constant such as
  `Overlap`, the set of the kinds to explore, and a variable that picks one of them
  for a whole behaviour.

## 3. Deletion requests

State: the columns `status`, `attempts`, `(dataset_id, subject_key)` of each
request; the subjects present in the two stores, in the profiles and on the
suppression list; the audit rows (erasures and transitions) per request; and a
record per thread. `edits` is no state of the program: it counts the PUTs and DELETEs
that struck each request, so that properties can tell edited requests from others.

| Action | Code |
|---|---|
| `Create` | `repositories/deletion_requests_postgres_repository.py`, create |
| `VerifyRead`, `VerifyCommit` | `lifecycle.verify_request`: SELECT, then the guarded UPDATE with its audit row; in inline mode the thread goes on to execute |
| `RejectRead`, `RejectCommit` | `lifecycle.reject_request`, which accepts received and verifying and names the status it read in the audit row |
| `ClaimForExecution` | `executor.claim_for_execution`, by id, without the cap |
| `ClaimNextDeletion` | `loop.claim_next_deletion`, under the cap |
| `BeginErasure`, `DeleteRows`, `CommitErasure`, `AbortErasure` | the transaction of `executor.execute_deletion`: read the subject; DELETEs; suppression, audit, guarded finalize; rollback |
| `Requeue` | `executor._requeue`, guarded by status and generation |
| `ReapStaleExecuting` | `loop.reap_stale_executing`; it may strike live executors |
| `Crash` | a thread dies at any point, or the requeue itself fails |
| `Put`, `Delete` | the repository's update and delete: one statement by id, whatever the row's status and whoever executes it |

`PutRows` is what a PUT may write: any status the CHECK constraint allows, NULL
(`"unset"`) included, any number as generation, any subject or none. A PUT of some of the
columns only is one that writes the others as they are; a POST with a status or
attempts of its own is a `Create` and a `Put`.

The erasure transaction is split because a reaper, another claim or a crash may
come between its parts.

Properties: `ClaimExclusive`, `CompletedIsProven` (invariants); `SupersededHarmless`,
`TerminalFinal` (actions); `ClaimsEnd`, `VerifiedResolved` (liveness);
`ErasureAtomic` (refinement of `Erasure`). Each is explained in the module beside
its statement. `ErasureWithProof` says more of the step that erases than the
refinement; it is proved and has no run of its own.

What an edit can and cannot break:

* It can give a generation out twice, reopen a completed request, erase under a subject
  nobody verified, or leave a request where nothing takes it up. `ClaimExclusive`
  and `VerifiedResolved`, the last half of `CompletedIsProven` and the verification in
  `ErasureWithProof` are therefore stated for requests that nobody edited, and only
  the edit itself may leave a terminal status.
* It cannot make an erasure partial or the proof of one untrue: the executor erases
  and records the subject it read, in one transaction, and finalizes through the fence. This
  half of `CompletedIsProven`, `ErasureWithProof`, `SupersededHarmless`, `ClaimsEnd` and
  the refinement hold for all requests. `Erasure` has a step for it: an edited request
  may be erased again, for any subject, and then as whole as before.
* It cannot disturb another request.

Fairness: a thread that is executing takes its next step (the process runs);
the worker polls, hence the claim and the reaper are taken when they stay
enabled. Nothing is assumed of admins, edits included. Crashes need no bound for safety, because
every reap raises `attempts`; under the cap that also bounds the retries.

## 4. Ingest

State: the remote source (for each row the cursor value and a version), its clock
and its way of paging; the version of each row in the landing table; the cursor
row and its watermark; the status of each run; a record per executor with the
watermark it read, its page, what it has read so far, and what its last page was.

| Action | Code |
|---|---|
| `CreatePendingRun` | `service.create_pending_run` |
| `Claim`, `ClaimGone` | the claims `execute_run` (by id) and `loop.claim_next`; a claimed run whose row, pipeline or data set is gone when it is loaded |
| `LoadContext`, `BootstrapCursor` | `_load_context`; `_bootstrap_cursor`, UNIQUE on the pipeline |
| `FetchPage` | the request, and the choice of the next one: `@odata.nextLink`, or the first URL with `$skip` |
| `ApplyPage` | the transaction that stores one page, then the loop's decision to go on or stop at the cap |
| `FinishRun` | the guarded `succeeded` and the watermark, one transaction |
| `Fail`, `FinalizeFailed`, `Crash` | an error anywhere; its record on the run, guarded; a dead process |
| `ReapStaleRunning`, `DeleteRun` | the reaper; DELETE on the run |
| `SourceChange` | a row is created or changed at the source and stamped by a clock that may stand still but not run backwards |

`Matching` is the `ge` filter, `Before` the order by cursor value and key,
`Slice` the pages, `RunWatermark` the rule that cuts the last tie group. Rows in
`Keyless` yield no business key: they are read, counted and skipped.

Two kinds of source are explored in one run: one that pages by links over a
snapshot (`serverPage > 0`) and one that knows only `$skip` and `$top`
(`serverPage = 0`). With `SkipMoves = FALSE` the latter rests while it is paged.

Properties: `NothingLost`, `NoneMissing`, `OneExecutor` (invariants),
`FinalStatus` (action), `RunsEnd`, `CatchesUp` (liveness), `LandingFollows`
(refinement of `Replica`). `WatermarkMonotone`, which the refinement implies, and
`WatermarkWithSuccess` are proved only.

`Replica` has three steps: the original changes, items are copied in versions that are
not older than the copied ones, the mark goes forward to where the copy is
complete. Rows without a business key are no items of it. A step of a run, the reaper or the
API that is none of these changes nothing that `Replica` can see.

What the model teaches:

* The filter is `ge`, not `gt`. That alone already keeps a row safe that ties
  with the watermark; the cut of the last tie group matters for *progress*. With
  `gt` both `NothingLost` and `NoneMissing` fail.
* Progress needs a row cap above the first two tie groups. With a smaller one a
  run succeeds, the watermark stays, and the next run reads the same rows.
  `CatchesUp` is therefore checked with distinct cursor values and a cap of three.
* A source with links whose last page is as large as `$top` and has no link is
  continued by a `$skip` request of the client's own, which is not part of the
  server's snapshot. The proof assumes link pages smaller than `$top` (see
  `Tame`).

Fairness: a claimed run's executor goes on; runs are requested again and
claimed (somebody keeps asking, the worker polls); the reaper polls. `CatchesUp`
says that once the source rests and faults are used up everything is stored, so it
also assumes the bounds on changes and faults.

## 5. Load sequences

State: each `sequence_runs` row (status, sequence, by schedule or not, whether
`started_at` is set, whether it was claimed when older than the cutoff), the status of each step row, whether the cadence interval of
a sequence is over, a record per actor, and the kind of deployment.

| Action | Code |
|---|---|
| `CreateRun`, `DeleteRun` | the REST operations; the browser creates runs with status NULL |
| `BecomeDue`, `Fire` | `cadence.is_due` turning true; `scheduling.fire_due_sequences_once` for one sequence |
| `MarkScheduled` | `scheduled_execution.execute_scheduled_run_once`: sets `started_at`, leaves `pending` |
| `RequestExecute` | POST `.../execute` |
| `ReadRun`, `ClaimRun`, `ReadSteps` | the start of `execute_sequence_run` |
| `InsertStep`, `StartStep`, `RunPipeline`, `RecordSuccess`, `SuccessLost`, `RecordFailure`, `SkipStep`, `CloseRun` | its loop, one transaction each; `RunPipeline` is the ingest run, whose outcome is free |
| `Crash` | the process dies, or a write outside the `try` fails |
| `ReapStranded`, `ReapStaleRun` | `loop.reap_stranded_scheduled`, `loop.reap_stale_sequence_runs` |

`Active` is the predicate of the partial unique index on
`sequence_runs(sequence_id)`. A run with status NULL is outside it and enters
only with its claim, which then fails if another run of the sequence is active.

Whether a live executor's run is reaped depends on two things. The reapers' cutoffs
are settings (7200 s by default for running sequence runs), and in some deployments
all executions are shorter (`patient`). But the reaper goes by `updated_at`, which
neither the claim nor a step refreshes: it is the time of the worker's mark or, of a
run that is executed on request, of its creation. Such a run may be older than the
cutoff when it is claimed (`late`) and is then stale at once, however short its
execution is. `Timely` runs are those of patient deployments that were not claimed
late; only their executors are safe from the reaper (`Stale`). Both deployments are
explored, and in the patient one each claim on request both in time and late; in the
other one `late` would make no difference. Point 20 of section 10 is about this.

`StepsFit` ties a run to its steps: a step is under way or done only after every
one before it succeeded, and a completed run has every step done. Both parts hold
of all runs: one that was reaped alive may turn from failed to completed,
but only if its steps really succeeded. Its third part (no unfinished step is left
behind) and `SequenceExclusive` are stated for timely runs and
fail for the others: a reaped run's sequence fires again while the first executor still
works, and the last update overwrites `failed`. `SequenceExclusive` also excepts runs
whose row an admin deleted during execution.

`KeepsToPlan` is the refinement of `SequencePlan`: a run waits, starts once and while no
other of its sequence is started, does step after step, and ends; it is completed only
with all steps done. A row's status is its phase there (NULL and `pending` wait, a
deleted one is withdrawn), its succeeded steps what it has done; markers, claims that
fail, step rows before their success, and crashes are stutters. Of runs that may be
reaped alive the plan itself lets a failed one go on (`final` is FALSE of them),
and that is all it lets them do. `FinalStatus`, which the refinement implies, is proved
and has no run of its own.

`DueFires` excepts sequences with an unfinished run made by hand: a pending one
that nobody executes blocks the schedule for ever.

Fairness: live executors go on, the worker's loop polls the schedule, the marking and
both reapers. Nobody is obliged to execute a run made by hand.

## 6. Governance

Four modules, each in its own behaviours of `MCGovernance`. In three of them the
code reads, decides, and writes by id in one READ COMMITTED transaction, so a
transaction is two or three actions. Their constant `Overlap` holds `FALSE` (such
transactions come one at a time, as on an installation with one operator) and
`TRUE` (anything between them). Some promises hold only in the first, and say so.

### ErasedSubjects

The erasure of section 3 as one transaction, beside the three readers of the
suppression list. Each has read the list (`seen`) some time before it writes or
answers.

| Action | Code |
|---|---|
| `Erase` | `governance/executor.py`: DELETEs, profile values set to NULL, suppression entry |
| `PageRead`, `PageCommit`, `PageFail` | `ingest/cursor.py` and `landing.py`: the list once per page, then its rows |
| `ProfileRead`, `ProfileCommit`, `ProfileFail` | `profiling/service.py`: the list after the fetch, then the values |
| `ChartStart`, `ChartLanded`, `ChartFetch`, `ChartAnswer` | `series/`: the list, then the landed rows; `dashboard/data_service.py`: the sample, then the list |
| `TurnPepper` | `PII_PEPPER` removed from or put back into the environment: who has entries to compare with cannot hash, and fails |

`ErasedStaysErased`: without overlap no store holds an erased subject.
`ChartsHonourErasure`: *with* overlap, and even of rows that a late page brought
back, no chart shows a subject that was erased before the request. The two
endpoints need opposite orders for this, and have them. `NoResurrection`, what the
comments promise of pages, is violated with overlap (section 10).

### PiiFlags

State: `discovered_fields` with ids that change when a field is deleted and found
again, `pii_flags`, the fields whose profile holds raw values, and for each of the
two tiers the transaction under way with everything it read.

| Action | Code |
|---|---|
| `DiscoverField`, `DeleteField` | `discovery/service.py` upserts by name; DELETE with the foreign keys' SET NULL |
| `Read` | `reconcile_flags`: the two SELECTs, the candidates of this scan, the row kept per fingerprint |
| `CommitScan` | the schema scan: `Reconciled` (insert, revive, upgrade, rebind, stale: `Verdict`), then the scrub of every active flag's field |
| `Withhold`, `CommitProfile` | the profiler: reconcile, read the active flags again, write profiles without the withheld values |
| `Confirm`, `Dismiss` | `POST /api/pii-flags/{id}/confirm` and `.../dismiss`, whatever the status |
| `Rollback` | any failure |

`Locks`, `Waits` and `ForeignKeysHold` are what the database adds: an updated row
makes the other updater wait, and a reference to a deleted field fails.

* `FlaggedNotExposed` (without overlap): no flagged field has raw values at rest.
* `ScanCloses` (with overlap too): what a schema scan commits is free of raw values on
  every active flag's field, its own and everybody else's.
* `SeenDecisionsStick`: a flag that was read as decided is left alone.
* `Ratchet`: a schema scan stales no flag that sampled values raised, unless the
  field is gone.
* `DecisionsStick`, what the comments promise, is violated with overlap.

### Suggestions

A suggestion is a function of the columns: `SchemaRules` has the rules R1 to R6 of
`suggestion/engine.py` and `Suggestions` the table, keyed by fingerprint.
The rules work on sets of positions (`Measures`, `Dimensions`, `Temporals`, and the
`First` of each).
`RegenerateRead` and `RegenerateWrite` are `suggestion/service.py`, with
`RegenerateFail` for what discovery logs and ignores; `AcceptRead`, `AcceptWrite`,
`Dismiss` and `DeleteItem` are `dashboard/service.py`, with the unique index on
`source_suggestion_id` as the guard of the second.

`InboxFollowsSchema` (without overlap): after a reconciliation the inbox holds what
the schema that was read gives rise to, less what users decided. `InboxBound`, that no
suggestion in the inbox lacks its field, is violated.

### RetentionSweeps

State: one policy or none, the rows of the sweepable tables (expired or not, a
queue's live row or not), the retention runs, and as history which run deleted
which row. `CreatePendingSweep`, `Claim`, `ReadPolicy`, `Sweep`, `SweepFails` and
`Crash` are `retention/service.py` in order, with `planner.py` in `Plannable`,
`Supported` and `WhereOf`; `Reap` is `reaper.py`, which nothing in the program
calls. `AlterPolicy`, `Arrive`, `Expire` and `TurnLive` are the world around it.

`PurgeRecorded`: unless it was reaped, the run that deleted rows succeeded, and it
counts them exactly, whatever becomes of the policy between the plan and the
DELETE. A reaped run that goes on to delete is why it has the exception.

## 7. Services

Six modules with state of their own, and five of pure functions, in `MCServices`. A behaviour is one of a single part.

### WorkerLoop

`worker/loop.py` as a program counter over the phases of a pass (`After`) and three
queues of abstract items. `Guarded` are the phases with an exception handler of
their own; `Raise` elsewhere ends the pass, and leaves the row in hand claimed by
nobody. `Crash`, `StopSignal` and `Start` are the process; `Age` says that a row
nobody holds reaches the reaper's cutoff.

`QueuesDrain`: once work stops arriving nothing stays due, waiting, marked or
running, save for deletion requests at the attempts cap. The first phase is a
reaper that may raise every time, and it has no handler: what makes the property true
is that faults end. `docker-compose.yml:143` restarts the worker (`restart:
unless-stopped`), which is the weak fairness of `Start`; the loop itself is that of
`WorkerStep`; time is that of `Age`. Failed jobs and exceptions have no fairness.

### FeedFilter, FeedServer

`FeedFilter` has `$filter` (precedence and depth in `ParseFilter`, three-valued
evaluation), `$orderby` with its keys for text, numbers and NULL, and the names of
sets and properties (`feed/naming.py`). `FeedServer` is a client that follows
`@odata.nextLink`: `Resolve`, `ReadPage` and `CountPayloads` where LIMIT and
OFFSET do the paging, `ReadWhole` where the set is read to be filtered or sorted,
and `Following`, which decides on the next link. Rows come and go
(`Land`, `Leave`), data sets go, and each request may find another page size.
What a query selects and how sets are named enter `FeedServer` as constant
operators, `Selected` and `EntitySetNames`, of which it assumes only
`SelectionOfKeys` and `NamesTellApart`. The configuration gives them the values
`RowsSelected` and `SetNames` of `FeedFilter`, for which TLC evaluates the two
assumptions. So the paging is proved for any filter, order and naming, without
the recursion that evaluates them.

`PagesComplete`: if nothing changed meanwhile, the pages put together are the
selected rows, each once, in order, cut at `$top`. If something did, `$top` still
holds. As functions (`RulesAgree`): an expression printed with minimal brackets is
read back as itself (`ReadsBack`), and names do not collide (`NamesApart`).

### FeedCredentials, TokenAuth, Egress

`FeedCredentials`: a request shows a Basic pair, an API key or both; each is looked up
in a transaction of its own (`LookUp`, `LookUpKey`), with rotation (read, then
write), revocation, deletion and the generic PUT in between. `AcceptedOnOwnKeys`:
every key shown was the accepted credential's own and good at some time of the request.

`TokenAuth`: the modes, the one cached key document with its bucket of time, the key a
token is checked with, 401 and 403. `WithdrawnKeysExpire`: in the bucket a request
began in, a token passes only on a key published at some time of that bucket.

`Egress`: `ValidDestination`, the connection with the longest endpoint that covers
the URL, the newest credential of its source, redirects by hand, and the connection test's
record of the outcome. `HeaderStaysHome`: through all redirects every request goes
to a permitted host, and the credential to no origin but the first one's.

### Records

One set of actions for the 33 tables, which differ in `Catalogue`: what an INSERT
stores, what an UPDATE may set, references and what becomes of them, owners, and
whether `record_audit` is called. The write and the answer's read are two transactions.
`WriteUnrecorded` is what the program writes of audited tables without an audit row, one
row at a time, whichever the transaction it is part of:

| Table | Written without an audit row by |
|---|---|
| `datasets` | discovery (`discovery/service.py`) |
| `pii_flags` | scans, and a steward's decision (`pii/service.py`) |
| `suggestions` | the reconciler and the rescoring (`suggestion/`), accept and dismiss (`dashboard/service.py`) |

`TrailExact`: the trail of an audited row is what the requests of its REST routes did to
it, no more and no less, whatever else writes the row; and what it leaves out is confined
to these three tables.

### Pure functions

`RulesAgree` compares each with a property of its own on all small inputs, which
are the initial states of the part `rules`:

| Module | Functions | Property |
|---|---|---|
| `ChartSeries` | labels and numbers as `str()` and `float()` read them of sampled rows, and `->>` and a pattern of landed ones; buckets, order, rounding, top-n with remainder | `LandedSeriesConserves`: the series adds up to the whole; `EndpointsAgree`: the two endpoints refuse the same items, and show one chart where nothing has landed, or where both paths read the rows alike, order labels alike and neither cuts, drops or rounds a bucket (point 22 of section 10) |
| `Diagrams` | rows to the intermediate form, ranks, boxes, waypoints, both documents | `DrawnSoundly`: no overlap, flows run right, independent of the rows' order; `ProjectionDrawn` |
| `SchemaRules` | `$metadata` to fields; the rules of suggestions, names, values and profiles | `SchemaReadSoundly`, `NamesFlagged`, `ValuesFlagged`, `ScoreStays`, `StatsHonourErasure` |
| `Mapping` | business keys; cursor values as numbers or text; the watermark of a run and its literal | `KeysApart`: rows keep keys of their own, unless a part holds the separator or the key is cut; `WatermarkSound`: whatever junk is among the values, the watermark is the greatest that a run has earned and can be written as a literal, if the rest are of one form |

## 8. Runs

| Run | Instance and bounds | What it shows |
|---|---|---|
| `deletion_safety` | 2 requests, 2 subjects in 1 data set, 1 API thread in inline mode, 1 worker, cap 1; the first request is edited at most once, to 2 rows, or deleted | proofs true, terminal statuses final, superseded executors harmless, and the refinement of `Erasure`, with an edit at any moment; of the two executors one may be late |
| `deletion_liveness` | 1 request, 1 API thread in inline mode, 2 workers, cap 2; at most one edit, to any status, generation 0 or 1, with or without a subject | of a late executor, a new one and a third only one passes the fence; a claimed request is released, a verified one resolved or left for triage and not claimed again |
| `ingest_safety` | 4 rows of which 1 has no key, pages of 2 (links: 1), cap 3, 2 changes per row, ties of 2, 1 fault | one executor, both kinds of source: nothing lost, and the refinement of `Replica` |
| `ingest_two` | 2 rows, 2 runs, 2 executors, links, 1 fault | overlapping runs and late executors: each run has one, no row missing, outcomes final |
| `ingest_liveness` | 4 rows with distinct cursor values, pages of 2, cap 3 | runs end and everything is stored |
| `sequence_runs` | 1 sequence of 2 steps, 2 run ids (reused), 1 worker, 1 API thread, 1 fault, both deployments, claims in time and late | all properties of `SequenceRuns` but `FinalStatus`, the refinement of `SequencePlan` among them |
| `governance` | `PiiFlags`: 1 column, 1 category, 2 field ids, 2 flags, 4 scans and decisions where they overlap (any number where not); `Suggestions`: 2 columns of 2 shapes, 2 users, 5 requests; `ErasedSubjects`: 2 subjects, 1 chart; `RetentionSweeps`: 2 rows of 2 tables, 2 sweeps, 6 policies and none | all properties of section 6 but the two promises that fail |
| `services` | feed: 2 data sets of one name, 4 keys, 4 queries, pages of 1 and 2, 1 change; records: each table alone and each with a table it refers to, 2 ids, 3 writes, of requests and of the program; credentials: 2 of one principal, 2 keys each; worker: 4 items, 2 attempts, 2 faults, 1 stop; egress: 6 URLs, 1 credential row, 2 redirects; tokens: 2 keys, 3 buckets, 2 key changes; all inputs of the pure functions | all properties of section 7 |
| `ingest_skip_moving` | 3 rows, `$skip`, changes while paging | counterexample: a lost row |
| `pii_decision_lost` | the `PiiFlags` part of `governance` | counterexample: a steward's decision overwritten |
| `suggestion_unbound` | the `Suggestions` part | counterexample: a suggestion without its field in the inbox |
| `erased_resurrected` | the `ErasedSubjects` part | counterexample: an erased subject stored again |

Why these bounds are enough. *Ingest*: the rules under test distinguish tie groups
of one and more, pages that end within a tie group and between two, a first, middle
and last page, and the cap within and at the end of a page. Four rows in pages of
two with ties of two and a cap of three have all of them. *Races* need two
executors beside a reaper, and one fault to strand one of them; two steps of a
sequence have a first and a last, with one to skip. *Governance*: a column whose
field is deleted and found again has two ids, and its flag a predecessor that has
lost its field; both tiers are at work at once, and a third actor is the steward.
Two scans, a decision and one more scan are the longest of the known histories. Two
columns are enough for the rules of one column and of a pair. *Services*: with four
rows and pages of one and two, sets end before, at and after a page's end for
each `$top`; two keys per credential are a rotation, three buckets an expired one;
two redirects leave the origin and come back; four items have one of each queue and a
second scheduled run for the reaper's batch of one.

The bounds named in the modules are `MaxEdits` (`DeletionRequests`), `MaxVersion`, `MaxClock`, `MaxTies` and
`MaxFaults` (`Ingest`), `MaxFaults` and `MaxLength` (`SequenceRuns`), `MaxMoves`
(`PiiFlags` under the name `MaxScans`, and `Suggestions`), `MaxChanges`
(`FeedServer`; `TokenAuth` under the name `MaxKeyChanges`), `MaxBucket`, `MaxKeys`,
`MaxRows`, `MaxWrites`, `MaxFaults` and `MaxStops` (`WorkerLoop`). `MaxAttempts`,
`MaxHops`, `MaxDepth`, `Batch`, `Width` and `MaxAdditions` are constants of the program
that the instances make smaller.

Deadlock is looked for in `SequenceRuns` only, which never stops. The others may:
requests are all terminal, a source has used up its changes, a request is answered.

`governance` uses the symmetry of ids; no action, property or choice tells
them apart. The runs with liveness use none.

Every property of a passing run has a mutant: a seeded fault which, put in place
of the definition it names, makes TLC report that property violated.

## 9. Proofs

TLAPS proves these for every value of the constants that satisfies the module's
named assumptions (`ConstantsOK` and the like), which TLC evaluates in the runs. All
invariants and action properties that the runs check are proved, and all refinements,
but not all of `RulesAgree`.
`ErasureWithProof`, `WatermarkWithSuccess`, `WatermarkMonotone`, the `FinalStatus` of
`SequenceRuns` and the
typing of single components are proved and have no run: other properties say more.

### `DeletionRequestsProofs`

| Theorem | Property |
|---|---|
| `TypeCorrect` | `TypeOK` |
| `Exclusive` | `ClaimExclusive` |
| `Proven` | `CompletedIsProven` |
| `Terminal` | `TerminalFinal` |
| `WithProof` | `ErasureWithProof` |
| `Superseded` | `SupersededHarmless` |
| `Refinement` | `ErasureAtomic` |

None of them is inductive by itself. The invariant is

    IInv == TypeOK /\ HeldInv /\ FenceInv /\ ErasingInv /\ HistoryInv /\ CompletedIsProven

`FenceInv` is the heart: no executor's generation is ahead of its row, an
executor at the row's own generation implies that the row is executing or
completed, and no two executors of a request share a generation. A claim hands
out the row's generation only while it waits in `verifying`, when nobody can hold
it; a reap or requeue raises it. `ErasingInv` says that what an open transaction
read is still so if it may commit; `HistoryInv` that an executing request was
verified. Both say so of requests nobody edited; what `ErasingInv` says of the stores, and
`HeldInv`, it says of all. The refinement follows: a commit is `Erase`, or
`EraseEdited` if the request was edited, a creation `Name`, a
rejection `Reject`, a PUT or DELETE `Edit`, everything else a stutter. The mapping
hides the subject of an edited row, which promises nothing any more. The theorems hold
for any `PutRows` and any number of edits of each request.

### `IngestProofs`

| Theorem | Property |
|---|---|
| `TypeCorrect` | `TypeOK` |
| `Exclusive` | `OneExecutor` |
| `Final` | `FinalStatus` |
| `WithSuccess` | `WatermarkWithSuccess` |
| `Present` | `NoneMissing`, assuming `Stable` |
| `Lossless` | `NothingLost`, assuming `Tame` |
| `Monotone` | `WatermarkMonotone`, assuming `Tame` |
| `Follows` | `LandingFollows`, assuming `Tame` |

`Stable` and `Tame` are constant facts without which the four are false or
unproved. `Stable`: a `$skip` source rests while it is paged (`ingest_skip_moving` is
one that does not), and link pages are smaller than `$top`. `Tame` is `Stable` with one
executor (points 7 and 8 of section 10 say what two do). They say nothing of sizes,
ties, caps, keyless rows or faults. `ingest_two` checks `NoneMissing` for a source
that is `Stable`, and `ingest_safety` the other two for one that is `Tame`.

The invariants are `TypeInv == TypeOK /\ HeldInv /\ ClockInv`;
`SharedInv == NoneMissing /\ PagingInv /\ PendingInv /\ PresentInv`, for any number of
executors; and `PipelineInv == NothingLost /\ WatermarkRead /\ CoveredInv`, which holds
on top of it for one. `Pending(x)` are the rows that a run has yet to store: its page, and what
lies behind it in the snapshot or in the live source. `PendingInv` says that
they come, in order, after everything read so far, and that each is the source's
current row unless that row has changed and so moved behind everything.
`CoveredInv` says that every row of the source is stored, pending, or newer
than everything the run reads; `PresentInv` says so of rows in any version, since of
several executors one may store an older one. When nothing is pending, or when the cap cut
the run, every row behind the new watermark must then be stored. The lemmas
about `Rank` and `Slice` (a rank is unique, a page has at most so many rows, a
page and the rest partition what was pending) carry the paging through for every
page size.

`FollowInv` adds, for one executor, that what is stored of a row is not newer than a page
or link that holds it, and that not newer than the source; a page lies between the two
because a key is pending at most once (`PendingInv`). The refinement follows: a page
stored is `Catch`, a run closed is `Advance` or a stutter, a change of the source
`Change`, everything else a stutter.

### `SequenceRunsProofs`

| Theorem | Property |
|---|---|
| `TypeCorrect` | `TypeOK` |
| `Exclusive` | `OneExecutor` |
| `StepsAgree` | `StepsFit` |
| `SequencesApart` | `SequenceExclusive` |
| `Refinement` | `KeepsToPlan` |
| `Final` | `FinalStatus` |

The invariant adds to `TypeOK` and `OneExecutor`: who is at work holds a row that was
there (`HeldInv`), its status is `running`, or `failed` or `deleted` meanwhile, the
former only if it is not timely (`StatusInv`); a run that no row stands for is not late
(`RowInv`); at most one run of a
sequence is in the unique index (`IndexInv`); the steps of every run are in order
(`StepInv`); and the executor's position agrees with them: all steps before it
succeeded, those after it have no row, and the one at hand is what its program counter
says (`ProgressInv`). `StepsFit` needs the last, because a step's row is written
with no look at the others. What the properties say of timely runs follows from
the same parts of `StatusInv` and `ProgressInv`. The refinement takes all of it:
`IndexInv` and the claim's look at the index make `Start` a start alone, `ProgressInv`
makes the step that succeeds the next one and a completion a completion of all, and
`StatusInv` says whose end a late update may still turn.

### `PiiFlagsProofs` and `GovernanceProofs`

| Theorem | Property |
|---|---|
| `NoLeakWindow` | `FlaggedNotExposed` |
| `SweepCloses` | `ScanCloses` |
| `DecisionsAreSticky` | `SeenDecisionsStick` |
| `RatchetHolds` | `Ratchet` |
| `InboxRight` | `InboxFollowsSchema` |
| `ErasureLasts` | `ErasedStaysErased` |
| `ChartsLeaveOutErased` | `ChartsHonourErasure` |
| `PurgesOnRecord` | `PurgeRecorded` |
| `AllTyped` | `TypesOK` |

* `PiiFlags`. Where transactions come one at a time only one is open (`OneScan`), so
  what the profiler withholds is what its own writes leave flagged
  (`WithheldCurrent`). In every deployment an id a transaction inserts under belonged to
  no row it read (`InsertsNew`), without which an insert could overwrite a decision.
* `Suggestions`. Without overlap a reconciliation goes on with the statuses it read
  (`SeenCurrent`). That the rules only name columns they were given
  (`CandidateFields`) makes every fingerprint one of a schema there may be.
* `ErasedSubjects`. Without overlap an open page or profile has read the list as it is
  (`SnapshotsCurrent`). In every deployment a chart remembers as erased only who
  is on the list, and from the step at which it has dropped the suppressed what it
  works on holds none of them (`ChartInv`).
* `SchemaRules`. `ScoresStay`, `NamesAreFlagged` and `ValuesAreFlagged` are the parts of
  `RulesAgree` about scores, names and values, for every input: rescoring with the same
  profiles changes nothing, a word in a name takes no category away but the location of
  "address", and one match among three values or more flags nothing.
* `RetentionSweeps`. A run at work has purged nothing yet, and one that has
  purged has ended; ids are not used again (`RunInv`, `RowsFresh`). The count follows
  with the theorems about finite sets.
* `AllTyped` is about `PartsSpec`, the specification of the run. `Projections` shows that
  each of its behaviours is one of each component, so every theorem above holds there
  too.

### `FeedServerProofs`, `RecordsProofs`, `ServicesProofs`

| Theorem | Property |
|---|---|
| `PagesAddUp` | `PagesComplete` |
| `TrailComplete` | `TrailExact` |
| `OwnKeys` | `AcceptedOnOwnKeys` |
| `HeaderAtHome` | `HeaderStaysHome` |
| `WithdrawnKeys` | `WithdrawnKeysExpire` |

* `FeedServer`. While the set rests, what the client has is where the selected rows
  begin, the page at hand goes on from there (`PrefixGot`), and the name it follows is
  still its dataset's (`NameHeld`). What is left of `$top` is what it has not
  got (`BudgetKept`), whether the set rests or not. A response without a link then means
  that the rows or the budget are at an end: an empty page does not stop the client
  early.
* `Records`. The trail of each row is what requests did to it (`RowsExact`): a write
  without an audit row moves only what the trail does not speak of (`Confined`). And a transaction that
  has written and is to read back finds its entry there, or the row is one
  that its reader can no longer find (`ReadingInv`). The proof covers every table at once: of
  `Catalogue` it uses that references lead to tables (`ForeignKeys`).
* `FeedCredentials`. A row's key is one of its own (`KeysInv`), and what was good since
  the request arrived contains what is good now (`LookupInv`).
* `Egress`. A header belongs to a source whose endpoint covers the URL asked for first,
  and the URL at hand is a permitted one (`FetchInv`); what was sent matches the hops
  (`SentInv`).
* `TokenAuth`. A document cached in the bucket of now holds only keys published in it
  (`CacheInv`).

### Model-checked only

Liveness (`ClaimsEnd`, `VerifiedResolved`, `RunsEnd`, `CatchesUp`,
`ScheduledTakenUp`, `DueFires`, `QueuesDrain`) is out of the prover's reach. So is
most of `RulesAgree`: it compares recursive functions, folds and sorts with what they are
to compute, which is induction over data, and the prover cannot instantiate the theorems
for it. Three of its parts have none and are proved (`SchemaRules` above).
`WorkerLoop` has no safety property; its promise is `QueuesDrain`.

## 10. Disagreements found

Places where the code does not do what a comment, document or test says, each with an
entry in `PROJECT.json` that quotes both. Four have a run whose counterexample
shows it:

1. `ingest_skip_moving`: paging by `$skip` over a source that changes skips a row,
   and the watermark passes it.
2. `pii_decision_lost`: a scan's UPDATE names the flag by id alone and overwrites
   a decision taken since its SELECT.
3. `suggestion_unbound`: a suggestion whose field was deleted and found again
   between two reconciliations stays in the inbox without its field.
4. `erased_resurrected`: a page that read the suppression list before the erasure
   committed stores the subject again, and no later step removes it.

The others came up while reading and modelling:

5. The reaper that `executor.py` names as the backstop for orphaned requests runs
   only in the worker, which the default deployment does not start
   (`ClaimsEnd` fails with `Worker = FALSE`).
6. The from-status in a rejection's audit row is read before the guarded
   update and may be old.
7. Pages of a late ingest executor are not idempotent with respect to newer
   payloads.
8. Of two overlapping ingest runs the slower sets the watermark back. This costs
   a re-read, not rows.
9. A run is no longer "a single bounded fetch", so the reaper's cutoff can strike
   a live one.
10. The default flow of a process is given to every gateway of the document.
11. The flows of a cycle do not raise ranks, so a process with a loop has flows
    that run backwards.
12. The connection test's handler for unavailable secrets is never reached.
13. Set names of the feed are not stable: deleting a data set renames a later one.
14. A data set's deletion removes its retention policies without audit rows.
15. `AuditService.write` has no caller; the table it writes has the decisions and
    scrubs of PII flags only.
16. ISO timestamps of different precision or zone do not compare as text. This costs
    re-reads, not rows.
17. DELETE removes completed deletion requests and those in execution, which the
    architecture document says are blocked with a 409.
18. PUT changes status, generation and subject of a deletion request without a guard,
    where the same document has every transition guarded.
19. Rescoring takes the greater of two scores and starts from the last score, so
    the demotions it documents are undone or kept.
20. The reaper of sequence runs judges whether an executor died by a time that nothing
    touches from the claim on: a run made by hand and executed later than the cutoff
    after its creation is failed at once, and its sequence may start again beside it.
21. Discovery, scans, stewards, the reconciler, rescoring, accept and dismiss write
    audited tables without a row in `audit_logs`.
22. Landed rows and sampled ones are not read alike: blank labels, booleans, long
    labels, numbers that are not plain digits, rounding, ties and time axes come out
    differently, so the same rows may give two charts.

## 11. What is not modelled

* *Ingest.* Data sets without a cursor field (a full read every time), and entries
  that are not objects. Suppression is in `ErasedSubjects`, on its own.
* *The generic routes on the rows of a protocol.* An administrator may create rows with
  any columns, set any and delete any. Of `deletion_requests` all of it is part of
  the protocol, of `runs` and `sequence_runs` POST and DELETE are. The rest is in
  `Records` only, not what it does to the protocol: PUT on `runs` and `sequence_runs`;
  POST, PUT and DELETE on `retention_runs` (`api/retention_runs.py:35-92`; sweeps of the
  program are created by `api/retention_sweeps.py`), `sequence_run_steps`,
  `delta_cursors`, `ingested_records`, `field_profiles`, `suppression_entries`,
  `pii_flags`, `suggestions` and `audit_logs`.
  Nor is it modelled that `attempts` is a 32-bit INTEGER, which only a PUT could bring
  near its end.
* *Order and batches.* The worker takes the oldest row first; the models take any.
  Batches of the reapers are in `WorkerLoop` only. A deletion that failed is queued at
  once, without delay, so the worker may spend all its attempts in one pass.
* *The ingest run of a sequence's step* is a free choice of outcome; that a worker
  may take the run first is one of the ways to the failure outcome.
* *Rescoring* as a transaction (its arithmetic is in `SchemaRules`), `discovery_runs`,
  `last_used_at` of keys, `$select`, the feed's service and metadata documents, composite
  foreign keys between process tables.
* *Data.* Hashing is injective, signatures hold for the key that made them; regular
  expressions and word lists are predicates; HTTP, XML, JSON, the classification of
  hosts, and logs are left out. An `$orderby` over a decimal NaN, which raises, is no
  value of the feed's model.
* *An `EgressError` of no listed kind* in a connection test escapes and leaves the
  old status; that is in `TestStatus`, the 500 it becomes is not.
* The components listed as `not_modelled` in `PROJECT.json`, with the reason
  there: the workflow engine's client, the application's wiring, the browser client,
  scripts.

## 12. Plan

The system's parts are all modelled; what is left, in this order:

1. The generic routes of section 11, as in `DeletionRequests`: PUT on `runs` and
   `sequence_runs`, then all three on `retention_runs`.

Runs are kept few: a module that is extended gets its new properties in the
run it has, and the instances of one module that differ only in a constant are merged
where one run can quantify over that constant, as `ingest_safety` does for the
two kinds of source, `sequence_runs` for the two kinds of deployment, and
`governance` and `services` for whole components.
