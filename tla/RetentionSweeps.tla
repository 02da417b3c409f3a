-------------------------- MODULE RetentionSweeps ---------------------------
(***************************************************************************)
(* Retention sweeps of one policy (app/retention/service.py, planner.py,   *)
(* reaper.py, app/api/retention_sweeps.py): a request writes a run, claims *)
(* it, reads the policy, and deletes what has expired in one transaction   *)
(* with the record of it.  The policy and the rows change meanwhile.       *)
(***************************************************************************)
EXTENDS Naturals, FiniteSets

CONSTANTS
  Rows,        \* ids of rows of the sweepable tables
  Arriving,    \* the tables of them that rows arrive in
  Datasets,
  Runs,        \* ids of retention_runs
  Policies,    \* what the administrator may make of the policy
  Null         \* NULL, or no policy, or no predicate

VARIABLES
  policy,   \* the retention policy, or Null
  row,      \* the rows that retention may delete
  run,      \* retention_runs, and how far its executor is
  purger    \* history: the run whose sweep deleted the row

sweepVars == <<policy, row, run, purger>>

\* The closed allowlist: whether a table has dataset_id, and whether its rows are
\* also a queue, so that pending and running ones must stay.
Sweepable == [connection_tests |-> [dataset |-> FALSE, queue |-> FALSE],
              runs             |-> [dataset |-> FALSE, queue |-> TRUE],
              discovery_runs   |-> [dataset |-> FALSE, queue |-> TRUE],
              ingested_records |-> [dataset |-> TRUE,  queue |-> FALSE],
              field_profiles   |-> [dataset |-> FALSE, queue |-> FALSE]]
Tables == DOMAIN Sweepable

ASSUME SweepsConstantsOK ==
  /\ IsFiniteSet(Rows) /\ Arriving \subseteq Tables /\ Null \notin Datasets \cup Runs \cup Policies
  /\ \A p \in Policies : p.dataset \in Datasets \cup {Null} /\ p.enabled \in BOOLEAN

Stored   == [table : Tables \cup {"none"}, dataset : Datasets \cup {Null},
             expired : BOOLEAN, live : BOOLEAN]
Nothing  == [table |-> "none", dataset |-> Null, expired |-> FALSE, live |-> FALSE]
Where    == [table : Tables, dataset : Datasets \cup {Null}]
SweepRun == [status : {"absent", "pending", "running", "succeeded", "failed"}, purged : Nat,
             where : Where \cup {Null}, working : BOOLEAN, reaped : BOOLEAN]
NoSweep  == [status |-> "absent", purged |-> 0, where |-> Null, working |-> FALSE,
             reaped |-> FALSE]

SweepsTypeOK ==
  /\ policy \in Policies \cup {Null}
  /\ row \in [Rows -> Stored]
  /\ run \in [Runs -> SweepRun]
  /\ purger \in [Rows -> Runs \cup {Null}]

SweepsInit ==
  /\ policy = Null
  /\ row = [x \in Rows |-> Nothing]
  /\ run = [r \in Runs |-> NoSweep]
  /\ purger = [x \in Rows |-> Null]

-----------------------------------------------------------------------------
Holds(w, x) == /\ row[x].table = w.table /\ row[x].expired
               /\ w.dataset # Null => row[x].dataset = w.dataset

\* plan_sweep and the preconditions: the predicate of the DELETE, if there is one.
Plannable(p) == p # Null /\ p.enabled /\ p.period > 0
Supported(p) ==
  /\ p.table \in Tables
  /\ p.action = "purge"
  /\ p.scope = "dataset" => Sweepable[p.table].dataset /\ p.dataset # Null
\* WhereOf that binds the scope in place of the dataset.
WhereScope(p) == [table |-> p.table, dataset |-> IF p.scope = "dataset" THEN p.scope ELSE Null]

WhereOf(p) == [table |-> p.table, dataset |-> IF p.scope = "dataset" THEN p.dataset ELSE Null]

-----------------------------------------------------------------------------
(* Seeded faults: each stands in for the definition named.                 *)

\* Sweep that commits the DELETE first and leaves its record for later.
SweepApart(r) ==
  /\ run[r].working /\ run[r].where # Null
  /\ LET gone == {x \in Rows : Holds(run[r].where, x) /\ ~row[x].live} IN
     /\ row' = [x \in Rows |-> IF x \in gone THEN Nothing ELSE row[x]]
     /\ purger' = [x \in Rows |-> IF x \in gone THEN r ELSE purger[x]]
  /\ UNCHANGED <<policy, run>>

-----------------------------------------------------------------------------
(* The administrator, and the components that own the rows.                *)

AlterPolicy(p) ==
  /\ policy' = p
  /\ UNCHANGED <<row, run, purger>>

Arrive(x, t, d) ==
  /\ row[x] = Nothing /\ purger[x] = Null
  /\ Sweepable[t].dataset \/ d = Null
  /\ row' = [row EXCEPT ![x] = [table |-> t, dataset |-> d, expired |-> FALSE,
                                live |-> Sweepable[t].queue]]
  /\ UNCHANGED <<policy, run, purger>>

Expire(x) ==
  /\ row[x] # Nothing /\ ~row[x].expired
  /\ row' = [row EXCEPT ![x].expired = TRUE]
  /\ UNCHANGED <<policy, run, purger>>

\* A queued row ends, or a PUT puts an ended one back on the queue.
TurnLive(x) ==
  /\ row[x] # Nothing /\ Sweepable[row[x].table].queue
  /\ row' = [row EXCEPT ![x].live = ~@]
  /\ UNCHANGED <<policy, run, purger>>

-----------------------------------------------------------------------------
(* A sweep.                                                                *)

\* The request: 404 without a policy.
CreatePendingSweep(r) ==
  /\ policy # Null /\ run[r].status = "absent"
  /\ run' = [run EXCEPT ![r].status = "pending"]
  /\ UNCHANGED <<policy, row, purger>>

Claim(r) ==
  /\ run[r].status = "pending"
  /\ run' = [run EXCEPT ![r].status = "running", ![r].working = TRUE]
  /\ UNCHANGED <<policy, row, purger>>

\* An UPDATE guarded by the status: it does nothing to a reaped run.
Finished(r, status, purged) ==
  [run EXCEPT ![r].working = FALSE, ![r].where = Null,
              ![r].status = IF @ = "running" THEN status ELSE @,
              ![r].purged = IF run[r].status = "running" THEN purged ELSE @]

\* Reading the policy ends the run unless there is something to delete: a disabled
\* policy is a success, everything else that cannot be swept a failure.
ReadPolicy(r) ==
  /\ run[r].working /\ run[r].where = Null
  /\ run' = CASE Plannable(policy) /\ Supported(policy) ->
                   [run EXCEPT ![r].where = WhereOf(policy)]
              [] policy # Null /\ ~policy.enabled -> Finished(r, "succeeded", 0)
              [] OTHER -> Finished(r, "failed", 0)
  /\ UNCHANGED <<policy, row, purger>>

\* What the DELETE takes: judged on the rows as they are then.
Expired(w) ==
  {x \in Rows : Holds(w, x) /\ (Sweepable[w.table].queue => ~row[x].live)}

\* The DELETE and its record, in one transaction.
Sweep(r) ==
  /\ run[r].working /\ run[r].where # Null
  /\ LET gone == Expired(run[r].where) IN
     /\ row' = [x \in Rows |-> IF x \in gone THEN Nothing ELSE row[x]]
     /\ purger' = [x \in Rows |-> IF x \in gone THEN r ELSE purger[x]]
     /\ run' = Finished(r, "succeeded", Cardinality(gone))
  /\ UNCHANGED policy

\* A database error: the transaction is undone and the run is failed.
SweepFails(r) ==
  /\ run[r].working
  /\ run' = Finished(r, "failed", 0)
  /\ UNCHANGED <<policy, row, purger>>

\* The process dies, or the failure itself cannot be recorded.
Crash(r) ==
  /\ run[r].working
  /\ run' = [run EXCEPT ![r].working = FALSE, ![r].where = Null]
  /\ UNCHANGED <<policy, row, purger>>

\* reap_stale_sweeps, which no part of the program calls: an operator may.
Reap(r) ==
  /\ run[r].status = "running"
  /\ run' = [run EXCEPT ![r].status = "failed", ![r].reaped = TRUE]
  /\ UNCHANGED <<policy, row, purger>>

-----------------------------------------------------------------------------
SweepsNext ==
  \/ \E p \in Policies \cup {Null} : AlterPolicy(p)
  \/ \E x \in Rows : Expire(x) \/ TurnLive(x)
  \/ \E x \in Rows, t \in Arriving, d \in Datasets \cup {Null} : Arrive(x, t, d)
  \/ \E r \in Runs : \/ CreatePendingSweep(r) \/ Claim(r) \/ ReadPolicy(r) \/ Sweep(r)
                     \/ SweepFails(r) \/ Crash(r) \/ Reap(r)

SweepsSpec == SweepsInit /\ [][SweepsNext]_sweepVars

-----------------------------------------------------------------------------
(* Properties.                                                             *)

\* No row is gone without a record of it: unless it was reaped, the run that deleted a
\* row has succeeded, and it counts exactly the rows it deleted.
PurgeRecorded ==
  \A r \in Runs :
    LET purged == {x \in Rows : purger[x] = r} IN
    /\ purged # {} => run[r].status = "succeeded" \/ run[r].reaped
    /\ run[r].status = "succeeded" => run[r].purged = Cardinality(purged)

=============================================================================
