---------------------------- MODULE SequenceRuns ----------------------------
(***************************************************************************)
(* Load sequences, their schedule and their runs (app/worker/scheduling.py,*)
(* worker/scheduled_execution.py, services/sequence_execution_service.py,  *)
(* the two sequence reapers of worker/loop.py).                            *)
(*                                                                         *)
(* A sequence_runs row is created by an admin (status NULL from the UI) or *)
(* by the schedule (pending), marked by a worker, claimed pending ->       *)
(* running, and executed step by step: every sequence_run_steps row is     *)
(* inserted, set running, and set success or failed in transactions of its *)
(* own around an ingest run.  Neither the final update of the run nor the  *)
(* updates of its steps look at what a reaper did meanwhile.               *)
(***************************************************************************)
EXTENDS Naturals, FiniteSets

CONSTANTS
  Sequences,    \* load_sequences rows with a recognised, enabled cadence
  Length,       \* how many steps each sequence has
  MaxLength,    \* bound on Length
  Runs,         \* ids of sequence_runs rows
  Workers,      \* worker processes
  ApiThreads,   \* API threads that may serve POST .../execute
  NoRun,        \* "no run at hand", and the sequence of a row that is not there
  Patience,     \* which deployments: TRUE if the reapers' cutoffs outlast what an
                \* executor does between its claim and its end, FALSE if they do not
  MaxFaults     \* bound: crashes and failed writes

ASSUME ConstantsOK ==
  /\ MaxLength \in Nat /\ Length \in [Sequences -> 0 .. MaxLength]
  /\ IsFiniteSet(Runs) /\ IsFiniteSet(Sequences) /\ NoRun \notin Runs
  /\ Workers \cap ApiThreads = {}
  /\ Patience \subseteq BOOLEAN /\ MaxFaults \in Nat

VARIABLES
  run,       \* sequence_runs: status ("absent": no such row; "null": NULL),
             \* sequence, whether by schedule, whether started_at is set, and
             \* whether it was claimed so long after updated_at that the cutoff
             \* is over before its execution is
  step,      \* sequence_run_steps.status by run and order_index ("none": no row)
  due,       \* the cadence interval since last_fired_at is over
  actor,     \* program state of every worker and API thread
  patient,   \* external: the kind of deployment, fixed
  faults     \* faults so far

vars == <<run, step, due, actor, patient, faults>>

Actors    == Workers \cup ApiThreads
Positions == 1 .. MaxLength

Status     == {"absent", "null", "pending", "running", "completed", "failed", "deleted"}
StepStatus == {"none", "pending", "running", "success", "failed", "skipped"}

\* Where an actor is: nothing to do; about to read the run, to claim it, to read
\* its steps; to insert the step's row, to set it running, in the ingest run; to
\* record the step's success or failure; to insert the skipped rows; to close
\* the run as completed or as failed.
PC == {"idle", "read", "claim", "claimed", "insert", "start", "ingest",
       "success", "failure", "skip", "complete", "fail"}

Run   == [status : Status, seq : Sequences \cup {NoRun}, scheduled : BOOLEAN, marked : BOOLEAN,
          late : BOOLEAN]
Actor == [pc : PC, run : Runs \cup {NoRun}, at : Nat]

NewRow(status, s, scheduled) ==
  [status |-> status, seq |-> s, scheduled |-> scheduled, marked |-> FALSE, late |-> FALSE]
NoRow == NewRow("absent", NoRun, FALSE)
Idle  == [pc |-> "idle", run |-> NoRun, at |-> 0]

TypeOK ==
  /\ run \in [Runs -> Run]
  /\ step \in [Runs -> [Positions -> StepStatus]]
  /\ due \in [Sequences -> BOOLEAN]
  /\ actor \in [Actors -> Actor]
  /\ patient \in Patience
  /\ faults \in Nat

Init ==
  /\ run = [r \in Runs |-> NoRow]
  /\ step = [r \in Runs |-> [i \in Positions |-> "none"]]
  /\ due = [s \in Sequences |-> TRUE]
  /\ actor = [e \in Actors |-> Idle]
  /\ patient \in Patience
  /\ faults = 0

-----------------------------------------------------------------------------
Working == {e \in Actors : actor[e].pc # "idle"}
HeldBy(r) == {e \in Working : actor[e].run = r}
Executing(e) == actor[e].pc \notin {"idle", "read", "claim"}

\* The cutoff, counted from updated_at, outlasts the executor of the run.
Timely(r) == patient /\ ~run[r].late

\* What the reapers take for dead.  They look at updated_at, which a worker's mark
\* refreshes, but neither a claim nor a step: a live executor is stale where the
\* cutoffs are short, and also where its run was claimed late.
Stale(r) == Timely(r) => \A e \in HeldBy(r) : ~Executing(e) /\ e \notin Workers

SetRun(r, status) == run' = [run EXCEPT ![r].status = status]
SetStep(r, i, status) == step' = [step EXCEPT ![r][i] = status]
Become(e, x) == actor' = [actor EXCEPT ![e] = x]
Go(e, pc) == Become(e, [actor[e] EXCEPT !.pc = pc])

external == <<patient>>

-----------------------------------------------------------------------------
(* Seeded faults.  No action uses these: each stands in for the definition *)
(* named, one at a time, to show that a property notices the bug.          *)

OpenOrRunning(r) == run[r].status \in {"null", "pending", "running"}    \* Open
ActivePending(r) == run[r].status = "pending"                           \* Active
ActiveOrNull(r)  == run[r].status \in {"null", "pending", "running"}    \* Active
StrandedRunning(r) == run[r].status = "running" /\ run[r].scheduled      \* Stranded
StaleUnlessOpen(r) == run[r].status \in {"running", "completed"}         \* StaleRunning
StaleScheduled(r) == run[r].status = "running" /\ run[r].scheduled       \* StaleRunning

\* RecordSuccess in the words of the run.
SuccessAsCompleted(e) ==
  LET x    == actor[e]
      more == x.at < Length[run[x.run].seq]
  IN
  /\ x.pc = "success"
  /\ SetStep(x.run, x.at, "completed")
  /\ Become(e, [x EXCEPT !.pc = IF more THEN "insert" ELSE "complete",
                         !.at = IF more THEN @ + 1 ELSE @])
  /\ UNCHANGED <<run, due, external, faults>>

\* RecordFailure that goes on with the next step.
FailAndGoOn(e) ==
  LET x == actor[e]
      s == run[x.run].seq
  IN
  /\ x.pc = "failure"
  /\ SetStep(x.run, x.at, "failed")
  /\ Become(e, [x EXCEPT !.pc = IF x.at < Length[s] THEN "insert" ELSE "fail",
                         !.at = IF x.at < Length[s] THEN @ + 1 ELSE @])
  /\ UNCHANGED <<run, due, external, faults>>

-----------------------------------------------------------------------------
(* The rows.                                                               *)

\* COALESCE(status, 'pending') = 'pending'.
Open(r) == run[r].status \in {"null", "pending"}

\* The rows the partial unique index uq_sequence_runs_sequence_id_partial covers.
Active(r)   == run[r].status \in {"pending", "running"}
ActiveOf(s) == {r \in Runs : Active(r) /\ run[r].seq = s}

Terminal(r) == run[r].status \in {"completed", "failed"}

\* What the two reapers look for.
Stranded(r) == Open(r) /\ run[r].scheduled /\ run[r].marked
StaleRunning(r) == run[r].status = "running"

-----------------------------------------------------------------------------
(* Requests and the schedule.                                              *)

\* POST /api/sequence-runs by an admin: status NULL (the UI leaves it out) or
\* 'pending', which the unique index admits once per sequence.  Bound: the model
\* keeps as many unused ids as the schedule may need.
CreateRun(r, s, status) ==
  /\ run[r].status = "absent"
  /\ status = "pending" => ActiveOf(s) = {}
  /\ Cardinality({q \in Runs : run[q].status = "absent"}) > Cardinality(Sequences)
  /\ run' = [run EXCEPT ![r] = NewRow(status, s, FALSE)]
  /\ UNCHANGED <<step, due, actor, external, faults>>

\* DELETE /api/sequence-runs/{id}, in any status; its step rows stay.  (Its
\* executor goes on with the sequence it read before.)
DeleteRun(r) ==
  /\ run[r].status \notin {"absent", "deleted"}
  /\ run' = [run EXCEPT ![r] = NewRow("deleted", @.seq, FALSE)]
  /\ UNCHANGED <<step, due, actor, external, faults>>

\* A run that is over and that nobody executes makes room for a later one: the
\* model's own way to have runs without end.  Whoever is about to read or claim
\* it would be turned away.
Forget(r) ==
  /\ Terminal(r) \/ run[r].status = "deleted"
  /\ \A e \in HeldBy(r) : ~Executing(e)
  /\ run' = [run EXCEPT ![r] = NoRow]
  /\ step' = [step EXCEPT ![r] = [i \in Positions |-> "none"]]
  /\ actor' = [e \in Actors |-> IF e \in HeldBy(r) THEN Idle ELSE actor[e]]
  /\ UNCHANGED <<due, external, faults>>

\* External: time passes, is_due becomes true.
BecomeDue(s) ==
  /\ ~due[s]
  /\ due' = [due EXCEPT ![s] = TRUE]
  /\ UNCHANGED <<run, step, actor, external, faults>>

\* fire_due_sequences_once, for one sequence: the locked row, the look for an
\* active run, the insert and last_fired_at commit together or not at all.
Fire(s, r) ==
  /\ due[s]
  /\ ActiveOf(s) = {}
  /\ run[r].status = "absent"
  /\ run' = [run EXCEPT ![r] = NewRow("pending", s, TRUE)]
  /\ due' = [due EXCEPT ![s] = FALSE]
  /\ UNCHANGED <<step, actor, external, faults>>

\* execute_scheduled_run_once: started_at is the marker, status stays pending.
MarkScheduled(e, r) ==
  /\ e \in Workers /\ actor[e].pc = "idle"
  /\ Open(r) /\ run[r].scheduled /\ ~run[r].marked
  /\ run' = [run EXCEPT ![r].marked = TRUE]
  /\ Become(e, [pc |-> "read", run |-> r, at |-> 0])
  /\ UNCHANGED <<step, due, external, faults>>

\* POST /api/sequence-runs/{id}/execute, for any row.
RequestExecute(e, r) ==
  /\ e \in ApiThreads /\ actor[e].pc = "idle"
  /\ run[r].status \notin {"absent", "deleted"}
  /\ Become(e, [pc |-> "read", run |-> r, at |-> 0])
  /\ UNCHANGED <<run, step, due, external, faults>>

-----------------------------------------------------------------------------
(* execute_sequence_run.                                                   *)

\* The first read: 404 or 409 unless the run is there and open.
ReadRun(e) ==
  LET r == actor[e].run IN
  /\ actor[e].pc = "read"
  /\ IF Open(r) THEN Go(e, "claim") ELSE Become(e, Idle)
  /\ UNCHANGED <<run, step, due, external, faults>>

\* The claim.  A run with status NULL enters the unique index only here: with
\* another active run of the sequence the update raises and the row stays NULL.  It
\* leaves updated_at alone: a worker has refreshed that with its mark, but what an
\* admin has executed may be of any age (which makes no difference where the cutoffs
\* are short anyway).
ClaimRun(e) ==
  LET r == actor[e].run IN
  /\ actor[e].pc = "claim"
  /\ IF Open(r) /\ ActiveOf(run[r].seq) \subseteq {r}
     THEN \E late \in BOOLEAN :
            /\ late => patient /\ e \in ApiThreads
            /\ run' = [run EXCEPT ![r] = [@ EXCEPT !.status = "running", !.marked = TRUE,
                                                   !.late = late]]
            /\ Go(e, "claimed")
     ELSE /\ Become(e, Idle)
          /\ UNCHANGED run
  /\ UNCHANGED <<step, due, external, faults>>

\* The steps, ordered; a sequence without any is completed at once.
ReadSteps(e) ==
  LET x == actor[e] IN
  /\ x.pc = "claimed"
  /\ Become(e, [x EXCEPT !.pc = IF Length[run[x.run].seq] = 0 THEN "complete" ELSE "insert",
                         !.at = 1])
  /\ UNCHANGED <<run, step, due, external, faults>>

\* The step's row, as pending; UNIQUE(run_id, step_id).
InsertStep(e) ==
  LET x == actor[e] IN
  /\ x.pc = "insert"
  /\ step[x.run][x.at] = "none"
  /\ SetStep(x.run, x.at, "pending")
  /\ Go(e, "start")
  /\ UNCHANGED <<run, due, external, faults>>

\* Then as running, by id, whatever it is by now.
StartStep(e) ==
  LET x == actor[e] IN
  /\ x.pc = "start"
  /\ SetStep(x.run, x.at, "running")
  /\ Go(e, "ingest")
  /\ UNCHANGED <<run, due, external, faults>>

\* start_run: a succeeded body, or anything else.
RunPipeline(e) ==
  /\ actor[e].pc = "ingest"
  /\ \/ Go(e, "success")
     \/ Go(e, "failure")
  /\ UNCHANGED <<run, step, due, external, faults>>

\* The step's success, by id; on to the next step, or to the run's end.
RecordSuccess(e) ==
  LET x    == actor[e]
      more == x.at < Length[run[x.run].seq]
  IN
  /\ x.pc = "success"
  /\ SetStep(x.run, x.at, "success")
  /\ Become(e, [x EXCEPT !.pc = IF more THEN "insert" ELSE "complete",
                         !.at = IF more THEN @ + 1 ELSE @])
  /\ UNCHANGED <<run, due, external, faults>>

\* Recording the success fails: inside the try, so the step counts as failed.
SuccessLost(e) ==
  /\ actor[e].pc = "success"
  /\ faults < MaxFaults
  /\ faults' = faults + 1
  /\ Go(e, "failure")
  /\ UNCHANGED <<run, step, due, external>>

\* The step's failure, by id.
RecordFailure(e) ==
  LET x == actor[e] IN
  /\ x.pc = "failure"
  /\ SetStep(x.run, x.at, "failed")
  /\ Go(e, IF x.at < Length[run[x.run].seq] THEN "skip" ELSE "fail")
  /\ UNCHANGED <<run, due, external, faults>>

\* One row per remaining step.
SkipStep(e) ==
  LET x == actor[e] IN
  /\ x.pc = "skip"
  /\ step[x.run][x.at + 1] = "none"
  /\ SetStep(x.run, x.at + 1, "skipped")
  /\ Become(e, [x EXCEPT !.pc = IF x.at + 1 < Length[run[x.run].seq] THEN "skip" ELSE "fail",
                         !.at = @ + 1])
  /\ UNCHANGED <<run, due, external, faults>>

\* The final update of the run, by id alone; nothing to update if it was deleted.
CloseRun(e) ==
  LET x == actor[e]
      r == x.run
  IN
  /\ x.pc \in {"complete", "fail"}
  /\ IF run[r].status = "deleted" THEN UNCHANGED run
     ELSE SetRun(r, IF x.pc = "complete" THEN "completed" ELSE "failed")
  /\ Become(e, Idle)
  /\ UNCHANGED <<step, due, external, faults>>

\* The process dies, or a write outside the try fails and the exception leaves
\* everything as it is.
Crash(e) ==
  /\ actor[e].pc # "idle"
  /\ faults < MaxFaults
  /\ faults' = faults + 1
  /\ Become(e, Idle)
  /\ UNCHANGED <<run, step, due, external>>

-----------------------------------------------------------------------------
(* The reapers.                                                            *)

\* reap_stranded_scheduled: marked, but not claimed within the cutoff.
ReapStranded(r) ==
  /\ Stranded(r)
  /\ Stale(r)
  /\ run' = [run EXCEPT ![r].marked = FALSE]
  /\ UNCHANGED <<step, due, actor, external, faults>>

\* reap_stale_sequence_runs, for one run: with its unfinished steps, in one
\* transaction.  The claim does not touch updated_at, nor do the steps.
ReapStaleRun(r) ==
  /\ StaleRunning(r)
  /\ Stale(r)
  /\ SetRun(r, "failed")
  /\ step' = [step EXCEPT ![r] =
                [i \in Positions |-> IF @[i] \in {"running", "pending"} THEN "failed" ELSE @[i]]]
  /\ UNCHANGED <<due, actor, external, faults>>

-----------------------------------------------------------------------------
Execute(e) ==
  \/ ReadRun(e) \/ ClaimRun(e) \/ ReadSteps(e)
  \/ InsertStep(e) \/ StartStep(e) \/ RunPipeline(e) \/ RecordSuccess(e)
  \/ RecordFailure(e) \/ SkipStep(e) \/ CloseRun(e)

Next ==
  \/ \E r \in Runs, s \in Sequences :
       CreateRun(r, s, "null") \/ CreateRun(r, s, "pending") \/ Fire(s, r)
  \/ \E s \in Sequences : BecomeDue(s)
  \/ \E r \in Runs : DeleteRun(r) \/ Forget(r) \/ ReapStranded(r) \/ ReapStaleRun(r)
  \/ \E e \in Actors, r \in Runs : MarkScheduled(e, r) \/ RequestExecute(e, r)
  \/ \E e \in Actors : Execute(e) \/ SuccessLost(e) \/ Crash(e)

Spec == Init /\ [][Next]_vars

\* Workers keep polling and reaping, and a live executor goes on.  Nobody has to
\* execute a run that was created by hand.
Fairness ==
  /\ \A e \in Actors : WF_vars(Execute(e))
  /\ \A s \in Sequences : WF_vars(\E r \in Runs : Fire(s, r))
  /\ \A r \in Runs :
       /\ WF_vars(\E e \in Workers : MarkScheduled(e, r))
       /\ WF_vars(ReapStranded(r) \/ ReapStaleRun(r))
       /\ WF_vars(Forget(r))

FairSpec == Spec /\ Fairness

-----------------------------------------------------------------------------
(* Properties.                                                             *)

\* A run is executed by one actor only, though workers mark it, admins request
\* it, and a stranded one is handed out again.
OneExecutor ==
  \A d, e \in Actors :
    Executing(d) /\ Executing(e) /\ actor[d].run = actor[e].run => d = e

\* What the steps say fits what the run says: a step begins only after all earlier ones
\* succeeded, whatever a reaper does to the run in between; a completed run has every
\* step done, even one that was reaped and closed again by its executor; and a run whose
\* cutoff outlasts its executor, once over and out of hands, leaves no step behind that
\* looks unfinished.
StepsFit ==
  \A r \in Runs :
    /\ \A j \in Positions :
         step[r][j] \in {"pending", "running", "success"} =>
           \A i \in 1 .. j - 1 : step[r][i] = "success"
    /\ run[r].status = "completed" =>
         \A i \in 1 .. Length[run[r].seq] : step[r][i] = "success"
    /\ (Timely(r) /\ Terminal(r) /\ HeldBy(r) = {}) =>
         \A i \in Positions : step[r][i] \notin {"pending", "running"}

\* No two executors work on runs of one sequence, unless the cutoff of one falls into its
\* execution, be it that cutoffs are short or that the run was claimed late, or an admin
\* deleted the row of one.
SequenceExclusive ==
  \A d, e \in Actors :
    LET q == actor[d].run
        r == actor[e].run
    IN Executing(d) /\ Executing(e) /\ Timely(q) /\ Timely(r)
       /\ "deleted" \notin {run[q].status, run[r].status}
       /\ run[q].seq = run[r].seq => d = e

\* A finished run whose cutoff outlasts its executor keeps its outcome.
FinalStatus ==
  [][\A r \in Runs : Terminal(r) /\ Timely(r) =>
       run'[r].status \in {run[r].status, "deleted", "absent"}]_vars

\* How a run stands in the plan of its sequence.
PhaseOf(r) ==
  CASE run[r].status = "absent" -> "none"
    [] run[r].status \in {"null", "pending"} -> "waiting"
    [] run[r].status = "running" -> "started"
    [] run[r].status = "deleted" -> "withdrawn"
    [] OTHER -> run[r].status
Succeeded(r) == {i \in Positions : step[r][i] = "success"}

Plan == INSTANCE SequencePlan WITH
  phase <- [r \in Runs |-> PhaseOf(r)],
  of    <- [r \in Runs |-> run[r].seq],
  done  <- [r \in Runs |-> Succeeded(r)],
  final <- [r \in Runs |-> Timely(r)],
  NoSequence <- NoRun

\* Whoever marks, claims, reaps, deletes or crashes: a run starts once and alone in its
\* sequence, does its steps in order and once, and is completed only with all of them done;
\* nothing happens after its end to a run whose cutoff outlasts its executor.
KeepsToPlan == Plan!PSpec

\* A running run does not stay so for ever, whoever dies.
RunsEnd == \A r \in Runs : []<>(run[r].status # "running")

\* A scheduled run does not stay pending for ever, though its worker may die
\* between marking and claiming it.
ScheduledTakenUp ==
  \A r \in Runs : []<>~(run[r].status = "pending" /\ run[r].scheduled)

\* A due sequence fires, unless a run created by hand stands in its way.
DueFires ==
  \A s \in Sequences :
    []<>(\/ ~due[s]
         \/ \E r \in Runs : /\ run[r].status \in {"pending", "running"}
                            /\ run[r].seq = s /\ ~run[r].scheduled)
=============================================================================
