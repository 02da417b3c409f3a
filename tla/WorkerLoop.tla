----------------------------- MODULE WorkerLoop -----------------------------
(***************************************************************************)
(* One pass of the worker after another (app/worker/loop.py main_loop):    *)
(* four reapers, the schedule, three queues to drain, and a sleep.  The    *)
(* jobs themselves are modelled in Ingest, DeletionRequests and            *)
(* SequenceRuns; here a job is claimed, ends or is left where it is, and   *)
(* the question is whether the loop gets round to everything.              *)
(***************************************************************************)
EXTENDS Naturals, FiniteSets

CONSTANTS
  Items,        \* rows of the three queues
  Kind,         \* item -> "run", "deletion" or "scheduled"
  MaxAttempts,  \* DELETION_MAX_ATTEMPTS: 5
  Batch,        \* STALE_SEQUENCE_RUN_BATCH: 50
  MaxFaults,    \* bound: exceptions, crashes and failed jobs
  MaxStops,     \* bound: stop signals
  None

VARIABLES
  status,       \* item -> "new", "due", "queued", "marked", "claimed" or "done"
  stale,        \* rows held by nobody whose updated_at is before the cutoff
  attempts,     \* of deletion requests
  pc,           \* where the worker is
  job,          \* the item in its hands
  stop,         \* stop["requested"]
  faults, stops

loopVars == <<status, stale, attempts, pc, job, stop, faults, stops>>

Statuses == {"new", "due", "queued", "marked", "claimed", "done"}
Places == {"reapRuns", "reapDeletions", "reapStranded", "reapSequences", "fire",
           "scheduled", "runs", "deletions", "sleep", "stopped"}

LoopConstantsOK ==
  /\ Kind \in [Items -> {"run", "deletion", "scheduled"}]
  /\ {MaxAttempts, Batch} \subseteq Nat \ {0} /\ {MaxFaults, MaxStops} \subseteq Nat

LoopInit ==
  /\ status = [i \in Items |-> "new"] /\ stale = {} /\ attempts = [i \in Items |-> 0]
  /\ pc = "stopped" /\ job = None /\ stop = FALSE /\ faults = 0 /\ stops = 0

-----------------------------------------------------------------------------
(* The order of a pass, and what each exception handler covers.            *)

After(place) ==
  CASE place = "reapRuns"      -> "reapDeletions"
    [] place = "reapDeletions" -> "reapStranded"
    [] place = "reapStranded"  -> "reapSequences"
    [] place = "reapSequences" -> "fire"
    [] place = "fire"          -> "scheduled"
    [] place = "scheduled"     -> "runs"
    [] place = "runs"          -> "deletions"
    [] place = "deletions"     -> "sleep"
    [] place = "sleep"         -> "reapRuns"

\* These have a handler of their own; an exception anywhere else ends the pass.
Guarded == {"reapStranded", "reapSequences", "fire", "scheduled"}

-----------------------------------------------------------------------------
(* Seeded faults: each stands in for the definition named.                 *)

HandedBackRunning(kind) ==                                           \* HandedBack
  {i \in stale : Kind[i] = kind /\ status[i] = "claimed"}

-----------------------------------------------------------------------------
(* Reapers, and the schedule.                                              *)

\* Stale rows of a kind that are running; a scheduled run may also be marked only.
Abandoned(kind) == {i \in stale : Kind[i] = kind /\ status[i] = "claimed"}
HandedBack(kind) == {i \in stale : Kind[i] = kind /\ status[i] = "marked"}

MoveOn(items, to) ==
  /\ status' = [i \in Items |-> IF i \in items THEN to ELSE status[i]]
  /\ stale' = stale \ items
  /\ pc' = After(pc)
  /\ UNCHANGED <<job, stop, faults, stops>>

ReapStaleRunning ==
  pc = "reapRuns" /\ MoveOn(Abandoned("run"), "done") /\ UNCHANGED attempts

ReapStaleExecuting ==
  /\ pc = "reapDeletions" /\ MoveOn(Abandoned("deletion"), "queued")
  /\ attempts' = [i \in Items |-> attempts[i] + IF i \in Abandoned("deletion") THEN 1 ELSE 0]

ReapStrandedScheduled ==
  pc = "reapStranded" /\ MoveOn(HandedBack("scheduled"), "queued") /\ UNCHANGED attempts

\* In bounded passes.
ReapStaleSequenceRuns ==
  /\ pc = "reapSequences"
  /\ LET old == Abandoned("scheduled") IN
     \E reaped \in SUBSET old :
       /\ Cardinality(reaped) = IF Cardinality(old) < Batch THEN Cardinality(old) ELSE Batch
       /\ MoveOn(reaped, "done")
  /\ UNCHANGED attempts

FireDueSequences ==
  /\ pc = "fire" /\ MoveOn({i \in Items : status[i] = "due"}, "queued")
  /\ UNCHANGED attempts

-----------------------------------------------------------------------------
(* Draining a queue.                                                       *)

KindAt == CASE pc = "scheduled" -> "scheduled" [] pc = "runs" -> "run"
            [] pc = "deletions" -> "deletion" [] OTHER -> None

Claimable ==
  {i \in Items : /\ Kind[i] = KindAt /\ status[i] = "queued"
                 /\ Kind[i] = "deletion" => attempts[i] < MaxAttempts}

\* A scheduled run is marked first; its execution claims it in a transaction of its own.
ClaimNext ==
  /\ job = None /\ ~stop
  /\ \E i \in Claimable :
       /\ job' = i
       /\ status' = [status EXCEPT ![i] = IF Kind[i] = "scheduled" THEN "marked" ELSE "claimed"]
  /\ UNCHANGED <<stale, attempts, pc, stop, faults, stops>>

Drained ==
  /\ pc \in {"scheduled", "runs", "deletions"} /\ job = None
  /\ stop \/ Claimable = {}
  /\ pc' = After(pc)
  /\ UNCHANGED <<status, stale, attempts, job, stop, faults, stops>>

ExecuteScheduled ==
  /\ job # None /\ status[job] = "marked"
  /\ status' = [status EXCEPT ![job] = "claimed"]
  /\ UNCHANGED <<stale, attempts, pc, job, stop, faults, stops>>

JobEnds ==
  /\ job # None /\ status[job] = "claimed"
  /\ status' = [status EXCEPT ![job] = "done"] /\ job' = None
  /\ UNCHANGED <<stale, attempts, pc, stop, faults, stops>>

\* execute_deletion puts a request that failed back itself.
DeletionFails ==
  /\ job # None /\ Kind[job] = "deletion" /\ faults < MaxFaults /\ faults' = faults + 1
  /\ status' = [status EXCEPT ![job] = "queued"]
  /\ attempts' = [attempts EXCEPT ![job] = @ + 1] /\ job' = None
  /\ UNCHANGED <<stale, pc, stop, stops>>

\* An exception: a row in hand stays claimed, or marked, with nobody behind it.  Those
\* of a scheduled run are caught next to it, and the draining goes on.
Raise ==
  /\ pc \notin {"sleep", "stopped"} /\ faults < MaxFaults /\ faults' = faults + 1
  /\ job' = None
  /\ pc' = CASE pc = "scheduled" /\ job # None -> pc
             [] pc \in Guarded /\ job = None -> After(pc)
             [] OTHER -> "sleep"
  /\ UNCHANGED <<status, stale, attempts, stop, stops>>

-----------------------------------------------------------------------------
(* Sleeping, stopping, starting.                                           *)

Sleep ==
  /\ pc = "sleep" /\ pc' = IF stop THEN "stopped" ELSE After(pc)
  /\ UNCHANGED <<status, stale, attempts, job, stop, faults, stops>>

StopSignal ==
  /\ pc # "stopped" /\ ~stop /\ stops < MaxStops /\ stops' = stops + 1 /\ stop' = TRUE
  /\ UNCHANGED <<status, stale, attempts, pc, job, faults>>

Crash ==
  /\ pc # "stopped" /\ faults < MaxFaults /\ faults' = faults + 1
  /\ pc' = "stopped" /\ job' = None
  /\ UNCHANGED <<status, stale, attempts, stop, stops>>

Start ==
  /\ pc = "stopped" /\ pc' = "reapRuns" /\ stop' = FALSE
  /\ UNCHANGED <<status, stale, attempts, job, faults, stops>>

-----------------------------------------------------------------------------
(* What comes from outside: work, and the passing of time.                 *)

Arrive(i) ==
  /\ status[i] = "new"
  /\ status' = [status EXCEPT ![i] = IF Kind[i] = "scheduled" THEN "due" ELSE "queued"]
  /\ UNCHANGED <<stale, attempts, pc, job, stop, faults, stops>>

Age(i) ==
  /\ status[i] \in {"marked", "claimed"} /\ job # i /\ i \notin stale
  /\ stale' = stale \cup {i}
  /\ UNCHANGED <<status, attempts, pc, job, stop, faults, stops>>

WorkerStep ==
  \/ ReapStaleRunning \/ ReapStaleExecuting \/ ReapStrandedScheduled
  \/ ReapStaleSequenceRuns \/ FireDueSequences
  \/ ClaimNext \/ Drained \/ ExecuteScheduled \/ JobEnds \/ Sleep

LoopNext ==
  \/ WorkerStep \/ DeletionFails \/ Raise \/ StopSignal \/ Crash \/ Start
  \/ \E i \in Items : Arrive(i) \/ Age(i)

LoopFairness ==
  /\ WF_loopVars(WorkerStep) /\ WF_loopVars(Start)
  /\ WF_loopVars(\E i \in Items : Age(i))

LoopSpec == LoopInit /\ [][LoopNext]_loopVars /\ LoopFairness

-----------------------------------------------------------------------------
(* Properties.                                                             *)

LoopTypeOK ==
  /\ status \in [Items -> Statuses] /\ stale \subseteq Items
  /\ attempts \in [Items -> 0 .. MaxAttempts] /\ pc \in Places
  /\ job \in Items \cup {None} /\ stop \in BOOLEAN
  /\ faults \in 0 .. MaxFaults /\ stops \in 0 .. MaxStops

\* Through exceptions in any step, crashes and stop signals, once the work stops
\* arriving every queue drains: nothing stays due, waiting, marked or running, save for
\* deletion requests at the cap, which wait for triage.
QueuesDrain ==
  <>[](\A i \in Items :
         \/ status[i] \in {"new", "done"}
         \/ Kind[i] = "deletion" /\ status[i] = "queued" /\ attempts[i] = MaxAttempts)

=============================================================================
