---------------------------- MODULE SequencePlan ----------------------------
(***************************************************************************)
(* What a load sequence promises, without claims, markers, executors or    *)
(* rows of steps: a run waits, starts once and alone in its sequence, does *)
(* its steps in order and each of them once, and ends - completed only     *)
(* when all are done - unless it is withdrawn.  A run whose failure is not *)
(* final, which is settled at its start, may yet go on after it failed.    *)
(***************************************************************************)
EXTENDS Naturals

CONSTANTS Sequences, Length, Runs, NoSequence

VARIABLES
  phase,   \* of every run: none, waiting, started, completed, failed, withdrawn
  of,      \* the sequence it is a run of
  done,    \* the steps it has done
  final    \* whether its failure is final

pvars == <<phase, of, done, final>>

PInit ==
  /\ phase = [r \in Runs |-> "none"]
  /\ of = [r \in Runs |-> NoSequence]
  /\ done = [r \in Runs |-> {}]
  /\ final \in [Runs -> BOOLEAN]

\* A withdrawn run ends like one that is not, only that nobody is told.
Going(r) == phase[r] \in {"started", "withdrawn"} \/ (phase[r] = "failed" /\ ~final[r])

Ask(r, s) ==
  /\ phase[r] = "none" /\ done[r] = {}
  /\ phase' = [phase EXCEPT ![r] = "waiting"]
  /\ of' = [of EXCEPT ![r] = s]
  /\ UNCHANGED <<done, final>>

Start(r) ==
  /\ phase[r] = "waiting" /\ done[r] = {}
  /\ \A q \in Runs : phase[q] = "started" => of[q] # of[r]
  /\ phase' = [phase EXCEPT ![r] = "started"]
  /\ \E b \in BOOLEAN : final' = [final EXCEPT ![r] = b]
  /\ UNCHANGED <<of, done>>

\* The next step.
Advance(r) ==
  /\ Going(r)
  /\ \E i \in 1 .. Length[of[r]] :
       /\ done[r] = 1 .. i - 1
       /\ done' = [done EXCEPT ![r] = 1 .. i]
  /\ UNCHANGED <<phase, of, final>>

Complete(r) ==
  /\ Going(r) /\ phase[r] # "withdrawn"
  /\ done[r] = 1 .. Length[of[r]]
  /\ phase' = [phase EXCEPT ![r] = "completed"]
  /\ UNCHANGED <<of, done, final>>

Fail(r) ==
  /\ phase[r] = "started"
  /\ phase' = [phase EXCEPT ![r] = "failed"]
  /\ UNCHANGED <<of, done, final>>

Withdraw(r) ==
  /\ phase[r] \notin {"none", "withdrawn"}
  /\ phase' = [phase EXCEPT ![r] = "withdrawn"]
  /\ \E b \in BOOLEAN : final' = [final EXCEPT ![r] = b]
  /\ UNCHANGED <<of, done>>

\* The id of a run that is over is used again.
Reuse(r) ==
  /\ phase[r] \in {"completed", "failed", "withdrawn"}
  /\ phase' = [phase EXCEPT ![r] = "none"]
  /\ of' = [of EXCEPT ![r] = NoSequence]
  /\ done' = [done EXCEPT ![r] = {}]
  /\ \E b \in BOOLEAN : final' = [final EXCEPT ![r] = b]

PNext ==
  \E r \in Runs :
    \/ \E s \in Sequences : Ask(r, s)
    \/ Start(r) \/ Advance(r) \/ Complete(r) \/ Fail(r) \/ Withdraw(r) \/ Reuse(r)

PSpec == PInit /\ [][PNext]_pvars
=============================================================================
