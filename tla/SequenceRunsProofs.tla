------------------------- MODULE SequenceRunsProofs -------------------------
(***************************************************************************)
(* Proofs about SequenceRuns, for any sets of sequences, runs, workers and *)
(* API threads, sequences of any length, both kinds of deployment and any  *)
(* number of faults.  The inductive invariant is IInv: rows and their      *)
(* holders (RowInv, HeldInv), who may execute what (OneExecutor, StatusInv,*)
(* IndexInv), and how far the steps of a run are (StepInv, ProgressInv).   *)
(***************************************************************************)
EXTENDS SequenceRuns, TLAPS

-----------------------------------------------------------------------------
(* The inductive invariant.                                                *)

\* A row that is there belongs to a sequence; one that is not has not been claimed.
RowInv ==
  \A r \in Runs :
    /\ run[r].status # "absent" => run[r].seq \in Sequences
    /\ run[r].status = "absent" => ~run[r].late

\* Whoever is at work has a run at hand whose row was there.
HeldInv ==
  \A e \in Working : actor[e].run \in Runs /\ run[actor[e].run].status # "absent"

\* An executor's run has been claimed; no reaper has failed it if its cutoff outlasts
\* the executor.
StatusInv ==
  \A e \in Actors : Executing(e) =>
    /\ run[actor[e].run].status \in {"running", "failed", "deleted"}
    /\ Timely(actor[e].run) => run[actor[e].run].status # "failed"

\* The partial unique index.
IndexInv ==
  \A q, r \in Runs : Active(q) /\ Active(r) /\ run[q].seq = run[r].seq => q = r

\* The first i steps succeeded; those after i have no row; none looks unfinished.
Done(r, i)      == \A j \in Positions : j <= i => step[r][j] = "success"
Untouched(r, i) == \A j \in Positions : j > i => step[r][j] = "none"
Settled(r)      == \A j \in Positions : step[r][j] \notin {"pending", "running"}

\* A step begins after all earlier ones succeeded.
Ordered(r) ==
  \A j \in Positions : step[r][j] \in {"pending", "running", "success"} => Done(r, j - 1)

\* The steps of a run against its status.
Fit(r) ==
  /\ Ordered(r)
  /\ run[r].status \in {"absent", "null", "pending"} => Untouched(r, 0)
  /\ run[r].status = "completed" => Done(r, Length[run[r].seq])
  /\ Timely(r) /\ Terminal(r) => Settled(r)

\* The steps of a run against what its executor is about to do.  A reaper may have
\* failed the step that the executor is at.
Progress(e) ==
  LET x == actor[e]
      r == x.run
      n == Length[run[r].seq]
  IN
  /\ x.pc = "claimed" => Untouched(r, 0)
  /\ x.pc \in {"insert", "start", "ingest", "success", "failure"} =>
       x.at \in 1 .. n /\ Done(r, x.at - 1) /\ Untouched(r, x.at)
  /\ x.pc = "insert" => step[r][x.at] = "none"
  /\ x.pc = "start" => step[r][x.at] \in {"pending", "failed"}
  /\ x.pc \in {"ingest", "success", "failure"} => step[r][x.at] \in {"running", "failed"}
  /\ x.pc = "skip" => x.at \in 1 .. n - 1 /\ Settled(r) /\ Untouched(r, x.at)
  /\ x.pc = "complete" => Done(r, n) /\ Untouched(r, n)
  /\ x.pc = "fail" => Settled(r)

StepInv == \A r \in Runs : Fit(r)
ProgressInv == \A e \in Actors : Executing(e) => Progress(e)

IInv == /\ TypeOK /\ RowInv /\ HeldInv
        /\ OneExecutor /\ StatusInv /\ IndexInv
        /\ StepInv /\ ProgressInv

-----------------------------------------------------------------------------
\* The values rows and actors are set to have their types.
LEMMA ValueTypes == NoRow \in Run /\ Idle \in Actor
  BY DEF NoRow, NewRow, Idle, Run, Actor, Status, PC

\* The fields of a row, from the type of `run`, and the length of its sequence.
LEMMA RunType ==
  ASSUME TypeOK, RowInv, NEW r \in Runs
  PROVE  /\ run[r] \in Run
         /\ run[r].status \in Status
         /\ run[r].seq \in Sequences \cup {NoRun}
         /\ run[r].scheduled \in BOOLEAN
         /\ run[r].marked \in BOOLEAN
         /\ run[r].late \in BOOLEAN
         /\ run[r].status # "absent" =>
              run[r].seq \in Sequences /\ Length[run[r].seq] \in 0 .. MaxLength
<1>1. run[r] \in Run
  BY DEF TypeOK
<1>2. run[r].status # "absent" => run[r].seq \in Sequences
  BY DEF RowInv
<1> QED BY <1>1, <1>2, ConstantsOK DEF Run

\* The fields of an actor, from the type of `actor`.
LEMMA ActorType ==
  ASSUME TypeOK, NEW e \in Actors
  PROVE  /\ actor[e] \in Actor
         /\ actor[e].pc \in PC
         /\ actor[e].run \in Runs \cup {NoRun}
         /\ actor[e].at \in Nat
  BY DEF TypeOK, Actor

\* What an actor at work holds.
LEMMA HeldRun ==
  ASSUME HeldInv, NEW e \in Actors, actor[e].pc # "idle"
  PROVE  actor[e].run \in Runs /\ run[actor[e].run].status # "absent"
  BY DEF HeldInv, Working

\* MaxLength bounds positions.
LEMMA Bounds == MaxLength \in Nat /\ Positions = 1 .. MaxLength
  BY ConstantsOK DEF Positions

-----------------------------------------------------------------------------
(* Types and holders.                                                      *)

\* The initial state is well typed, and nobody is at work.
LEMMA TypeInit == Init => TypeOK /\ RowInv /\ HeldInv
<1> SUFFICES ASSUME Init PROVE TypeOK /\ RowInv /\ HeldInv
  OBVIOUS
<1>1. TypeOK
  BY ValueTypes DEF Init, TypeOK, StepStatus
<1>2. RowInv /\ HeldInv
  BY DEF Init, RowInv, HeldInv, Working, Idle, NoRow, NewRow
<1> QED BY <1>1, <1>2

\* An actor that moves on, or puts its run down, keeps the types; so do its writes.
LEMMA MoveType ==
  ASSUME TypeOK, RowInv, HeldInv,
         NEW e \in Actors, actor[e].pc # "idle",
         NEW x \in Actor, x = Idle \/ x.run = actor[e].run, Become(e, x),
         run' = run \/ \E y \in Run : /\ run' = [run EXCEPT ![actor[e].run] = y]
                                      /\ y.seq = run[actor[e].run].seq
                                      /\ y.status # "absent",
         step' \in [Runs -> [Positions -> StepStatus]],
         UNCHANGED <<due, external>>, faults' \in Nat
  PROVE  TypeOK' /\ RowInv' /\ HeldInv'
<1>1. actor[e].run \in Runs /\ run[actor[e].run].status # "absent"
  BY HeldRun
<1>2. TypeOK'
  BY <1>1 DEF TypeOK, Become, external
<1>3. \A r \in Runs : /\ run'[r].seq = run[r].seq
                      /\ run[r].status # "absent" => run'[r].status # "absent"
                      /\ run'[r].status # "absent" => run[r].status # "absent"
                      /\ run'[r].status = "absent" => run'[r] = run[r]
  BY <1>1 DEF TypeOK
<1>4. RowInv'
  BY <1>3 DEF RowInv
<1>5. \A d \in Actors : d # e => actor'[d] = actor[d]
  BY DEF Become, TypeOK
<1>6. actor'[e] = x
  BY DEF Become, TypeOK
<1>7. HeldInv'
  BY <1>1, <1>3, <1>5, <1>6 DEF HeldInv, Working, Idle
<1> QED BY <1>2, <1>4, <1>7

\* A write to one step of one run.
LEMMA SetStepType ==
  ASSUME TypeOK, NEW r \in Runs, NEW i, NEW s \in StepStatus, SetStep(r, i, s)
  PROVE  step' \in [Runs -> [Positions -> StepStatus]]
  BY DEF TypeOK, SetStep

\* Every step of the API, the schedule, the executors and the reapers keeps the
\* types, the rows' sequences and the holders.
LEMMA TypeStep ==
  ASSUME TypeOK, RowInv, HeldInv, [Next]_vars
  PROVE  TypeOK' /\ RowInv' /\ HeldInv'
<1>1. ASSUME NEW r \in Runs, NEW s \in Sequences, NEW status \in {"null", "pending"},
             CreateRun(r, s, status)
      PROVE  TypeOK' /\ RowInv' /\ HeldInv'
  <2>1. NewRow(status, s, FALSE) \in Run
    BY DEF NewRow, Run, Status
  <2>2. TypeOK' /\ RowInv'
    BY <1>1, <2>1 DEF CreateRun, NewRow, TypeOK, RowInv, external
  <2>3. HeldInv'
    BY <1>1 DEF CreateRun, TypeOK, HeldInv, Working
  <2> QED BY <2>2, <2>3
<1>2. ASSUME NEW r \in Runs, NEW s \in Sequences, Fire(s, r)
      PROVE  TypeOK' /\ RowInv' /\ HeldInv'
  <2>1. NewRow("pending", s, TRUE) \in Run
    BY DEF NewRow, Run, Status
  <2>2. TypeOK' /\ RowInv'
    BY <1>2, <2>1 DEF Fire, NewRow, TypeOK, RowInv, external
  <2>3. HeldInv'
    BY <1>2 DEF Fire, TypeOK, HeldInv, Working
  <2> QED BY <2>2, <2>3
<1>3. ASSUME NEW s \in Sequences, BecomeDue(s)
      PROVE  TypeOK' /\ RowInv' /\ HeldInv'
  BY <1>3 DEF BecomeDue, TypeOK, RowInv, HeldInv, Working, external
<1>4. ASSUME NEW r \in Runs, DeleteRun(r)
      PROVE  TypeOK' /\ RowInv' /\ HeldInv'
  <2>1. NewRow("deleted", run[r].seq, FALSE) \in Run
    BY RunType DEF NewRow, Run, Status
  <2>2. TypeOK' /\ RowInv'
    BY <1>4, <2>1, RunType DEF DeleteRun, NewRow, TypeOK, RowInv, external
  <2>3. HeldInv'
    BY <1>4, RunType DEF DeleteRun, NewRow, TypeOK, HeldInv, Working
  <2> QED BY <2>2, <2>3
<1>5. ASSUME NEW r \in Runs, Forget(r)
      PROVE  TypeOK' /\ RowInv' /\ HeldInv'
  <2>1. TypeOK'
    BY <1>5, ValueTypes DEF Forget, TypeOK, StepStatus, external
  <2>2. RowInv'
    BY <1>5 DEF Forget, TypeOK, RowInv, NoRow, NewRow
  <2>3. HeldInv'
    BY <1>5 DEF Forget, TypeOK, HeldInv, HeldBy, Working, Idle
  <2> QED BY <2>1, <2>2, <2>3
<1>6. ASSUME NEW r \in Runs, ReapStranded(r)
      PROVE  TypeOK' /\ RowInv' /\ HeldInv'
  <2>1. [run[r] EXCEPT !.marked = FALSE] \in Run
    BY RunType DEF Run
  <2>2. TypeOK' /\ RowInv'
    BY <1>6, <2>1, RunType DEF ReapStranded, TypeOK, RowInv, Run, external
  <2>3. HeldInv'
    BY <1>6, RunType DEF ReapStranded, TypeOK, HeldInv, Working, Run
  <2> QED BY <2>2, <2>3
<1>7. ASSUME NEW r \in Runs, ReapStaleRun(r)
      PROVE  TypeOK' /\ RowInv' /\ HeldInv'
  <2>1. [run[r] EXCEPT !.status = "failed"] \in Run
    BY RunType DEF Run, Status
  <2>2. step' \in [Runs -> [Positions -> StepStatus]]
    BY <1>7 DEF ReapStaleRun, TypeOK, StepStatus
  <2>3. TypeOK' /\ RowInv'
    BY <1>7, <2>1, <2>2, RunType
    DEF ReapStaleRun, StaleRunning, SetRun, TypeOK, RowInv, Run, external
  <2>4. HeldInv'
    BY <1>7, RunType DEF ReapStaleRun, SetRun, TypeOK, HeldInv, Working, Run
  <2> QED BY <2>3, <2>4
<1>8. ASSUME NEW e \in Actors, NEW r \in Runs, MarkScheduled(e, r)
      PROVE  TypeOK' /\ RowInv' /\ HeldInv'
  <2>1. [pc |-> "read", run |-> r, at |-> 0] \in Actor
    BY DEF Actor, PC
  <2>2. [run[r] EXCEPT !.marked = TRUE] \in Run
    BY RunType DEF Run
  <2>3. TypeOK' /\ RowInv'
    BY <1>8, <2>1, <2>2, RunType DEF MarkScheduled, Become, TypeOK, RowInv, Run, external
  <2>4. \A q \in Runs : run'[q].status = run[q].status
    BY <1>8, RunType DEF MarkScheduled, TypeOK, Run
  <2>5. \A d \in Actors : d # e => actor'[d] = actor[d]
    BY <1>8 DEF MarkScheduled, Become, TypeOK
  <2>6. actor'[e].run = r /\ run[r].status # "absent"
    BY <1>8 DEF MarkScheduled, Become, TypeOK, Open
  <2>7. HeldInv'
    BY <2>4, <2>5, <2>6 DEF HeldInv, Working
  <2> QED BY <2>3, <2>7
<1>9. ASSUME NEW e \in Actors, NEW r \in Runs, RequestExecute(e, r)
      PROVE  TypeOK' /\ RowInv' /\ HeldInv'
  <2>1. [pc |-> "read", run |-> r, at |-> 0] \in Actor
    BY DEF Actor, PC
  <2>2. TypeOK' /\ RowInv'
    BY <1>9, <2>1 DEF RequestExecute, Become, TypeOK, RowInv, external
  <2>3. HeldInv'
    BY <1>9 DEF RequestExecute, Become, TypeOK, HeldInv, Working
  <2> QED BY <2>2, <2>3
<1>10. ASSUME NEW e \in Actors, Execute(e) \/ SuccessLost(e) \/ Crash(e)
       PROVE  TypeOK' /\ RowInv' /\ HeldInv'
  <2>0. actor[e].pc # "idle"
    BY <1>10 DEF Execute, ReadRun, ClaimRun, ReadSteps, InsertStep, StartStep, RunPipeline,
                 RecordSuccess, RecordFailure, SkipStep, CloseRun, SuccessLost, Crash
  <2>1. actor[e] \in Actor /\ actor[e].at \in Nat
    BY ActorType
  <2>2. actor[e].run \in Runs /\ run[actor[e].run].status # "absent"
    BY <2>0, HeldRun
  <2>3. step \in [Runs -> [Positions -> StepStatus]] /\ faults \in Nat /\ Idle \in Actor
    BY ValueTypes DEF TypeOK
  <2>4. \A pc \in PC, at \in Nat :
          [actor[e] EXCEPT !.pc = pc, !.at = at] \in Actor /\ [actor[e] EXCEPT !.pc = pc] \in Actor
    BY <2>1 DEF Actor
  <2>5. \A pc \in PC : [actor[e] EXCEPT !.pc = pc].run = actor[e].run
    BY <2>1 DEF Actor
  <2>6. \A pc \in PC, at \in Nat : [actor[e] EXCEPT !.pc = pc, !.at = at].run = actor[e].run
    BY <2>1 DEF Actor
  <2>7. CASE ReadRun(e)
    <3>1. PICK x \in Actor : (x = Idle \/ x.run = actor[e].run) /\ Become(e, x)
      BY <2>3, <2>4, <2>5, <2>7 DEF ReadRun, Go, PC
    <3> QED BY <2>0, <2>3, <2>7, <3>1, MoveType DEF ReadRun
  <2>8. CASE ClaimRun(e)
    <3>1. PICK x \in Actor : (x = Idle \/ x.run = actor[e].run) /\ Become(e, x)
      BY <2>3, <2>4, <2>5, <2>8 DEF ClaimRun, Go, PC
    <3>2. \A late \in BOOLEAN :
            [run[actor[e].run] EXCEPT !.status = "running", !.marked = TRUE, !.late = late] \in Run
      BY <2>2, RunType DEF Run, Status
    <3>3. run' = run \/ \E y \in Run : /\ run' = [run EXCEPT ![actor[e].run] = y]
                                       /\ y.seq = run[actor[e].run].seq
                                       /\ y.status # "absent"
      <4>1. ASSUME NEW late \in BOOLEAN,
                   run' = [run EXCEPT ![actor[e].run] =
                             [@ EXCEPT !.status = "running", !.marked = TRUE, !.late = late]]
            PROVE  \E y \in Run : /\ run' = [run EXCEPT ![actor[e].run] = y]
                                  /\ y.seq = run[actor[e].run].seq
                                  /\ y.status # "absent"
        <5> DEFINE y == [run[actor[e].run] EXCEPT !.status = "running", !.marked = TRUE,
                                                  !.late = late]
        <5>1. run' = [run EXCEPT ![actor[e].run] = y]
          BY <2>2, <4>1 DEF TypeOK
        <5>2. y.seq = run[actor[e].run].seq /\ y.status # "absent"
          BY <2>2, RunType DEF Run
        <5> HIDE DEF y
        <5> QED BY <3>2, <5>1, <5>2 DEF y
      <4> QED BY <2>8, <4>1 DEF ClaimRun
    <3> QED BY <2>0, <2>3, <2>8, <3>1, <3>3, MoveType DEF ClaimRun
  <2>9. CASE ReadSteps(e)
    <3>1. PICK x \in Actor : x.run = actor[e].run /\ Become(e, x)
      BY <2>4, <2>6, <2>9 DEF ReadSteps, PC
    <3> QED BY <2>0, <2>3, <2>9, <3>1, MoveType DEF ReadSteps
  <2>10. CASE InsertStep(e) \/ StartStep(e) \/ RunPipeline(e) \/ RecordFailure(e)
    <3>1. PICK x \in Actor : x.run = actor[e].run /\ Become(e, x)
      BY <2>4, <2>5, <2>10 DEF InsertStep, StartStep, RunPipeline, RecordFailure, Go, PC
    <3>2. step' \in [Runs -> [Positions -> StepStatus]]
      BY <2>2, <2>3, <2>10, SetStepType
      DEF InsertStep, StartStep, RunPipeline, RecordFailure, StepStatus
    <3> QED BY <2>0, <2>3, <2>10, <3>1, <3>2, MoveType
            DEF InsertStep, StartStep, RunPipeline, RecordFailure
  <2>11. CASE RecordSuccess(e) \/ SkipStep(e)
    <3>1. PICK pc \in PC, at \in Nat : Become(e, [actor[e] EXCEPT !.pc = pc, !.at = at])
      <4>1. CASE RecordSuccess(e)
        <5> DEFINE more == actor[e].at < Length[run[actor[e].run].seq]
        <5>1. (IF more THEN "insert" ELSE "complete") \in PC
              /\ (IF more THEN actor[e].at + 1 ELSE actor[e].at) \in Nat
          BY <2>1 DEF PC
        <5> QED BY <4>1, <5>1 DEF RecordSuccess
      <4>2. CASE SkipStep(e)
        <5> DEFINE more == actor[e].at + 1 < Length[run[actor[e].run].seq]
        <5>1. (IF more THEN "skip" ELSE "fail") \in PC /\ actor[e].at + 1 \in Nat
          BY <2>1 DEF PC
        <5> QED BY <4>2, <5>1 DEF SkipStep
      <4> QED BY <2>11, <4>1, <4>2
    <3>3. [actor[e] EXCEPT !.pc = pc, !.at = at] \in Actor
      BY <2>4
    <3>2. step' \in [Runs -> [Positions -> StepStatus]]
      BY <2>2, <2>11, SetStepType DEF RecordSuccess, SkipStep, StepStatus
    <3> QED BY <2>0, <2>3, <2>6, <2>11, <3>1, <3>2, <3>3, MoveType DEF RecordSuccess, SkipStep
  <2>12. CASE CloseRun(e)
    <3> DEFINE y == [run[actor[e].run] EXCEPT
                       !.status = IF actor[e].pc = "complete" THEN "completed" ELSE "failed"]
    <3>1. y \in Run /\ y.seq = run[actor[e].run].seq /\ y.status # "absent"
      BY <2>2, RunType DEF Run, Status
    <3>2. run' = run \/ run' = [run EXCEPT ![actor[e].run] = y]
      BY <2>2, <2>12 DEF CloseRun, SetRun, TypeOK
    <3> HIDE DEF y
    <3> QED BY <2>0, <2>3, <2>12, <3>1, <3>2, MoveType DEF CloseRun
  <2>13. CASE SuccessLost(e) \/ Crash(e)
    <3>1. PICK x \in Actor : (x = Idle \/ x.run = actor[e].run) /\ Become(e, x)
      BY <2>3, <2>4, <2>5, <2>13 DEF SuccessLost, Crash, Go, PC
    <3> QED BY <2>0, <2>3, <2>13, <3>1, MoveType DEF SuccessLost, Crash
  <2> QED BY <1>10, <2>7, <2>8, <2>9, <2>10, <2>11, <2>12, <2>13 DEF Execute
<1>11. CASE UNCHANGED vars
  BY <1>11 DEF vars, TypeOK, RowInv, HeldInv, Working
<1>12. CASE \E r \in Runs, s \in Sequences :
              CreateRun(r, s, "null") \/ CreateRun(r, s, "pending") \/ Fire(s, r)
  BY <1>1, <1>2, <1>12
<1>13. CASE \E e \in Actors : Execute(e) \/ SuccessLost(e) \/ Crash(e)
  BY <1>10, <1>13
<1> QED
  BY <1>3, <1>4, <1>5, <1>6, <1>7, <1>8, <1>9, <1>11, <1>12, <1>13 DEF Next

-----------------------------------------------------------------------------
(* Who executes what.                                                      *)

\* An executor's run has been claimed, so it is neither open nor completed.
LEMMA ClaimedRun ==
  ASSUME HeldInv, StatusInv, NEW e \in Actors, Executing(e)
  PROVE  /\ actor[e].run \in Runs
         /\ ~Open(actor[e].run)
         /\ run[actor[e].run].status \notin {"absent", "null", "pending", "completed"}
  BY DEF HeldInv, StatusInv, Working, Executing, Open

\* Nobody new executes, and no run in execution changes its status: exclusion stays.
LEMMA NobodyNew ==
  ASSUME OneExecutor, StatusInv, patient' = patient,
         \A e \in Actors : Executing(e)' =>
           /\ Executing(e) /\ actor'[e].run = actor[e].run
           /\ \/ run'[actor[e].run].status = "deleted"
              \/ /\ run'[actor[e].run].late = run[actor[e].run].late
                 /\ \/ run'[actor[e].run].status = run[actor[e].run].status
                    \/ run'[actor[e].run].status = "failed" /\ ~Timely(actor[e].run)
  PROVE  OneExecutor' /\ StatusInv'
<1>1. OneExecutor'
  BY DEF OneExecutor
<1>2. StatusInv'
  BY DEF StatusInv, Timely
<1> QED BY <1>1, <1>2

\* No run becomes active: the index stays unique.
LEMMA NoneActivated ==
  ASSUME IndexInv,
         \A r \in Runs : Active(r)' => Active(r) /\ run'[r].seq = run[r].seq
  PROVE  IndexInv'
  BY DEF IndexInv

\* A run that becomes active has its sequence to itself.
LEMMA OneActivated ==
  ASSUME IndexInv, NEW p \in Runs,
         \A r \in Runs : Active(r)' /\ r # p => Active(r) /\ run'[r].seq = run[r].seq,
         ActiveOf(run'[p].seq) \subseteq {p}
  PROVE  IndexInv'
  BY DEF IndexInv, ActiveOf

\* Creating, firing, claiming and closing runs, deleting and reaping them keep one
\* executor per run, one active run per sequence, and an executor's run claimed.
LEMMA ExclusiveStep ==
  ASSUME TypeOK, RowInv, HeldInv, OneExecutor, StatusInv, IndexInv, [Next]_vars
  PROVE  OneExecutor' /\ StatusInv' /\ IndexInv'
<1>0. \A r \in Runs : run[r] \in Run
  BY DEF TypeOK
<1>1. ASSUME NEW r \in Runs, NEW s \in Sequences, NEW status \in {"null", "pending"},
             CreateRun(r, s, status)
      PROVE  OneExecutor' /\ StatusInv' /\ IndexInv'
  <2>1. OneExecutor' /\ StatusInv'
    <3>1. \A e \in Actors : Executing(e) => actor[e].run # r
      BY <1>1, ClaimedRun DEF CreateRun
    <3>2. \A q \in Runs : q # r => run'[q] = run[q]
      BY <1>1 DEF CreateRun, TypeOK
    <3>3. \A e \in Actors : Executing(e)' => Executing(e)
      BY <1>1 DEF CreateRun, Executing
    <3> QED BY <1>1, <3>1, <3>2, <3>3, ClaimedRun, NobodyNew DEF CreateRun, external
  <2>2. run' = [run EXCEPT ![r] = [status |-> status, seq |-> s, scheduled |-> FALSE,
                                   marked |-> FALSE, late |-> FALSE]]
    BY <1>1 DEF CreateRun, NewRow
  <2>3. CASE status = "null"
    <3>1. \A q \in Runs : Active(q)' => Active(q) /\ run'[q].seq = run[q].seq
      BY <2>2, <2>3 DEF Active, TypeOK
    <3> QED BY <2>1, <3>1, NoneActivated
  <2>4. CASE status = "pending"
    <3>1. \A q \in Runs : Active(q)' /\ q # r => Active(q) /\ run'[q].seq = run[q].seq
      BY <2>2 DEF Active, TypeOK
    <3>2. run'[r].seq = s
      BY <2>2 DEF TypeOK
    <3> QED BY <1>1, <2>1, <2>4, <3>1, <3>2, OneActivated DEF CreateRun
  <2> QED BY <2>3, <2>4
<1>2. ASSUME NEW r \in Runs, NEW s \in Sequences, Fire(s, r)
      PROVE  OneExecutor' /\ StatusInv' /\ IndexInv'
  <2>1. OneExecutor' /\ StatusInv'
    <3>1. \A e \in Actors : Executing(e) => actor[e].run # r
      BY <1>2, ClaimedRun DEF Fire
    <3>2. \A q \in Runs : q # r => run'[q] = run[q]
      BY <1>2 DEF Fire, TypeOK
    <3>3. \A e \in Actors : Executing(e)' => Executing(e)
      BY <1>2 DEF Fire, Executing
    <3> QED BY <1>2, <3>1, <3>2, <3>3, ClaimedRun, NobodyNew DEF Fire, external
  <2>2. \A q \in Runs : Active(q)' /\ q # r => Active(q) /\ run'[q].seq = run[q].seq
    BY <1>2 DEF Fire, Active, TypeOK
  <2>3. run'[r].seq = s
    BY <1>2 DEF Fire, NewRow, TypeOK
  <2> QED BY <1>2, <2>1, <2>2, <2>3, OneActivated DEF Fire
<1>3. ASSUME NEW s \in Sequences, BecomeDue(s)
      PROVE  OneExecutor' /\ StatusInv' /\ IndexInv'
  BY <1>3 DEF BecomeDue, OneExecutor, StatusInv, IndexInv, Executing, Active, Timely, external
<1>4. ASSUME NEW r \in Runs, DeleteRun(r)
      PROVE  OneExecutor' /\ StatusInv' /\ IndexInv'
  <2>1. \A q \in Runs : /\ run'[q].status = "deleted" \/ run'[q] = run[q]
                        /\ run'[q].seq = run[q].seq
    BY <1>0, <1>4 DEF DeleteRun, NewRow, TypeOK
  <2>2. \A e \in Actors : Executing(e)' => Executing(e) /\ actor'[e].run = actor[e].run
    BY <1>4 DEF DeleteRun, Executing
  <2>3. OneExecutor' /\ StatusInv'
    BY <1>4, <2>1, <2>2, ClaimedRun, NobodyNew DEF DeleteRun, external
  <2>4. IndexInv'
    BY <2>1, NoneActivated DEF Active
  <2> QED BY <2>3, <2>4
<1>5. ASSUME NEW r \in Runs, Forget(r)
      PROVE  OneExecutor' /\ StatusInv' /\ IndexInv'
  <2>1. \A q \in Runs : q # r => run'[q] = run[q]
    BY <1>5 DEF Forget, TypeOK
  <2>2. ~Active(r)'
    BY <1>5 DEF Forget, TypeOK, Active, NoRow, NewRow
  <2>3. \A e \in Actors : Executing(e)' =>
          Executing(e) /\ actor'[e].run = actor[e].run /\ actor[e].run # r
    BY <1>5 DEF Forget, TypeOK, Executing, HeldBy, Working, Idle
  <2>4. OneExecutor' /\ StatusInv'
    BY <1>5, <2>1, <2>3, ClaimedRun, NobodyNew DEF Forget, external
  <2>5. IndexInv'
    BY <2>1, <2>2, NoneActivated DEF Active
  <2> QED BY <2>4, <2>5
<1>6. ASSUME NEW r \in Runs, ReapStranded(r)
      PROVE  OneExecutor' /\ StatusInv' /\ IndexInv'
  <2>1. \A q \in Runs : /\ run'[q].status = run[q].status /\ run'[q].seq = run[q].seq
                        /\ run'[q].late = run[q].late
    BY <1>0, <1>6 DEF ReapStranded, TypeOK, Run
  <2>2. OneExecutor' /\ StatusInv'
    BY <1>6, <2>1, ClaimedRun, NobodyNew DEF ReapStranded, Executing, external
  <2>3. IndexInv'
    BY <2>1, NoneActivated DEF Active
  <2> QED BY <2>2, <2>3
<1>7. ASSUME NEW r \in Runs, ReapStaleRun(r)
      PROVE  OneExecutor' /\ StatusInv' /\ IndexInv'
  <2>1. \A q \in Runs : /\ q # r => run'[q] = run[q]
                        /\ run'[q].seq = run[q].seq /\ run'[q].late = run[q].late
    BY <1>0, <1>7 DEF ReapStaleRun, SetRun, TypeOK, Run
  <2>2. run'[r].status = "failed"
    BY <1>0, <1>7 DEF ReapStaleRun, SetRun, TypeOK, Run
  <2>3. \A e \in Actors : Executing(e) => actor[e].run # r \/ ~Timely(r)
    BY <1>7 DEF ReapStaleRun, Stale, HeldBy, Working, Executing
  <2>4. \A e \in Actors : Executing(e)' => Executing(e) /\ actor'[e].run = actor[e].run
    BY <1>7 DEF ReapStaleRun, Executing
  <2>5. OneExecutor' /\ StatusInv'
    BY <1>7, <2>1, <2>2, <2>3, <2>4, ClaimedRun, NobodyNew DEF ReapStaleRun, external
  <2>6. IndexInv'
    BY <2>1, <2>2, NoneActivated DEF Active
  <2> QED BY <2>5, <2>6
<1>8. ASSUME NEW e \in Actors, NEW r \in Runs, MarkScheduled(e, r) \/ RequestExecute(e, r)
      PROVE  OneExecutor' /\ StatusInv' /\ IndexInv'
  <2>1. \A q \in Runs : /\ run'[q].status = run[q].status /\ run'[q].seq = run[q].seq
                        /\ run'[q].late = run[q].late
    BY <1>0, <1>8 DEF MarkScheduled, RequestExecute, TypeOK, Run
  <2>2. \A d \in Actors : Executing(d)' => Executing(d) /\ actor'[d] = actor[d]
    BY <1>8 DEF MarkScheduled, RequestExecute, Become, TypeOK, Executing
  <2>3. patient' = patient
    BY <1>8 DEF MarkScheduled, RequestExecute, external
  <2>4. OneExecutor' /\ StatusInv'
    BY <2>1, <2>2, <2>3, ClaimedRun, NobodyNew
  <2>5. IndexInv'
    BY <2>1, NoneActivated DEF Active
  <2> QED BY <2>4, <2>5
<1>9. ASSUME NEW e \in Actors, ReadRun(e) \/ Crash(e)
      PROVE  OneExecutor' /\ StatusInv' /\ IndexInv'
  <2>1. \A d \in Actors : Executing(d)' => Executing(d) /\ actor'[d] = actor[d]
    BY <1>9, ActorType DEF ReadRun, Crash, Become, Go, TypeOK, Actor, Executing, Idle
  <2>2. run' = run /\ patient' = patient
    BY <1>9 DEF ReadRun, Crash, external
  <2>3. OneExecutor' /\ StatusInv'
    BY <2>1, <2>2, ClaimedRun, NobodyNew
  <2> QED BY <2>2, <2>3, NoneActivated DEF Active
<1>10. ASSUME NEW e \in Actors, ClaimRun(e)
       PROVE  OneExecutor' /\ StatusInv' /\ IndexInv'
  <2> DEFINE r == actor[e].run
  <2>1. r \in Runs
    BY <1>10, HeldRun DEF ClaimRun
  <2>2. CASE ~(Open(r) /\ ActiveOf(run[r].seq) \subseteq {r})
    <3>0. Become(e, Idle)
      BY <1>10, <2>2 DEF ClaimRun
    <3>1. \A d \in Actors : Executing(d)' => Executing(d) /\ actor'[d] = actor[d]
      BY <3>0 DEF Become, TypeOK, Executing, Idle
    <3>2. run' = run /\ patient' = patient
      BY <1>10, <2>2 DEF ClaimRun, external
    <3>3. OneExecutor' /\ StatusInv'
      BY <3>1, <3>2, ClaimedRun, NobodyNew
    <3> QED BY <3>2, <3>3, NoneActivated DEF Active
  <2>3. CASE Open(r) /\ ActiveOf(run[r].seq) \subseteq {r}
    <3>1. PICK late \in BOOLEAN :
            /\ run' = [run EXCEPT ![r] = [@ EXCEPT !.status = "running", !.marked = TRUE,
                                                   !.late = late]]
            /\ patient' = patient
            /\ Go(e, "claimed")
      BY <1>10, <2>3 DEF ClaimRun, external
    <3>2. \A q \in Runs : q # r => run'[q] = run[q]
      BY <2>1, <3>1 DEF TypeOK
    <3>3. run'[r].status = "running" /\ run'[r].seq = run[r].seq
      BY <1>0, <2>1, <3>1 DEF TypeOK, Run
    <3>4. \A d \in Actors : d # e => actor'[d] = actor[d]
      BY <3>1 DEF Go, Become, TypeOK
    <3>5. actor'[e].run = r
      BY <3>1, ActorType DEF Go, Become, TypeOK, Actor
    <3>6. \A d \in Actors : Executing(d) => actor[d].run # r
      BY <2>3, ClaimedRun
    <3>7. OneExecutor'
      BY <3>4, <3>5, <3>6 DEF OneExecutor, Executing
    <3>8. StatusInv'
      <4> SUFFICES ASSUME NEW d \in Actors, Executing(d)'
                   PROVE  /\ run'[actor'[d].run].status \in {"running", "failed", "deleted"}
                          /\ Timely(actor[d].run)' => run'[actor'[d].run].status # "failed"
        BY DEF StatusInv
      <4>1. CASE d = e
        BY <3>3, <3>5, <4>1
      <4>2. CASE d # e
        <5>1. actor'[d] = actor[d] /\ Executing(d)
          BY <3>4, <4>2 DEF Executing
        <5>2. run'[actor'[d].run] = run[actor[d].run]
          BY <3>2, <3>6, <5>1, ClaimedRun
        <5> QED BY <3>1, <5>1, <5>2 DEF StatusInv, Timely
      <4> QED BY <4>1, <4>2
    <3>9. IndexInv'
      BY <2>1, <2>3, <3>2, <3>3, OneActivated DEF Active
    <3> QED BY <3>7, <3>8, <3>9
  <2> QED BY <2>2, <2>3
<1>11. ASSUME NEW e \in Actors,
              \/ ReadSteps(e) \/ InsertStep(e) \/ StartStep(e) \/ RunPipeline(e)
              \/ RecordSuccess(e) \/ SuccessLost(e) \/ RecordFailure(e) \/ SkipStep(e)
       PROVE  OneExecutor' /\ StatusInv' /\ IndexInv'
  <2>1. Executing(e)
    BY <1>11 DEF ReadSteps, InsertStep, StartStep, RunPipeline, RecordSuccess, SuccessLost,
                 RecordFailure, SkipStep, Executing
  <2>2. run' = run /\ patient' = patient
    BY <1>11 DEF ReadSteps, InsertStep, StartStep, RunPipeline, RecordSuccess, SuccessLost,
                 RecordFailure, SkipStep, external
  <2>3. \A d \in Actors : d # e => actor'[d] = actor[d]
    BY <1>11 DEF ReadSteps, InsertStep, StartStep, RunPipeline, RecordSuccess, SuccessLost,
                 RecordFailure, SkipStep, Go, Become, TypeOK
  <2>4. actor'[e].run = actor[e].run
    <3>0. actor[e] \in Actor /\ actor \in [Actors -> Actor]
      BY ActorType DEF TypeOK
    <3>1. CASE ReadSteps(e)
      BY <3>0, <3>1 DEF ReadSteps, Become, Actor
    <3>4. CASE RecordSuccess(e)
      BY <3>0, <3>4 DEF RecordSuccess, Become, Actor
    <3>5. CASE SkipStep(e)
      BY <3>0, <3>5 DEF SkipStep, Become, Actor
    <3>2. CASE InsertStep(e) \/ StartStep(e) \/ RunPipeline(e)
      BY <3>2, ActorType DEF InsertStep, StartStep, RunPipeline, Go, Become, TypeOK, Actor
    <3>3. CASE SuccessLost(e) \/ RecordFailure(e)
      BY <3>3, ActorType DEF SuccessLost, RecordFailure, Go, Become, TypeOK, Actor
    <3> QED BY <1>11, <3>1, <3>2, <3>3, <3>4, <3>5
  <2>5. OneExecutor' /\ StatusInv'
    <3>1. \A d \in Actors : Executing(d)' => Executing(d) /\ actor'[d].run = actor[d].run
      BY <2>1, <2>3, <2>4 DEF Executing
    <3> QED BY <2>2, <3>1, NobodyNew
  <2> QED BY <2>2, <2>5, NoneActivated DEF Active
<1>12. ASSUME NEW e \in Actors, CloseRun(e)
       PROVE  OneExecutor' /\ StatusInv' /\ IndexInv'
  <2>1. Executing(e) /\ patient' = patient
    BY <1>12 DEF CloseRun, Executing, external
  <2>2. PICK r \in Runs : r = actor[e].run
    BY <2>1, ClaimedRun
  <2>3. \A d \in Actors : Executing(d)' =>
          d # e /\ Executing(d) /\ actor'[d] = actor[d]
    BY <1>12 DEF CloseRun, Become, TypeOK, Executing, Idle
  <2>4. \A q \in Runs : /\ q # r => run'[q] = run[q]
                        /\ run'[q].seq = run[q].seq
    BY <1>0, <1>12, <2>2 DEF CloseRun, SetRun, TypeOK, Run
  <2>5. ~Active(r)'
    <3>1. CASE run[r].status = "deleted"
      BY <1>12, <2>2, <3>1 DEF CloseRun, Active
    <3>2. CASE run[r].status # "deleted"
      BY <1>0, <1>12, <2>2, <3>2 DEF CloseRun, SetRun, TypeOK, Run, Active
    <3> QED BY <3>1, <3>2
  <2>6. OneExecutor' /\ StatusInv'
    <3>1. \A d \in Actors : Executing(d)' => actor[d].run # r
      BY <2>1, <2>2, <2>3 DEF OneExecutor
    <3> QED BY <2>1, <2>3, <2>4, <3>1, ClaimedRun, NobodyNew
  <2>7. IndexInv'
    BY <2>4, <2>5, NoneActivated DEF Active
  <2> QED BY <2>6, <2>7
<1>13. CASE UNCHANGED vars
  BY <1>13 DEF vars, OneExecutor, StatusInv, IndexInv, Executing, Active, Timely
<1>14. CASE \E r \in Runs, s \in Sequences :
              CreateRun(r, s, "null") \/ CreateRun(r, s, "pending") \/ Fire(s, r)
  BY <1>1, <1>2, <1>14
<1>15. CASE \E e \in Actors : Execute(e) \/ SuccessLost(e) \/ Crash(e)
  BY <1>9, <1>10, <1>11, <1>12, <1>15 DEF Execute
<1> QED
  BY <1>3, <1>4, <1>5, <1>6, <1>7, <1>8, <1>13, <1>14, <1>15 DEF Next

-----------------------------------------------------------------------------
(* The steps.                                                              *)

\* A run whose steps stay as they are, and which neither becomes open nor finishes.
LEMMA FitKept ==
  ASSUME NEW r \in Runs, Fit(r), patient' = patient, step'[r] = step[r],
         run'[r].status \in {"absent", "null", "pending"} =>
           run[r].status \in {"absent", "null", "pending"},
         run'[r].status = "completed" =>
           run[r].status = "completed" /\ run'[r].seq = run[r].seq,
         (Timely(r) /\ Terminal(r))' => Timely(r) /\ Terminal(r)
  PROVE  Fit(r)'
  BY DEF Fit, Ordered, Done, Untouched, Settled

\* An executor that stands still while the steps of its run do.
LEMMA ProgressKept ==
  ASSUME NEW e \in Actors, Progress(e), actor'[e] = actor[e],
         step'[actor[e].run] = step[actor[e].run],
         run'[actor[e].run].seq = run[actor[e].run].seq
  PROVE  Progress(e)'
  BY ZenonT(40) DEF Progress, Done, Untouched, Settled

\* What an executor works on.
LEMMA AtWork ==
  ASSUME TypeOK, RowInv, HeldInv, StatusInv, StepInv, ProgressInv,
         NEW e \in Actors, Executing(e)
  PROVE  /\ actor[e].run \in Runs
         /\ Fit(actor[e].run) /\ Progress(e)
         /\ actor[e].at \in Nat
         /\ Length[run[actor[e].run].seq] \in 0 .. MaxLength
         /\ run[actor[e].run].status \notin {"absent", "null", "pending", "completed"}
         /\ Timely(actor[e].run) => ~Terminal(actor[e].run)
<1>1. actor[e].run \in Runs /\ run[actor[e].run].status # "absent"
  BY HeldRun DEF Executing
<1>2. Fit(actor[e].run) /\ Progress(e)
  BY <1>1 DEF StepInv, ProgressInv
<1>3. run[actor[e].run].status \notin {"absent", "null", "pending", "completed"}
  BY ClaimedRun
<1>4. Timely(actor[e].run) => ~Terminal(actor[e].run)
  BY <1>3 DEF StatusInv, Terminal
<1>5. actor[e].at \in Nat /\ Length[run[actor[e].run].seq] \in 0 .. MaxLength
  BY <1>1, RunType, ActorType
<1> QED BY <1>1, <1>2, <1>3, <1>4, <1>5

\* While an executor works on its run, all other runs and executors stay as they are.
LEMMA OthersKept ==
  ASSUME HeldInv, OneExecutor, StepInv, ProgressInv, NEW e \in Actors, Executing(e),
         NEW r \in Runs, r = actor[e].run,
         run' = run, patient' = patient,
         \A d \in Actors : d # e => actor'[d] = actor[d],
         \A q \in Runs : q # r => step'[q] = step[q],
         Fit(r)', Executing(e)' => Progress(e)'
  PROVE  StepInv' /\ ProgressInv'
<1>1. StepInv'
  <2>1. ASSUME NEW q \in Runs, q # r
        PROVE  Fit(q)'
    <3>1. Fit(q) /\ step'[q] = step[q]
      BY <2>1 DEF StepInv
    <3>2. run'[q] = run[q] /\ Timely(q)' = Timely(q) /\ Terminal(q)' = Terminal(q)
      BY DEF Timely, Terminal
    <3> QED BY <3>1, <3>2, FitKept
  <2> QED BY <2>1 DEF StepInv
<1>2. ProgressInv'
  <2>1. ASSUME NEW d \in Actors, d # e, Executing(d)'
        PROVE  Progress(d)'
    <3>1. actor'[d] = actor[d] /\ Executing(d)
      BY <2>1 DEF Executing
    <3>2. actor[d].run \in Runs /\ actor[d].run # r
      BY <2>1, <3>1, HeldRun DEF OneExecutor, Executing
    <3> QED BY <3>1, <3>2, ProgressKept DEF ProgressInv
  <2> QED BY <2>1 DEF ProgressInv
<1> QED BY <1>1, <1>2

\* Nobody writes a step, nobody new executes, and runs keep their standing.
LEMMA AllKept ==
  ASSUME StepInv, ProgressInv, step' = step, patient' = patient,
         \A q \in Runs :
           /\ run'[q].status \in {"absent", "null", "pending"} =>
                run[q].status \in {"absent", "null", "pending"}
           /\ run'[q].status = "completed" =>
                run[q].status = "completed" /\ run'[q].seq = run[q].seq
           /\ (Timely(q) /\ Terminal(q))' => Timely(q) /\ Terminal(q),
         \A e \in Actors : Executing(e)' =>
           /\ Executing(e) /\ actor'[e] = actor[e]
           /\ run'[actor[e].run].seq = run[actor[e].run].seq
  PROVE  StepInv' /\ ProgressInv'
<1>1. \A q \in Runs : Fit(q)'
  BY FitKept DEF StepInv
<1>2. \A e \in Actors : Executing(e)' => Progress(e)'
  BY ProgressKept DEF ProgressInv
<1> QED BY <1>1, <1>2 DEF StepInv, ProgressInv

\* A write to one step, and where it leaves the others.
LEMMA Written ==
  ASSUME TypeOK, NEW r \in Runs, NEW i \in Positions, NEW s, SetStep(r, i, s)
  PROVE  /\ step'[r][i] = s
         /\ \A j \in Positions : j # i => step'[r][j] = step[r][j]
         /\ \A q \in Runs : q # r => step'[q] = step[q]
  BY DEF TypeOK, SetStep

\* A write to the first step without a row, or to the one before it, keeps the order if
\* what is written may stand there.
LEMMA WriteKeeps ==
  ASSUME TypeOK, NEW r \in Runs, NEW i \in Positions, NEW s, SetStep(r, i, s),
         Ordered(r), Untouched(r, i),
         s \in {"pending", "running", "success"} => Done(r, i - 1)
  PROVE  /\ Ordered(r)' /\ Untouched(r, i)'
         /\ Done(r, i - 1) => Done(r, i - 1)'
         /\ Done(r, i - 1) /\ s = "success" => Done(r, i)'
<1>1. step'[r][i] = s /\ \A j \in Positions : j # i => step'[r][j] = step[r][j]
  BY Written
<1>2. Positions \subseteq Nat \ {0}
  BY Bounds
<1>3. Untouched(r, i)'
  BY <1>1, <1>2 DEF Untouched
<1>4. \A k \in Nat : k < i /\ Done(r, k) => Done(r, k)'
  BY <1>1, <1>2 DEF Done
<1>5. Done(r, i - 1) /\ s = "success" => Done(r, i)'
  BY <1>1, <1>2 DEF Done
<1>6. Ordered(r)'
  <2>1. ASSUME NEW j \in Positions, step'[r][j] \in {"pending", "running", "success"}
        PROVE  Done(r, j - 1)'
    <3>1. CASE j = i
      BY <1>1, <1>2, <1>4, <2>1, <3>1
    <3>2. CASE j # i
      <4>1. step[r][j] \in {"pending", "running", "success"}
        BY <1>1, <2>1, <3>2
      <4>2. ~(j > i) /\ Done(r, j - 1)
        BY <4>1 DEF Untouched, Ordered
      <4>3. j - 1 \in Nat /\ j - 1 < i
        BY <1>2, <3>2, <4>2
      <4> QED BY <1>4, <4>2, <4>3
    <3> QED BY <3>1, <3>2
  <2> QED BY <2>1 DEF Ordered
<1> QED BY <1>2, <1>3, <1>4, <1>5, <1>6

\* Requests, the schedule, claims, every step of an executor, crashes and reapers keep
\* the steps in line with the run's status and with its executor.
LEMMA StepsStep ==
  ASSUME TypeOK, RowInv, HeldInv, OneExecutor, StatusInv, StepInv, ProgressInv,
         [Next]_vars
  PROVE  StepInv' /\ ProgressInv'
<1>0. \A r \in Runs : run[r] \in Run
  BY DEF TypeOK
<1>1. ASSUME NEW r \in Runs, NEW s \in Sequences, NEW status \in {"null", "pending"},
             CreateRun(r, s, status) \/ Fire(s, r)
      PROVE  StepInv' /\ ProgressInv'
  <2>1. \A q \in Runs : q # r => run'[q] = run[q]
    BY <1>1 DEF CreateRun, Fire, TypeOK
  <2>2. run[r].status = "absent" /\ run'[r].status \in {"null", "pending"}
    BY <1>1 DEF CreateRun, Fire, NewRow, TypeOK
  <2>3. \A e \in Actors : Executing(e)' =>
          Executing(e) /\ actor'[e] = actor[e] /\ actor[e].run \in Runs /\ actor[e].run # r
    BY <1>1, <2>2, ClaimedRun DEF CreateRun, Fire, Executing
  <2>4. step' = step /\ patient' = patient
    BY <1>1 DEF CreateRun, Fire, external
  <2> QED BY <2>1, <2>2, <2>3, <2>4, AllKept DEF Terminal, Timely
<1>2. ASSUME NEW r \in Runs, DeleteRun(r) \/ ReapStranded(r)
      PROVE  StepInv' /\ ProgressInv'
  <2>1. \A q \in Runs :
          /\ \/ run'[q].status = "deleted"
             \/ run'[q].status = run[q].status /\ run'[q].late = run[q].late
          /\ run'[q].seq = run[q].seq
    <3>1. CASE DeleteRun(r)
      BY <1>0, <3>1 DEF DeleteRun, NewRow, TypeOK
    <3>2. CASE ReapStranded(r)
      BY <1>0, <3>2 DEF ReapStranded, TypeOK, Run
    <3> QED BY <1>2, <3>1, <3>2
  <2>2. \A e \in Actors : Executing(e)' => Executing(e) /\ actor'[e] = actor[e]
    BY <1>2 DEF DeleteRun, ReapStranded, Executing
  <2>3. step' = step /\ patient' = patient
    BY <1>2 DEF DeleteRun, ReapStranded, external
  <2> QED BY <2>1, <2>2, <2>3, ClaimedRun, AllKept DEF Terminal, Timely
<1>3. ASSUME NEW s \in Sequences, BecomeDue(s)
      PROVE  StepInv' /\ ProgressInv'
  BY <1>3, AllKept DEF BecomeDue, Executing, external, Terminal, Timely
<1>4. ASSUME NEW r \in Runs, Forget(r)
      PROVE  StepInv' /\ ProgressInv'
  <2>1. \A q \in Runs : q # r => run'[q] = run[q] /\ step'[q] = step[q]
    BY <1>4 DEF Forget, TypeOK
  <2>2. run'[r].status = "absent" /\ patient' = patient
        /\ \A j \in Positions : step'[r][j] = "none"
    BY <1>4 DEF Forget, TypeOK, NoRow, NewRow, external
  <2>3. Fit(r)'
    BY <2>2 DEF Fit, Ordered, Untouched, Settled, Terminal
  <2>4. \A q \in Runs : q # r => Fit(q)'
    BY <2>1, <2>2, FitKept DEF StepInv, Terminal, Timely
  <2>5. \A e \in Actors : Executing(e)' =>
          Executing(e) /\ actor'[e] = actor[e] /\ actor[e].run # r
    BY <1>4 DEF Forget, TypeOK, Executing, HeldBy, Working, Idle
  <2>6. \A e \in Actors : Executing(e)' => Progress(e)'
    BY <2>1, <2>5, ClaimedRun, ProgressKept DEF ProgressInv
  <2> QED BY <2>3, <2>4, <2>6 DEF StepInv, ProgressInv
<1>5. ASSUME NEW r \in Runs, ReapStaleRun(r)
      PROVE  StepInv' /\ ProgressInv'
  <2>1. \A q \in Runs : /\ q # r => run'[q] = run[q] /\ step'[q] = step[q]
                        /\ run'[q].seq = run[q].seq
    BY <1>0, <1>5 DEF ReapStaleRun, SetRun, TypeOK, Run
  <2>2. run'[r].status = "failed" /\ patient' = patient /\ actor' = actor
    BY <1>0, <1>5 DEF ReapStaleRun, SetRun, TypeOK, external
  <2>3. \A j \in Positions :
          step'[r][j] = IF step[r][j] \in {"running", "pending"} THEN "failed" ELSE step[r][j]
    BY <1>5 DEF ReapStaleRun, TypeOK
  <2>4. Fit(r)'
    <3>1. Ordered(r)'
      BY <2>3 DEF StepInv, Fit, Ordered, Done
    <3>2. Settled(r)'
      BY <2>3 DEF Settled
    <3> QED BY <2>2, <3>1, <3>2 DEF Fit
  <2>5. \A q \in Runs : q # r => Fit(q)'
    BY <2>1, <2>2, FitKept DEF StepInv, Terminal, Timely
  <2>6. ASSUME NEW e \in Actors, Executing(e), actor[e].run = r
        PROVE  Progress(e)'
    <3>1. Progress(e)
      BY <2>6 DEF ProgressInv
    <3>2. \A i : Done(r, i) => Done(r, i)'
      BY <2>3 DEF Done
    <3>3. \A i : Untouched(r, i) => Untouched(r, i)'
      BY <2>3 DEF Untouched
    <3>4. Settled(r) => Settled(r)'
      BY <2>3 DEF Settled
    <3>5. Length[run[r].seq] \in 0 .. MaxLength
      BY <2>6, AtWork
    <3>6. \A i \in 1 .. Length[run[r].seq] : i \in Positions
      BY <3>5, Bounds
    <3> QED BY <2>1, <2>2, <2>3, <2>6, <3>1, <3>2, <3>3, <3>4, <3>6 DEF Progress
  <2>7. ASSUME NEW e \in Actors, Executing(e), actor[e].run # r
        PROVE  Progress(e)'
    BY <2>1, <2>2, <2>7, ClaimedRun, ProgressKept DEF ProgressInv
  <2> QED BY <2>2, <2>4, <2>5, <2>6, <2>7 DEF StepInv, ProgressInv, Executing
<1>6. ASSUME NEW e \in Actors, NEW r \in Runs, MarkScheduled(e, r) \/ RequestExecute(e, r)
      PROVE  StepInv' /\ ProgressInv'
  <2>1. \A q \in Runs : /\ run'[q].status = run[q].status /\ run'[q].seq = run[q].seq
                        /\ run'[q].late = run[q].late
    BY <1>0, <1>6 DEF MarkScheduled, RequestExecute, TypeOK, Run
  <2>2. \A d \in Actors : Executing(d)' => Executing(d) /\ actor'[d] = actor[d]
    BY <1>6 DEF MarkScheduled, RequestExecute, Become, TypeOK, Executing
  <2>3. step' = step /\ patient' = patient
    BY <1>6 DEF MarkScheduled, RequestExecute, external
  <2> QED BY <2>1, <2>2, <2>3, ClaimedRun, AllKept DEF Terminal, Timely
<1>7. ASSUME NEW e \in Actors, ReadRun(e) \/ Crash(e)
      PROVE  StepInv' /\ ProgressInv'
  <2>1. \A d \in Actors : Executing(d)' => Executing(d) /\ actor'[d] = actor[d]
    BY <1>7, ActorType DEF ReadRun, Crash, Become, Go, TypeOK, Actor, Executing, Idle
  <2>2. run' = run /\ step' = step /\ patient' = patient
    BY <1>7 DEF ReadRun, Crash, external
  <2> QED BY <2>1, <2>2, ClaimedRun, AllKept DEF Terminal, Timely
<1>8. ASSUME NEW e \in Actors, ClaimRun(e)
      PROVE  StepInv' /\ ProgressInv'
  <2>1. PICK r \in Runs : r = actor[e].run
    BY <1>8, HeldRun DEF ClaimRun
  <2>2. step' = step /\ patient' = patient
    BY <1>8 DEF ClaimRun, external
  <2>3. CASE ~(Open(r) /\ ActiveOf(run[r].seq) \subseteq {r})
    <3>0. Become(e, Idle)
      BY <1>8, <2>1, <2>3 DEF ClaimRun
    <3>1. \A d \in Actors : Executing(d)' => Executing(d) /\ actor'[d] = actor[d]
      BY <3>0 DEF Become, TypeOK, Executing, Idle
    <3>2. run' = run
      BY <1>8, <2>1, <2>3 DEF ClaimRun
    <3> QED BY <2>2, <3>1, <3>2, ClaimedRun, AllKept DEF Terminal, Timely
  <2>4. CASE Open(r) /\ ActiveOf(run[r].seq) \subseteq {r}
    <3>1. PICK late \in BOOLEAN :
            /\ run' = [run EXCEPT ![r] = [@ EXCEPT !.status = "running", !.marked = TRUE,
                                                   !.late = late]]
            /\ Go(e, "claimed")
      BY <1>8, <2>1, <2>4 DEF ClaimRun
    <3>2. \A q \in Runs : q # r => run'[q] = run[q]
      BY <3>1 DEF TypeOK
    <3>3. run'[r].status = "running" /\ run'[r].seq = run[r].seq
      BY <1>0, <3>1 DEF TypeOK, Run
    <3>4. \A d \in Actors : d # e => actor'[d] = actor[d]
      BY <3>1 DEF Go, Become, TypeOK
    <3>5. actor'[e].run = r /\ actor'[e].pc = "claimed"
      BY <2>1, <3>1, ActorType DEF Go, Become, TypeOK, Actor
    <3>6. Untouched(r, 0)
      BY <2>4 DEF StepInv, Fit, Open
    <3>7. Progress(e)'
      BY <2>2, <3>5, <3>6 DEF Progress, Untouched
    <3>8. \A q \in Runs : Fit(q)'
      BY <2>2, <3>2, <3>3, FitKept DEF StepInv, Terminal, Timely
    <3>9. ASSUME NEW d \in Actors, d # e, Executing(d)'
          PROVE  Progress(d)'
      <4>1. actor'[d] = actor[d] /\ Executing(d)
        BY <3>4, <3>9 DEF Executing
      <4>2. actor[d].run \in Runs /\ run'[actor[d].run].seq = run[actor[d].run].seq
        BY <3>2, <3>3, <4>1, ClaimedRun
      <4> QED BY <2>2, <4>1, <4>2, ProgressKept DEF ProgressInv
    <3> QED BY <3>7, <3>8, <3>9 DEF StepInv, ProgressInv
  <2> QED BY <2>3, <2>4
<1>9. ASSUME NEW e \in Actors,
             \/ ReadSteps(e) \/ InsertStep(e) \/ StartStep(e) \/ RunPipeline(e)
             \/ RecordSuccess(e) \/ SuccessLost(e) \/ RecordFailure(e) \/ SkipStep(e)
      PROVE  StepInv' /\ ProgressInv'
  <2>1. Executing(e)
    BY <1>9 DEF ReadSteps, InsertStep, StartStep, RunPipeline, RecordSuccess, SuccessLost,
                RecordFailure, SkipStep, Executing
  <2>2. run' = run /\ patient' = patient
    BY <1>9 DEF ReadSteps, InsertStep, StartStep, RunPipeline, RecordSuccess, SuccessLost,
                RecordFailure, SkipStep, external
  <2>0. \A d \in Actors : d # e => actor'[d] = actor[d]
    BY <1>9 DEF ReadSteps, InsertStep, StartStep, RunPipeline, RecordSuccess, SuccessLost,
                RecordFailure, SkipStep, Go, Become, TypeOK
  <2>3. PICK r \in Runs, i \in Nat : r = actor[e].run /\ i = actor[e].at
    BY <2>1, AtWork
  <2>4. PICK n \in 0 .. MaxLength : n = Length[run[r].seq]
    BY <2>1, <2>3, AtWork
  <2>5. Fit(r) /\ Progress(e) /\ actor[e] \in Actor /\ MaxLength \in Nat
    BY <2>1, <2>3, AtWork, ActorType, Bounds
  <2>6. run[r].status \notin {"absent", "null", "pending", "completed"}
        /\ (Timely(r) => ~Terminal(r))
    BY <2>1, <2>3, AtWork
  <2>7. Ordered(r)
    BY <2>5 DEF Fit
  <2>8. ASSUME Ordered(r)' PROVE Fit(r)'
    BY <2>2, <2>6, <2>8 DEF Fit, Terminal, Timely
  <2>9. \A j \in 1 .. n : j \in Positions
    BY <2>4, <2>5, Bounds
  <2>10. CASE ReadSteps(e)
    <3>1. Untouched(r, 0)
      BY <2>3, <2>5, <2>10 DEF ReadSteps, Progress
    <3>2. step' = step
      BY <2>10 DEF ReadSteps
    <3>3. actor'[e] = [actor[e] EXCEPT !.pc = IF n = 0 THEN "complete" ELSE "insert", !.at = 1]
      BY <2>3, <2>4, <2>10 DEF ReadSteps, Become, TypeOK
    <3>4. actor'[e].run = r /\ actor'[e].at = 1
          /\ actor'[e].pc = IF n = 0 THEN "complete" ELSE "insert"
      BY <2>3, <2>5, <3>3 DEF Actor
    <3>5. n = 0 => Done(r, n)
      BY Bounds DEF Done
    <3>6. n # 0 => Done(r, 0) /\ Untouched(r, 1) /\ step[r][1] = "none" /\ 1 \in 1 .. n
      BY <2>4, <2>9, <3>1, Bounds DEF Done, Untouched
    <3>7. Progress(e)'
      BY <2>2, <2>4, <3>1, <3>2, <3>4, <3>5, <3>6 DEF Progress, Done, Untouched
    <3>8. Ordered(r)'
      BY <2>7, <3>2 DEF Ordered, Done
    <3> QED BY <2>1, <2>2, <2>3, <2>8, <2>0, <3>2, <3>7, <3>8, OthersKept
  <2>11. CASE InsertStep(e)
    <3>1. i \in 1 .. n /\ Done(r, i - 1) /\ Untouched(r, i)
      BY <2>3, <2>4, <2>5, <2>11 DEF InsertStep, Progress
    <3>2. SetStep(r, i, "pending") /\ actor'[e] = [actor[e] EXCEPT !.pc = "start"]
      BY <2>3, <2>5, <2>11 DEF InsertStep, Go, Become, TypeOK
    <3>3. actor'[e].run = r /\ actor'[e].at = i /\ actor'[e].pc = "start"
      BY <2>3, <2>5, <3>2 DEF Actor
    <3>4. step'[r][i] = "pending" /\ \A q \in Runs : q # r => step'[q] = step[q]
      BY <2>9, <3>1, <3>2, Written
    <3>5. Ordered(r)' /\ Untouched(r, i)' /\ Done(r, i - 1)'
      BY <2>7, <2>9, <3>1, <3>2, WriteKeeps
    <3>6. Progress(e)'
      BY <2>2, <2>4, <3>1, <3>3, <3>4, <3>5 DEF Progress
    <3> QED BY <2>0, <2>1, <2>2, <2>3, <2>8, <3>4, <3>5, <3>6, OthersKept
  <2>12. CASE StartStep(e)
    <3>1. i \in 1 .. n /\ Done(r, i - 1) /\ Untouched(r, i)
      BY <2>3, <2>4, <2>5, <2>12 DEF StartStep, Progress
    <3>2. SetStep(r, i, "running") /\ actor'[e] = [actor[e] EXCEPT !.pc = "ingest"]
      BY <2>3, <2>5, <2>12 DEF StartStep, Go, Become, TypeOK
    <3>3. actor'[e].run = r /\ actor'[e].at = i /\ actor'[e].pc = "ingest"
      BY <2>3, <2>5, <3>2 DEF Actor
    <3>4. step'[r][i] = "running" /\ \A q \in Runs : q # r => step'[q] = step[q]
      BY <2>9, <3>1, <3>2, Written
    <3>5. Ordered(r)' /\ Untouched(r, i)' /\ Done(r, i - 1)'
      BY <2>7, <2>9, <3>1, <3>2, WriteKeeps
    <3>6. Progress(e)'
      BY <2>2, <2>4, <3>1, <3>3, <3>4, <3>5 DEF Progress
    <3> QED BY <2>0, <2>1, <2>2, <2>3, <2>8, <3>4, <3>5, <3>6, OthersKept
  <2>13. CASE RunPipeline(e) \/ SuccessLost(e)
    <3>1. /\ i \in 1 .. n /\ Done(r, i - 1) /\ Untouched(r, i)
          /\ step[r][i] \in {"running", "failed"}
      BY <2>3, <2>4, <2>5, <2>13 DEF RunPipeline, SuccessLost, Progress
    <3>2. step' = step /\ \E pc \in {"success", "failure"} :
            actor'[e] = [actor[e] EXCEPT !.pc = pc]
      BY <2>13 DEF RunPipeline, SuccessLost, Go, Become, TypeOK
    <3>3. /\ actor'[e].run = r /\ actor'[e].at = i
          /\ actor'[e].pc \in {"success", "failure"}
      BY <2>3, <2>5, <3>2 DEF Actor
    <3>4. Ordered(r)' /\ Untouched(r, i)' /\ Done(r, i - 1)'
      BY <2>7, <3>1, <3>2 DEF Ordered, Untouched, Done
    <3>5. Progress(e)'
      BY <2>2, <2>4, <3>1, <3>2, <3>3, <3>4 DEF Progress
    <3> QED BY <2>0, <2>1, <2>2, <2>3, <2>8, <3>2, <3>4, <3>5, OthersKept
  <2>14. CASE RecordSuccess(e)
    <3> DEFINE more == i < n
    <3>1. i \in 1 .. n /\ Done(r, i - 1) /\ Untouched(r, i)
      BY <2>3, <2>4, <2>5, <2>14 DEF RecordSuccess, Progress
    <3>2. SetStep(r, i, "success")
          /\ actor'[e] = [actor[e] EXCEPT !.pc = IF more THEN "insert" ELSE "complete",
                                          !.at = IF more THEN i + 1 ELSE i]
      BY <2>3, <2>4, <2>14 DEF RecordSuccess, Become, TypeOK
    <3>3. /\ actor'[e].run = r
          /\ actor'[e].at = IF more THEN i + 1 ELSE i
          /\ actor'[e].pc = IF more THEN "insert" ELSE "complete"
      BY <2>3, <2>5, <3>2 DEF Actor
    <3>4. \A q \in Runs : q # r => step'[q] = step[q]
      BY <2>9, <3>1, <3>2, Written
    <3>5. Ordered(r)' /\ Untouched(r, i)' /\ Done(r, i)'
      BY <2>7, <2>9, <3>1, <3>2, WriteKeeps
    <3>6. CASE more
      <4>1. i + 1 \in 1 .. n /\ step'[r][i + 1] = "none" /\ Untouched(r, i + 1)'
        BY <2>4, <2>9, <3>1, <3>5, <3>6, Bounds DEF Untouched
      <4>2. Progress(e)'
        BY <2>2, <2>4, <3>3, <3>5, <3>6, <4>1 DEF Progress
      <4> QED BY <2>0, <2>1, <2>2, <2>3, <2>8, <3>4, <3>5, <4>2, OthersKept
    <3>7. CASE ~more
      <4>1. i = n
        BY <2>4, <3>1, <3>7
      <4>2. Progress(e)'
        BY <2>2, <2>4, <3>3, <3>5, <3>7, <4>1 DEF Progress
      <4> QED BY <2>0, <2>1, <2>2, <2>3, <2>8, <3>4, <3>5, <4>2, OthersKept
    <3> QED BY <3>6, <3>7
  <2>15. CASE RecordFailure(e)
    <3>1. i \in 1 .. n /\ Done(r, i - 1) /\ Untouched(r, i)
      BY <2>3, <2>4, <2>5, <2>15 DEF RecordFailure, Progress
    <3>2. SetStep(r, i, "failed")
          /\ actor'[e] = [actor[e] EXCEPT !.pc = IF i < n THEN "skip" ELSE "fail"]
      BY <2>3, <2>4, <2>15 DEF RecordFailure, Go, Become, TypeOK
    <3>3. /\ actor'[e].run = r /\ actor'[e].at = i
          /\ actor'[e].pc = IF i < n THEN "skip" ELSE "fail"
      BY <2>3, <2>5, <3>2 DEF Actor
    <3>4. step'[r][i] = "failed" /\ \A q \in Runs : q # r => step'[q] = step[q]
      BY <2>9, <3>1, <3>2, Written
    <3>5. Ordered(r)' /\ Untouched(r, i)' /\ Done(r, i - 1)'
      BY <2>7, <2>9, <3>1, <3>2, WriteKeeps
    <3>6. Settled(r)'
      <4>1. \A j \in Positions : j <= i - 1 \/ j = i \/ j > i
        BY <3>1, Bounds
      <4> QED BY <3>4, <3>5, <4>1 DEF Settled, Untouched, Done
    <3>7. Progress(e)'
      BY <2>2, <2>4, <3>1, <3>3, <3>5, <3>6 DEF Progress
    <3> QED BY <2>0, <2>1, <2>2, <2>3, <2>8, <3>4, <3>5, <3>7, OthersKept
  <2>16. CASE SkipStep(e)
    <3>1. i \in 1 .. n - 1 /\ Settled(r) /\ Untouched(r, i)
      BY <2>3, <2>4, <2>5, <2>16 DEF SkipStep, Progress
    <3>2. i + 1 \in Positions /\ Untouched(r, i + 1)
      BY <2>4, <2>9, <3>1, Bounds DEF Untouched
    <3>3. SetStep(r, i + 1, "skipped")
          /\ actor'[e] = [actor[e] EXCEPT !.pc = IF i + 1 < n THEN "skip" ELSE "fail",
                                          !.at = i + 1]
      BY <2>3, <2>4, <2>16 DEF SkipStep, Become, TypeOK
    <3>4. /\ actor'[e].run = r /\ actor'[e].at = i + 1
          /\ actor'[e].pc = IF i + 1 < n THEN "skip" ELSE "fail"
      BY <2>3, <2>5, <3>3 DEF Actor
    <3>5. /\ step'[r][i + 1] = "skipped"
          /\ \A j \in Positions : j # i + 1 => step'[r][j] = step[r][j]
          /\ \A q \in Runs : q # r => step'[q] = step[q]
      BY <3>2, <3>3, Written
    <3>6. Ordered(r)' /\ Untouched(r, i + 1)'
      BY <2>7, <3>2, <3>3, WriteKeeps
    <3>7. Settled(r)'
      BY <3>1, <3>5 DEF Settled
    <3>8. Progress(e)'
      BY <2>2, <2>4, <3>1, <3>4, <3>6, <3>7 DEF Progress
    <3> QED BY <2>0, <2>1, <2>2, <2>3, <2>8, <3>5, <3>6, <3>8, OthersKept
  <2> QED BY <1>9, <2>10, <2>11, <2>12, <2>13, <2>14, <2>15, <2>16
<1>10. ASSUME NEW e \in Actors, CloseRun(e)
       PROVE  StepInv' /\ ProgressInv'
  <2>1. Executing(e) /\ patient' = patient /\ step' = step
    BY <1>10 DEF CloseRun, Executing, external
  <2>2. PICK r \in Runs : r = actor[e].run
    BY <2>1, ClaimedRun
  <2>3. \A d \in Actors : Executing(d)' =>
          d # e /\ Executing(d) /\ actor'[d] = actor[d]
    BY <1>10 DEF CloseRun, Become, TypeOK, Executing, Idle
  <2>4. \A q \in Runs : /\ q # r => run'[q] = run[q]
                        /\ run'[q].seq = run[q].seq
    BY <1>0, <1>10, <2>2 DEF CloseRun, SetRun, TypeOK, Run
  <2>5. \/ run'[r].status = "deleted"
        \/ run'[r].status = "completed" /\ actor[e].pc = "complete"
        \/ run'[r].status = "failed" /\ actor[e].pc = "fail"
    <3>1. CASE run[r].status = "deleted"
      BY <1>10, <2>2, <3>1 DEF CloseRun
    <3>2. CASE run[r].status # "deleted"
      BY <1>0, <1>10, <2>2, <3>2 DEF CloseRun, SetRun, TypeOK, Run
    <3> QED BY <3>1, <3>2
  <2>6. Fit(r) /\ Progress(e) /\ Length[run[r].seq] \in 0 .. MaxLength
    BY <2>1, <2>2, AtWork
  <2>7. actor[e].pc = "complete" => Done(r, Length[run[r].seq]) /\ Settled(r)
    <3>1. \A j \in Positions : j <= Length[run[r].seq] \/ j > Length[run[r].seq]
      BY <2>6, Bounds
    <3> QED BY <2>2, <2>6, <3>1 DEF Progress, Done, Untouched, Settled
  <2>8. actor[e].pc = "fail" => Settled(r)
    BY <2>2, <2>6 DEF Progress
  <2>9. Fit(r)'
    BY <2>1, <2>4, <2>5, <2>6, <2>7, <2>8 DEF Fit, Ordered, Done, Settled, Terminal
  <2>10. \A q \in Runs : q # r => Fit(q)'
    BY <2>1, <2>4, FitKept DEF StepInv, Terminal, Timely
  <2>11. \A d \in Actors : Executing(d)' => Progress(d)'
    BY <2>1, <2>3, <2>4, ClaimedRun, ProgressKept DEF ProgressInv
  <2> QED BY <2>9, <2>10, <2>11 DEF StepInv, ProgressInv
<1>11. CASE UNCHANGED vars
  BY <1>11, AllKept DEF vars, Executing, Terminal, Timely
<1>12. CASE \E r \in Runs, s \in Sequences :
              CreateRun(r, s, "null") \/ CreateRun(r, s, "pending") \/ Fire(s, r)
  BY <1>1, <1>12
<1>13. CASE \E e \in Actors : Execute(e) \/ SuccessLost(e) \/ Crash(e)
  BY <1>7, <1>8, <1>9, <1>10, <1>13 DEF Execute
<1> QED
  BY <1>2, <1>3, <1>4, <1>5, <1>6, <1>11, <1>12, <1>13 DEF Next

-----------------------------------------------------------------------------
(* The theorems.                                                           *)

\* Nobody executes and no step has a row at first.
LEMMA InvInit == Init => IInv
<1> SUFFICES ASSUME Init PROVE IInv
  OBVIOUS
<1>1. \A e \in Actors : ~Executing(e)
  BY DEF Init, Executing, Idle
<1>2. \A r \in Runs : run[r].status = "absent" /\ \A j \in Positions : step[r][j] = "none"
  BY DEF Init, NoRow, NewRow
<1>3. OneExecutor /\ StatusInv /\ IndexInv /\ ProgressInv
  BY <1>1, <1>2 DEF OneExecutor, StatusInv, IndexInv, ProgressInv, Active
<1>4. StepInv
  BY <1>2 DEF StepInv, Fit, Ordered, Untouched, Settled
<1> QED BY <1>3, <1>4, TypeInit DEF IInv

\* Every step keeps the invariant.
LEMMA InvStep == IInv /\ [Next]_vars => IInv'
  BY TypeStep, ExclusiveStep, StepsStep DEF IInv

\* The invariant holds in every reachable state.
LEMMA InvAlways == Spec => []IInv
  BY InvInit, InvStep, PTL DEF Spec

\* Every reachable state is well typed.
THEOREM TypeCorrect == Spec => []TypeOK
<1>1. IInv => TypeOK
  BY DEF IInv
<1> QED BY <1>1, InvAlways, PTL

\* The claim admits one executor per run, however often workers mark it, admins request
\* it, and a reaper hands it out again.
THEOREM Exclusive == Spec => []OneExecutor
<1>1. IInv => OneExecutor
  BY DEF IInv
<1> QED BY <1>1, InvAlways, PTL

\* A step begins only after all earlier ones succeeded; a completed run has every step
\* done; and a run whose cutoff outlasts its executor, once it is over, leaves no step
\* behind that looks unfinished.
THEOREM StepsAgree == Spec => []StepsFit
<1>1. IInv => StepsFit
  <2> SUFFICES ASSUME IInv, NEW r \in Runs
               PROVE  /\ \A j \in Positions :
                           step[r][j] \in {"pending", "running", "success"} =>
                             \A i \in 1 .. j - 1 : step[r][i] = "success"
                      /\ run[r].status = "completed" =>
                           \A i \in 1 .. Length[run[r].seq] : step[r][i] = "success"
                      /\ (Timely(r) /\ Terminal(r) /\ HeldBy(r) = {}) =>
                           \A i \in Positions : step[r][i] \notin {"pending", "running"}
    BY DEF StepsFit
  <2>1. Fit(r) /\ TypeOK /\ RowInv
    BY DEF IInv, StepInv
  <2>2. \A j \in Positions : \A i \in 1 .. j - 1 : i \in Positions /\ i <= j - 1
    BY Bounds
  <2>3. ASSUME run[r].status = "completed"
        PROVE  \A i \in 1 .. Length[run[r].seq] : i \in Positions /\ i <= Length[run[r].seq]
    BY <2>1, <2>3, RunType, Bounds
  <2> QED BY <2>1, <2>2, <2>3 DEF Fit, Ordered, Done, Settled
<1> QED BY <1>1, InvAlways, PTL

\* Two executors whose cutoffs outlast them work on runs of different sequences, unless an
\* admin deleted the row of one.
THEOREM SequencesApart == Spec => []SequenceExclusive
<1>1. IInv => SequenceExclusive
  <2> SUFFICES ASSUME IInv, NEW d \in Actors, NEW e \in Actors,
                      Executing(d), Executing(e),
                      Timely(actor[d].run), Timely(actor[e].run),
                      "deleted" \notin {run[actor[d].run].status, run[actor[e].run].status},
                      run[actor[d].run].seq = run[actor[e].run].seq
               PROVE  d = e
    BY DEF SequenceExclusive
  <2>1. actor[d].run \in Runs /\ actor[e].run \in Runs
    BY ClaimedRun DEF IInv
  <2>2. Active(actor[d].run) /\ Active(actor[e].run)
    BY DEF IInv, StatusInv, Active
  <2>3. actor[d].run = actor[e].run
    BY <2>1, <2>2 DEF IInv, IndexInv
  <2> QED BY <2>3 DEF IInv, OneExecutor
<1> QED BY <1>1, InvAlways, PTL

\* A run that is over keeps its outcome if its cutoff outlasts its executor.
THEOREM Final == Spec => FinalStatus
<1>1. ASSUME IInv, [Next]_vars
      PROVE  [\A r \in Runs : Terminal(r) /\ Timely(r) =>
                run'[r].status \in {run[r].status, "deleted", "absent"}]_vars
  <2> SUFFICES ASSUME IInv, [Next]_vars, NEW r \in Runs, Terminal(r), Timely(r)
               PROVE  run'[r].status \in {run[r].status, "deleted", "absent"}
    BY <1>1
  <2>0. \A q \in Runs : run[q] \in Run
    BY DEF IInv, TypeOK
  <2>1. ASSUME NEW p \in Runs, NEW s \in Sequences, NEW status \in {"null", "pending"},
               CreateRun(p, s, status) \/ Fire(s, p)
        PROVE  run'[r] = run[r]
    BY <2>1 DEF CreateRun, Fire, Terminal, IInv, TypeOK
  <2>2. ASSUME NEW p \in Runs, DeleteRun(p)
        PROVE  run'[r].status \in {run[r].status, "deleted"}
    BY <2>0, <2>2 DEF DeleteRun, NewRow, IInv, TypeOK
  <2>3. ASSUME NEW p \in Runs, Forget(p)
        PROVE  run'[r].status \in {run[r].status, "absent"}
    BY <2>3 DEF Forget, NoRow, NewRow, IInv, TypeOK
  <2>4. ASSUME NEW p \in Runs, ReapStranded(p) \/ ReapStaleRun(p)
        PROVE  run'[r] = run[r]
    BY <2>4 DEF ReapStranded, Stranded, Open, ReapStaleRun, StaleRunning, SetRun, Terminal,
                IInv, TypeOK
  <2>5. ASSUME NEW e \in Actors, NEW p \in Runs, MarkScheduled(e, p) \/ RequestExecute(e, p)
        PROVE  run'[r] = run[r]
    BY <2>5 DEF MarkScheduled, Open, RequestExecute, Terminal, IInv, TypeOK
  <2>6. ASSUME NEW e \in Actors, ClaimRun(e)
        PROVE  run'[r] = run[r]
    <3>1. PICK p \in Runs : p = actor[e].run
      BY <2>6, HeldRun DEF ClaimRun, IInv
    <3> QED BY <2>6, <3>1 DEF ClaimRun, Open, Terminal, IInv, TypeOK
  <2>7. ASSUME NEW e \in Actors, CloseRun(e)
        PROVE  run'[r] = run[r]
    <3>1. Executing(e)
      BY <2>7 DEF CloseRun, Executing
    <3>2. PICK p \in Runs : p = actor[e].run /\ (Timely(p) => ~Terminal(p))
      BY <3>1, AtWork DEF IInv
    <3> QED BY <2>7, <3>2 DEF CloseRun, SetRun, IInv, TypeOK
  <2>8. ASSUME NEW e \in Actors, SuccessLost(e) \/ Crash(e) \/ Execute(e),
               ~ClaimRun(e), ~CloseRun(e)
        PROVE  run' = run
    BY <2>8 DEF Execute, ReadRun, ReadSteps, InsertStep, StartStep, RunPipeline, RecordSuccess,
                SuccessLost, RecordFailure, SkipStep, Crash
  <2>9. CASE UNCHANGED vars \/ \E s \in Sequences : BecomeDue(s)
    BY <2>9 DEF vars, BecomeDue
  <2>10. CASE \E p \in Runs, s \in Sequences :
                CreateRun(p, s, "null") \/ CreateRun(p, s, "pending") \/ Fire(s, p)
    BY <2>1, <2>10
  <2>11. CASE \E e \in Actors : Execute(e) \/ SuccessLost(e) \/ Crash(e)
    BY <2>6, <2>7, <2>8, <2>11
  <2> QED BY <2>2, <2>3, <2>4, <2>5, <2>9, <2>10, <2>11 DEF Next
<1> QED BY <1>1, InvAlways, PTL DEF Spec, FinalStatus

-----------------------------------------------------------------------------
(* The plan.  Claims, closures, successes and failures are its steps,      *)
(* everything else is a stutter.                                           *)

\* Where a run stands follows from its row and its steps.
LEMMA PlanSame ==
  ASSUME NEW q \in Runs, run'[q].status = run[q].status, run'[q].seq = run[q].seq,
         \A i \in Positions : step'[q][i] = "success" <=> step[q][i] = "success"
  PROVE  PhaseOf(q)' = PhaseOf(q) /\ Succeeded(q)' = Succeeded(q)
  BY DEF PhaseOf, Succeeded

\* A step that only touches marks and unsuccessful steps.
LEMMA PlanStutters ==
  ASSUME patient' = patient,
         \A q \in Runs : /\ run'[q].status = run[q].status /\ run'[q].seq = run[q].seq
                         /\ run'[q].late = run[q].late
                         /\ \A i \in Positions :
                              step'[q][i] = "success" <=> step[q][i] = "success"
  PROVE  UNCHANGED Plan!pvars
<1>1. \A q \in Runs : PhaseOf(q)' = PhaseOf(q) /\ Succeeded(q)' = Succeeded(q)
  BY PlanSame
<1>2. \A q \in Runs : Timely(q)' = Timely(q)
  BY DEF Timely
<1> QED BY <1>1, <1>2 DEF Plan!pvars

\* A step that takes one run to another phase.
LEMMA PlanMoves ==
  ASSUME patient' = patient, NEW r \in Runs, NEW p, PhaseOf(r)' = p,
         \A q \in Runs : /\ q # r => run'[q] = run[q]
                         /\ run'[q].seq = run[q].seq
                         /\ \A i \in Positions :
                              step'[q][i] = "success" <=> step[q][i] = "success"
  PROVE  /\ [q \in Runs |-> PhaseOf(q)]' = [[q \in Runs |-> PhaseOf(q)] EXCEPT ![r] = p]
         /\ UNCHANGED <<[q \in Runs |-> run[q].seq], [q \in Runs |-> Succeeded(q)]>>
         /\ \E b \in BOOLEAN :
              [q \in Runs |-> Timely(q)]' = [[q \in Runs |-> Timely(q)] EXCEPT ![r] = b]
         /\ run'[r].late = run[r].late => UNCHANGED [q \in Runs |-> Timely(q)]
<1>1. \A q \in Runs : Succeeded(q)' = Succeeded(q)
  BY DEF Succeeded
<1>2. \A q \in Runs : q # r => PhaseOf(q)' = PhaseOf(q) /\ Timely(q)' = Timely(q)
  BY DEF PhaseOf, Timely
<1>3. Timely(r)' \in BOOLEAN
  BY DEF Timely
<1>4. run'[r].late = run[r].late => Timely(r)' = Timely(r)
  BY DEF Timely
<1> QED BY <1>1, <1>2, <1>3, <1>4

\* The steps done are those up to the one at hand.
LEMMA DoneUpTo ==
  ASSUME NEW r \in Runs, NEW i \in 0 .. MaxLength, Done(r, i),
         \A j \in Positions : j > i => step[r][j] # "success"
  PROVE  Succeeded(r) = 1 .. i
<1>1. MaxLength \in Nat /\ Positions = 1 .. MaxLength
  BY Bounds
<1> QED BY <1>1 DEF Succeeded, Done

\* A run that is not there has nothing done.
LEMMA NothingDone ==
  ASSUME StepInv, NEW r \in Runs, run[r].status \in {"absent", "null", "pending"}
  PROVE  Succeeded(r) = {}
<1>1. Untouched(r, 0)
  BY DEF StepInv, Fit
<1>2. \A i \in Positions : i > 0
  BY Bounds
<1> QED BY <1>1, <1>2 DEF Untouched, Succeeded

\* A run created by hand or by the schedule is asked for.
LEMMA PlanAsk ==
  ASSUME IInv, NEW r \in Runs, NEW s \in Sequences, NEW status \in {"null", "pending"},
         CreateRun(r, s, status) \/ Fire(s, r)
  PROVE  Plan!Ask(r, s)
<1>1. run[r].status = "absent" /\ step' = step /\ patient' = patient
  BY DEF CreateRun, Fire, external
<1>2. /\ run'[r].status \in {"null", "pending"} /\ run'[r].seq = s /\ ~run'[r].late
      /\ \A q \in Runs : q # r => run'[q] = run[q]
  BY DEF CreateRun, Fire, NewRow, IInv, TypeOK
<1>3. PhaseOf(r) = "none" /\ PhaseOf(r)' = "waiting" /\ Succeeded(r) = {}
  BY <1>1, <1>2, NothingDone DEF PhaseOf, IInv
<1>4. \A q \in Runs : /\ q # r => PhaseOf(q)' = PhaseOf(q)
                      /\ Succeeded(q)' = Succeeded(q)
  BY <1>1, <1>2 DEF PhaseOf, Succeeded
<1>5. [q \in Runs |-> PhaseOf(q)]' = [[q \in Runs |-> PhaseOf(q)] EXCEPT ![r] = "waiting"]
  BY <1>3, <1>4
<1>6. [q \in Runs |-> run[q].seq]' = [[q \in Runs |-> run[q].seq] EXCEPT ![r] = s]
  BY <1>2
<1>7. [q \in Runs |-> Succeeded(q)]' = [q \in Runs |-> Succeeded(q)]
  BY <1>4
<1>8. [q \in Runs |-> Timely(q)]' = [q \in Runs |-> Timely(q)]
  BY <1>1, <1>2 DEF Timely, IInv, RowInv
<1> QED BY <1>1, <1>3, <1>5, <1>6, <1>7, <1>8 DEF Plan!Ask

\* An admin's deletion withdraws it.
LEMMA PlanWithdraw ==
  ASSUME IInv, NEW r \in Runs, DeleteRun(r)
  PROVE  Plan!Withdraw(r)
<1>1. run[r].status \notin {"absent", "deleted"} /\ step' = step /\ patient' = patient
  BY DEF DeleteRun, external
<1>2. run[r] \in Run
  BY DEF IInv, TypeOK
<1>3. /\ run'[r].status = "deleted" /\ \A q \in Runs : run'[q].seq = run[q].seq
      /\ \A q \in Runs : q # r => run'[q] = run[q]
  BY <1>2 DEF DeleteRun, NewRow, IInv, TypeOK
<1>4. PhaseOf(r) \notin {"none", "withdrawn"} /\ PhaseOf(r)' = "withdrawn"
  BY <1>1, <1>2, <1>3 DEF PhaseOf, Run, Status
<1> QED BY <1>1, <1>3, <1>4, PlanMoves DEF Plan!Withdraw

\* An id that is used again.
LEMMA PlanReuse ==
  ASSUME IInv, NEW r \in Runs, Forget(r)
  PROVE  Plan!Reuse(r)
<1>1. run[r].status \in {"completed", "failed", "deleted"} /\ patient' = patient
  BY DEF Forget, Terminal, external
<1>2. /\ run'[r].status = "absent" /\ run'[r].seq = NoRun
      /\ \A i \in Positions : step'[r][i] = "none"
      /\ \A q \in Runs : q # r => run'[q] = run[q] /\ step'[q] = step[q]
  BY DEF Forget, NoRow, NewRow, IInv, TypeOK
<1>3. /\ PhaseOf(r) \in {"completed", "failed", "withdrawn"} /\ PhaseOf(r)' = "none"
      /\ Succeeded(r)' = {}
  BY <1>1, <1>2 DEF PhaseOf, Succeeded
<1>4. \A q \in Runs : q # r =>
        PhaseOf(q)' = PhaseOf(q) /\ Succeeded(q)' = Succeeded(q) /\ Timely(q)' = Timely(q)
  BY <1>1, <1>2 DEF PhaseOf, Succeeded, Timely
<1>5. [q \in Runs |-> PhaseOf(q)]' = [[q \in Runs |-> PhaseOf(q)] EXCEPT ![r] = "none"]
  BY <1>3, <1>4
<1>6. [q \in Runs |-> run[q].seq]' = [[q \in Runs |-> run[q].seq] EXCEPT ![r] = NoRun]
  BY <1>2
<1>7. [q \in Runs |-> Succeeded(q)]' = [[q \in Runs |-> Succeeded(q)] EXCEPT ![r] = {}]
  BY <1>3, <1>4
<1>8. [q \in Runs |-> Timely(q)]' = [[q \in Runs |-> Timely(q)] EXCEPT ![r] = Timely(r)']
      /\ Timely(r)' \in BOOLEAN
  BY <1>4 DEF Timely
<1> QED BY <1>1, <1>3, <1>5, <1>6, <1>7, <1>8 DEF Plan!Reuse

\* The reaper of running runs fails one; the steps it fails had not succeeded.
LEMMA PlanReap ==
  ASSUME IInv, NEW r \in Runs, ReapStaleRun(r)
  PROVE  Plan!Fail(r)
<1>1. run[r].status = "running" /\ patient' = patient
  BY DEF ReapStaleRun, StaleRunning, external
<1>2. run[r] \in Run
  BY DEF IInv, TypeOK
<1>3. /\ run'[r].status = "failed" /\ run'[r].late = run[r].late
      /\ \A q \in Runs : run'[q].seq = run[q].seq
      /\ \A q \in Runs : q # r => run'[q] = run[q]
  BY <1>2 DEF ReapStaleRun, SetRun, IInv, TypeOK, Run
<1>4. \A q \in Runs, i \in Positions : step'[q][i] = "success" <=> step[q][i] = "success"
  BY DEF ReapStaleRun, IInv, TypeOK
<1>5. PhaseOf(r) = "started" /\ PhaseOf(r)' = "failed"
  BY <1>1, <1>3 DEF PhaseOf
<1> QED BY <1>1, <1>3, <1>4, <1>5, PlanMoves DEF Plan!Fail

\* The claim starts the run, alone in its sequence, or changes nothing.
LEMMA PlanClaim ==
  ASSUME IInv, NEW e \in Actors, ClaimRun(e)
  PROVE  Plan!PNext \/ UNCHANGED Plan!pvars
<1>1. PICK r \in Runs : r = actor[e].run
  BY HeldRun DEF ClaimRun, IInv
<1>2. step' = step /\ patient' = patient
  BY DEF ClaimRun, external
<1>3. CASE ~(Open(r) /\ ActiveOf(run[r].seq) \subseteq {r})
  <2>1. run' = run
    BY <1>1, <1>3 DEF ClaimRun
  <2> QED BY <1>2, <2>1, PlanStutters
<1>4. CASE Open(r) /\ ActiveOf(run[r].seq) \subseteq {r}
  <2>1. run[r] \in Run
    BY DEF IInv, TypeOK
  <2>2. /\ run'[r].status = "running" /\ \A q \in Runs : run'[q].seq = run[q].seq
        /\ \A q \in Runs : q # r => run'[q] = run[q]
    <3>1. PICK late \in BOOLEAN :
            run' = [run EXCEPT ![r] = [@ EXCEPT !.status = "running", !.marked = TRUE,
                                               !.late = late]]
      BY <1>1, <1>4 DEF ClaimRun
    <3>2. run \in [Runs -> Run]
      BY DEF IInv, TypeOK
    <3> QED BY <3>1, <3>2 DEF Run
  <2>3. PhaseOf(r) = "waiting" /\ PhaseOf(r)' = "started" /\ Succeeded(r) = {}
    BY <1>4, <2>2, NothingDone DEF PhaseOf, Open, IInv
  <2>4. \A q \in Runs : PhaseOf(q) = "started" => run[q].seq # run[r].seq
    <3> SUFFICES ASSUME NEW q \in Runs, PhaseOf(q) = "started", run[q].seq = run[r].seq
                 PROVE  FALSE
      OBVIOUS
    <3>1. run[q].status = "running"
      BY DEF PhaseOf, IInv, TypeOK, Run, Status
    <3>2. q = r
      BY <1>4, <3>1 DEF ActiveOf, Active
    <3> QED BY <1>4, <3>1, <3>2 DEF Open
  <2>5. Plan!Start(r)
    BY <1>2, <2>2, <2>3, <2>4, PlanMoves DEF Plan!Start
  <2> QED BY <2>5 DEF Plan!PNext
<1> QED BY <1>3, <1>4

\* The writes of an executor that are no successes.
LEMMA PlanWrites ==
  ASSUME IInv, NEW e \in Actors,
         InsertStep(e) \/ StartStep(e) \/ RecordFailure(e) \/ SkipStep(e)
  PROVE  UNCHANGED Plan!pvars
<1>1. Executing(e) /\ run' = run /\ patient' = patient
  BY DEF InsertStep, StartStep, RecordFailure, SkipStep, Executing, external
<1>2. PICK r \in Runs : r = actor[e].run
  BY <1>1, AtWork DEF IInv
<1>3. Progress(e) /\ actor[e].at \in Nat /\ Length[run[r].seq] \in 0 .. MaxLength
  BY <1>1, <1>2, AtWork DEF IInv
<1>4. \E i \in Positions, s \in {"pending", "running", "failed", "skipped"} :
        SetStep(r, i, s) /\ step[r][i] # "success"
  <2> DEFINE i == actor[e].at
  <2>1. CASE InsertStep(e) \/ StartStep(e) \/ RecordFailure(e)
    <3>1. i \in Positions
      BY <1>2, <1>3, <2>1, Bounds DEF InsertStep, StartStep, RecordFailure, Progress
    <3>2. step[r][i] # "success"
      BY <1>2, <1>3, <2>1 DEF InsertStep, StartStep, RecordFailure, Progress
    <3> QED BY <1>2, <2>1, <3>1, <3>2 DEF InsertStep, StartStep, RecordFailure
  <2>2. CASE SkipStep(e)
    <3>1. i + 1 \in Positions
      BY <1>2, <1>3, <2>2, Bounds DEF SkipStep, Progress
    <3> QED BY <1>2, <2>2, <3>1 DEF SkipStep
  <2> QED BY <2>1, <2>2
<1>5. \A q \in Runs, j \in Positions : step'[q][j] = "success" <=> step[q][j] = "success"
  BY <1>4, Written DEF IInv
<1> QED BY <1>1, <1>5, PlanStutters

\* A step that succeeds is the next one.
LEMMA PlanAdvance ==
  ASSUME IInv, NEW e \in Actors, RecordSuccess(e)
  PROVE  Plan!PNext
<1>1. Executing(e) /\ run' = run /\ patient' = patient /\ actor[e].pc = "success"
  BY DEF RecordSuccess, Executing, external
<1>2. PICK r \in Runs : r = actor[e].run
  BY <1>1, AtWork DEF IInv
<1> DEFINE i == actor[e].at  n == Length[run[r].seq]
<1>3. i \in 1 .. n /\ Done(r, i - 1) /\ Untouched(r, i) /\ step[r][i] \in {"running", "failed"}
  BY <1>1, <1>2, AtWork DEF IInv, Progress
<1>4. n \in 0 .. MaxLength /\ MaxLength \in Nat /\ Positions = 1 .. MaxLength
  BY <1>1, <1>2, AtWork, Bounds DEF IInv
<1>5. SetStep(r, i, "success")
  BY <1>2 DEF RecordSuccess
<1> HIDE DEF i, n
<1>6. i \in Positions /\ i - 1 \in 0 .. MaxLength
  BY <1>3, <1>4
<1>7. Succeeded(r) = 1 .. i - 1
  <2>1. \A j \in Positions : j > i - 1 => step[r][j] # "success"
    <3> SUFFICES ASSUME NEW j \in Positions, j > i - 1 PROVE step[r][j] # "success"
      OBVIOUS
    <3>1. j = i \/ j > i
      BY <1>4, <1>6
    <3> QED BY <1>3, <3>1 DEF Untouched
  <2> QED BY <1>3, <1>6, <2>1, DoneUpTo
<1>8. /\ step'[r][i] = "success" /\ \A j \in Positions : j # i => step'[r][j] = step[r][j]
      /\ \A q \in Runs : q # r => step'[q] = step[q]
  BY <1>5, <1>6, Written DEF IInv
<1>9. Succeeded(r)' = 1 .. i
  <2>1. Succeeded(r)' = Succeeded(r) \cup {i}
    BY <1>6, <1>8 DEF Succeeded
  <2> QED BY <1>3, <1>4, <1>7, <2>1
<1>10. \A q \in Runs : q # r => Succeeded(q)' = Succeeded(q)
  BY <1>8 DEF Succeeded
<1>11. [q \in Runs |-> Succeeded(q)]' = [[q \in Runs |-> Succeeded(q)] EXCEPT ![r] = 1 .. i]
  BY <1>9, <1>10
<1>12. UNCHANGED <<[q \in Runs |-> PhaseOf(q)], [q \in Runs |-> run[q].seq],
                   [q \in Runs |-> Timely(q)]>>
  BY <1>1 DEF PhaseOf, Timely
<1>13. Plan!Going(r)
  <2>1. run[r].status \in {"running", "failed", "deleted"}
        /\ (Timely(r) => run[r].status # "failed")
    BY <1>1, <1>2 DEF IInv, StatusInv
  <2> QED BY <2>1 DEF Plan!Going, PhaseOf
<1>14. Plan!Advance(r)
  BY <1>3, <1>7, <1>11, <1>12, <1>13 DEF Plan!Advance, n
<1> QED BY <1>14 DEF Plan!PNext

\* The final update completes or fails the run, or finds it deleted, or failed before.
LEMMA PlanClose ==
  ASSUME IInv, NEW e \in Actors, CloseRun(e)
  PROVE  Plan!PNext \/ UNCHANGED Plan!pvars
<1>1. Executing(e) /\ step' = step /\ patient' = patient /\ actor[e].pc \in {"complete", "fail"}
  BY DEF CloseRun, Executing, external
<1>2. PICK r \in Runs : r = actor[e].run
  BY <1>1, AtWork DEF IInv
<1>3. run[r].status \in {"running", "failed", "deleted"}
      /\ (Timely(r) => run[r].status # "failed")
  BY <1>1, <1>2 DEF IInv, StatusInv
<1>4. run[r] \in Run
  BY DEF IInv, TypeOK
<1>5. CASE run[r].status = "deleted"
  BY <1>1, <1>2, <1>5, PlanStutters DEF CloseRun
<1>6. CASE run[r].status # "deleted"
  <2>1. /\ run'[r].status = IF actor[e].pc = "complete" THEN "completed" ELSE "failed"
        /\ \A q \in Runs : run'[q].seq = run[q].seq /\ run'[q].late = run[q].late
        /\ \A q \in Runs : q # r => run'[q] = run[q]
    <3> DEFINE last == IF actor[e].pc = "complete" THEN "completed" ELSE "failed"
    <3>1. run' = [run EXCEPT ![r].status = last]
      BY <1>2, <1>6 DEF CloseRun, SetRun
    <3> HIDE DEF last
    <3>2. /\ run'[r].status = last
          /\ \A q \in Runs : run'[q].seq = run[q].seq /\ run'[q].late = run[q].late
          /\ \A q \in Runs : q # r => run'[q] = run[q]
      BY <3>1 DEF IInv, TypeOK, Run
    <3> QED BY <3>2 DEF last
  <2>2. CASE actor[e].pc = "complete"
    <3>1. PhaseOf(r) \in {"started", "failed"} /\ PhaseOf(r)' = "completed"
          /\ (Timely(r) => PhaseOf(r) = "started")
      BY <1>3, <1>6, <2>1, <2>2 DEF PhaseOf
    <3>2. Succeeded(r) = 1 .. Length[run[r].seq]
      <4> DEFINE n == Length[run[r].seq]
      <4>1. n \in 0 .. MaxLength /\ Done(r, n) /\ Untouched(r, n)
        BY <1>1, <1>2, <2>2, AtWork DEF IInv, Progress
      <4> HIDE DEF n
      <4>2. Succeeded(r) = 1 .. n
        BY <4>1, DoneUpTo DEF Untouched
      <4> QED BY <4>2 DEF n
    <3>3. Plan!Complete(r)
      BY <1>1, <2>1, <3>1, <3>2, PlanMoves DEF Plan!Complete, Plan!Going
    <3> QED BY <3>3 DEF Plan!PNext
  <2>3. CASE actor[e].pc = "fail" /\ run[r].status = "running"
    <3>1. PhaseOf(r) = "started" /\ PhaseOf(r)' = "failed"
      BY <2>1, <2>3 DEF PhaseOf
    <3>2. Plan!Fail(r)
      BY <1>1, <2>1, <3>1, PlanMoves DEF Plan!Fail
    <3> QED BY <3>2 DEF Plan!PNext
  <2>4. CASE actor[e].pc = "fail" /\ run[r].status = "failed"
    <3>1. \A q \in Runs : /\ run'[q].status = run[q].status /\ run'[q].seq = run[q].seq
                          /\ run'[q].late = run[q].late
      BY <2>1, <2>4
    <3> QED BY <1>1, <3>1, PlanStutters
  <2> QED BY <1>1, <1>3, <1>6, <2>2, <2>3, <2>4
<1> QED BY <1>5, <1>6

\* At first every run is none and nothing is done.
LEMMA PlanInit == Init => Plan!PInit
<1> SUFFICES ASSUME Init PROVE Plan!PInit
  OBVIOUS
<1>1. \A r \in Runs : PhaseOf(r) = "none" /\ run[r].seq = NoRun /\ Succeeded(r) = {}
  BY DEF Init, NoRow, NewRow, PhaseOf, Succeeded
<1>2. \A r \in Runs : Timely(r) \in BOOLEAN
  BY DEF Timely
<1> QED BY <1>1, <1>2 DEF Plan!PInit

\* Every step is one of the plan or leaves it as it is.
LEMMA PlanStep == IInv /\ [Next]_vars => [Plan!PNext]_Plan!pvars
<1> SUFFICES ASSUME IInv, [Next]_vars PROVE Plan!PNext \/ UNCHANGED Plan!pvars
  OBVIOUS
<1>1. ASSUME NEW r \in Runs, NEW s \in Sequences,
             CreateRun(r, s, "null") \/ CreateRun(r, s, "pending") \/ Fire(s, r)
      PROVE  Plan!PNext
  <2>1. Plan!Ask(r, s)
    BY <1>1, PlanAsk
  <2> QED BY <2>1 DEF Plan!PNext
<1>2. ASSUME NEW r \in Runs, DeleteRun(r) \/ Forget(r) \/ ReapStaleRun(r)
      PROVE  Plan!PNext
  <2>1. Plan!Withdraw(r) \/ Plan!Reuse(r) \/ Plan!Fail(r)
    BY <1>2, PlanWithdraw, PlanReuse, PlanReap
  <2> QED BY <2>1 DEF Plan!PNext
<1>3. ASSUME NEW r \in Runs,
             ReapStranded(r) \/ \E e \in Actors : MarkScheduled(e, r) \/ RequestExecute(e, r)
      PROVE  UNCHANGED Plan!pvars
  <2>1. /\ step' = step /\ patient' = patient
        /\ run' = run \/ \E b \in BOOLEAN : run' = [run EXCEPT ![r].marked = b]
    BY <1>3 DEF ReapStranded, MarkScheduled, RequestExecute, external
  <2>2. \A q \in Runs : /\ run'[q].status = run[q].status /\ run'[q].seq = run[q].seq
                        /\ run'[q].late = run[q].late
    BY <2>1 DEF IInv, TypeOK, Run
  <2> QED BY <2>1, <2>2, PlanStutters
<1>4. ASSUME NEW e \in Actors, Execute(e) \/ SuccessLost(e) \/ Crash(e)
      PROVE  Plan!PNext \/ UNCHANGED Plan!pvars
  <2>1. CASE ClaimRun(e) \/ CloseRun(e) \/ RecordSuccess(e)
    BY <2>1, PlanClaim, PlanClose, PlanAdvance
  <2>2. CASE InsertStep(e) \/ StartStep(e) \/ RecordFailure(e) \/ SkipStep(e)
    BY <2>2, PlanWrites
  <2>3. CASE ReadRun(e) \/ ReadSteps(e) \/ RunPipeline(e) \/ SuccessLost(e) \/ Crash(e)
    <3>1. run' = run /\ step' = step /\ patient' = patient
      BY <2>3 DEF ReadRun, ReadSteps, RunPipeline, SuccessLost, Crash, external
    <3> QED BY <3>1, PlanStutters
  <2> QED BY <1>4, <2>1, <2>2, <2>3 DEF Execute
<1>5. CASE UNCHANGED vars \/ \E s \in Sequences : BecomeDue(s)
  <2>1. run' = run /\ step' = step /\ patient' = patient
    BY <1>5 DEF vars, BecomeDue, external
  <2> QED BY <2>1, PlanStutters
<1> QED BY <1>1, <1>2, <1>3, <1>4, <1>5 DEF Next

\* Claims, executors, crashes, deletions and reapers included, a sequence's runs keep to the
\* plan: each starts once and alone, does its steps in order and once, and is completed only
\* with all of them done.
THEOREM Refinement == Spec => KeepsToPlan
  BY PlanInit, PlanStep, InvAlways, PTL DEF Spec, KeepsToPlan, Plan!PSpec
=============================================================================
