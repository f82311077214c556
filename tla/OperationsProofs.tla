---------------------------- MODULE OperationsProofs ----------------------------
(***************************************************************************)
(* Proofs about Operations, for every set of operations, resources,        *)
(* workers and controllers and for every value of the bounds.              *)
(***************************************************************************)
EXTENDS Operations, Integers, TLAPS

-----------------------------------------------------------------------------
(* Type correctness *)

\* What a step leaves alone keeps its type.
LEMMA TableFrame ==
  ASSUME TypeOK, UNCHANGED <<tableVars, permitted>>
  PROVE  TableTypeOK'
  BY DEF TypeOK, TableTypeOK, tableVars

\* A step that leaves the providers alone keeps their types.
LEMMA ProviderFrame ==
  ASSUME TypeOK, UNCHANGED providerVars
  PROVE  ProviderTypeOK'
  BY DEF TypeOK, ProviderTypeOK, providerVars

\* The same for the state of the process.
LEMMA ProcessFrame ==
  ASSUME TypeOK, UNCHANGED processVars
  PROVE  ProcessTypeOK'
  BY DEF TypeOK, ProcessTypeOK, processVars

\* The same for the workers.
LEMMA WorkerFrame ==
  ASSUME TypeOK, UNCHANGED workerVars
  PROVE  WorkerTypeOK'
  BY DEF TypeOK, WorkerTypeOK, workerVars

\* The same for the administrators.
LEMMA ControllerFrame ==
  ASSUME TypeOK, UNCHANGED controllerVars
  PROVE  ControllerTypeOK'
  BY DEF TypeOK, ControllerTypeOK, controllerVars

\* The initial state has the declared types.
LEMMA TypeInit == Init => TypeOK
<1> SUFFICES ASSUME Init PROVE TypeOK
  OBVIOUS
<1>1. TableTypeOK
  BY DEF Init, TableTypeOK, Statuses, StepStatuses
<1>2. ProviderTypeOK /\ ProcessTypeOK
  BY DEF Init, ProviderTypeOK, ProcessTypeOK
<1>3. WorkerTypeOK
  BY BoundsAssumption DEF Init, WorkerTypeOK, WorkerStates, Busy, Answers
<1>4. ControllerTypeOK
  BY DEF Init, ControllerTypeOK, ControllerStates
<1> QED
  BY <1>1, <1>2, <1>3, <1>4 DEF TypeOK

\* A worker goes back to the head of its loop, or ends.
LEMMA LeaveTypes ==
  ASSUME WorkerTypeOK, NEW w \in Workers, NEW state \in {"idle", "stopped"}, Leave(w, state)
  PROVE  WorkerTypeOK'
<1>1. pc' \in [Workers -> WorkerStates] /\ job' \in [Workers -> Ops \cup {NoOp}]
  BY DEF WorkerTypeOK, Leave, WorkerStates
<1>2. pos' \in [Workers -> 1..MaxSteps + 1] /\ answer' \in [Workers -> Answers]
  BY BoundsAssumption DEF WorkerTypeOK, Leave, Answers
<1>3. \A v \in Workers : pc'[v] \in Busy \cup {"selected"} => job'[v] \in Ops
  BY DEF WorkerTypeOK, Leave, Busy
<1>4. \A v \in Workers : pc'[v] = "answered" => answer'[v] # "none"
  BY DEF WorkerTypeOK, Leave
<1>5. \A v \in Workers : pc'[v] \in {"marked", "answered"} => pos'[v] \in Positions
  BY DEF WorkerTypeOK, Leave
<1> QED
  BY <1>1, <1>2, <1>3, <1>4, <1>5 DEF WorkerTypeOK

\* A worker moves on with the operation it has.
LEMMA MoveTypes ==
  ASSUME WorkerTypeOK, NEW w \in Workers, job[w] \in Ops,
         NEW state \in WorkerStates, pc' = [pc EXCEPT ![w] = state],
         NEW a \in Answers, answer' = [answer EXCEPT ![w] = a],
         state = "answered" => a # "none",
         NEW p \in 1..MaxSteps + 1, pos' = [pos EXCEPT ![w] = p],
         state \in {"marked", "answered"} => p \in Positions,
         UNCHANGED job
  PROVE  WorkerTypeOK'
  BY DEF WorkerTypeOK

\* A worker that stands before a step has an operation and may go on to the next step.
LEMMA AtTypes ==
  ASSUME TypeOK, NEW w \in Workers, pc[w] = "between"
  PROVE  /\ job[w] \in Ops
         /\ pos[w] \in Steps(job[w]) => pos[w] \in Positions /\ pos[w] + 1 \in 1..MaxSteps + 1
  BY BoundsAssumption DEF TypeOK, WorkerTypeOK, Busy, Steps, Positions

\* The steps of a worker keep the types.
LEMMA TypeWorker ==
  ASSUME TypeOK, NEW w \in Workers,
         WorkerStep(w) \/ RecordStepFails(w) \/ WorkerFails(w)
  PROVE  TypeOK'
<1> USE DEF TypeOK
<1>0. /\ pc[w] \in Busy \cup {"selected"} => job[w] \in Ops
      /\ pos = [pos EXCEPT ![w] = pos[w]] /\ pos[w] \in 1..MaxSteps + 1
      /\ answer = [answer EXCEPT ![w] = answer[w]] /\ answer[w] \in Answers
      /\ pc = [pc EXCEPT ![w] = pc[w]] /\ pc[w] \in WorkerStates
  BY DEF WorkerTypeOK
<1>1. CASE Select(w)
  <2>1. PICK i \in Queued : job' = [job EXCEPT ![w] = rows[i]]
    BY <1>1 DEF Select
  <2>2. rows[i] \in Ops
    BY <2>1 DEF Queued, TableTypeOK
  <2>3. WorkerTypeOK'
    BY <1>1, <2>1, <2>2 DEF Select, WorkerTypeOK, WorkerStates
  <2> QED
    BY <1>1, <2>3, TableFrame, ProviderFrame, ProcessFrame, ControllerFrame DEF Select
<1>2. CASE Claim(w)
  <2>1. job[w] \in Ops
    BY <1>2, <1>0 DEF Claim
  <2>2. TableTypeOK'
    BY <1>2, <2>1 DEF Claim, TableTypeOK, Statuses
  <2>3. WorkerTypeOK'
    <3>1. CASE Leave(w, "idle")
      BY <3>1, LeaveTypes
    <3>2. CASE pc' = [pc EXCEPT ![w] = "claimed"] /\ UNCHANGED <<job, pos, answer>>
      BY <1>0, <2>1, <3>2, MoveTypes DEF WorkerStates
    <3> QED
      BY <1>2, <3>1, <3>2 DEF Claim
  <2> QED
    BY <1>2, <2>2, <2>3, ProviderFrame, ProcessFrame, ControllerFrame DEF Claim
<1>3. CASE StartExecute(w)
  <2>1. job[w] \in Ops
    BY <1>3, <1>0 DEF StartExecute, Busy
  <2>2. TableTypeOK'
    BY <1>3, <2>1 DEF StartExecute, TableTypeOK, StepStatuses
  <2>3. WorkerTypeOK'
    <3>1. CASE pc' = [pc EXCEPT ![w] = "between"] /\ UNCHANGED answer
      BY <1>3, <1>0, <2>1, <3>1, MoveTypes DEF WorkerStates, StartExecute
    <3>2. CASE pc' = [pc EXCEPT ![w] = "done"] /\ answer' = [answer EXCEPT ![w] = "failed"]
      BY <1>3, <1>0, <2>1, <3>2, MoveTypes DEF WorkerStates, Answers, StartExecute
    <3> QED
      BY <1>3, <3>1, <3>2 DEF StartExecute
  <2> QED
    BY <1>3, <2>2, <2>3, ProviderFrame, ProcessFrame, ControllerFrame DEF StartExecute
<1>4. CASE SkipStep(w)
  <2>1. job[w] \in Ops /\ pos[w] + 1 \in 1..MaxSteps + 1
    BY <1>4, AtTypes DEF SkipStep, At
  <2>2. pos' = [pos EXCEPT ![w] = pos[w] + 1]
    BY <1>4 DEF SkipStep, NextStep
  <2>3. WorkerTypeOK'
    BY <1>4, <1>0, <2>1, <2>2, MoveTypes DEF SkipStep, At
  <2> QED
    BY <1>4, <2>3, TableFrame, ProviderFrame, ProcessFrame, ControllerFrame DEF SkipStep
<1>5. CASE BeginStep(w)
  <2>1. job[w] \in Ops /\ pos[w] \in Positions
    BY <1>5, AtTypes DEF BeginStep, At
  <2>2. step' \in [Ops -> [Positions -> StepStatuses]]
    <3>1. CASE step' = [step EXCEPT ![job[w]][pos[w]] = "running"]
      BY <2>1, <3>1 DEF TableTypeOK, StepStatuses
    <3>2. CASE step' = [step EXCEPT ![job[w]][pos[w]] = IF @ = "absent" THEN "pending" ELSE @]
      BY <2>1, <3>2 DEF TableTypeOK, StepStatuses
    <3> QED
      BY <1>5, <3>1, <3>2 DEF BeginStep
  <2>3. TableTypeOK'
    BY <1>5, <2>2 DEF BeginStep, TableTypeOK
  <2>4. WorkerTypeOK'
    <3>1. CASE pc' = [pc EXCEPT ![w] = "marked"] /\ UNCHANGED answer
      BY <1>5, <1>0, <2>1, <3>1, MoveTypes DEF WorkerStates, BeginStep
    <3>2. CASE /\ pc' = [pc EXCEPT ![w] = "done"]
               /\ answer' = [answer EXCEPT ![w] = IF step[job[w]][pos[w]] \in Unresolved
                                                    THEN "unknown" ELSE "failed"]
      BY <1>5, <1>0, <2>1, <3>2, MoveTypes DEF WorkerStates, Answers, BeginStep
    <3> QED
      BY <1>5, <3>1, <3>2 DEF BeginStep
  <2> QED
    BY <1>5, <2>3, <2>4, ProviderFrame, ProcessFrame, ControllerFrame DEF BeginStep
<1>6. CASE CallProvider(w)
  <2>1. job[w] \in Ops /\ pos[w] \in Positions
    BY <1>6 DEF CallProvider, Busy, WorkerTypeOK
  <2>2. called' \in [Ops -> Nat]
    BY <1>6, <2>1 DEF CallProvider, ProviderTypeOK
  <2>3. PICK a \in Answers \ {"none"} : answer' = [answer EXCEPT ![w] = a]
    BY <1>6 DEF CallProvider, Answers
  <2>4. applied' \in [Ops -> [Positions -> Nat]] /\ slow' \in Nat
    <3>1. CASE applied' = [applied EXCEPT ![job[w]][pos[w]] = @ + 1] /\ UNCHANGED slow
      <4>1. applied[job[w]][pos[w]] + 1 \in Nat /\ applied[job[w]] \in [Positions -> Nat]
        BY <2>1 DEF ProviderTypeOK
      <4> QED
        BY <2>1, <3>1, <4>1 DEF ProviderTypeOK
    <3>2. CASE UNCHANGED applied /\ (UNCHANGED slow \/ slow' = slow + 1)
      BY <3>2 DEF ProviderTypeOK
    <3> QED
      BY <1>6, <3>1, <3>2 DEF CallProvider
  <2>8. misread' \in [Ops -> [Positions -> Nat]]
    <3>1. CASE misread' = [misread EXCEPT ![job[w]][pos[w]] = @ + 1]
      <4>1. misread[job[w]][pos[w]] + 1 \in Nat /\ misread[job[w]] \in [Positions -> Nat]
        BY <2>1 DEF ProviderTypeOK
      <4> QED
        BY <2>1, <3>1, <4>1 DEF ProviderTypeOK
    <3>2. CASE UNCHANGED misread
      BY <3>2 DEF ProviderTypeOK
    <3> QED
      BY <1>6, <3>1, <3>2 DEF CallProvider
  <2>5. inflight' \subseteq Ops \X Positions
    <3>1. CASE UNCHANGED inflight
      BY <3>1 DEF ProviderTypeOK
    <3>2. CASE inflight' = inflight \cup {<<job[w], pos[w]>>}
      BY <2>1, <3>2 DEF ProviderTypeOK
    <3> QED
      BY <1>6, <3>1, <3>2 DEF CallProvider
  <2>6. ProviderTypeOK'
    BY <2>2, <2>4, <2>5, <2>8 DEF ProviderTypeOK
  <2>7. WorkerTypeOK'
    BY <1>6, <1>0, <2>1, <2>3, MoveTypes DEF CallProvider, WorkerStates
  <2> QED
    BY <1>6, <2>6, <2>7, TableFrame, ProcessFrame, ControllerFrame DEF CallProvider
<1>7. CASE RecordStep(w)
  <2>1. job[w] \in Ops
    BY <1>7, <1>0 DEF RecordStep, Busy
  <2>2. answer[w] \in {"ok", "failed", "unknown"}
    BY <1>7 DEF RecordStep, WorkerTypeOK, Answers
  <2>3. TableTypeOK'
    BY <1>7, <2>1, <2>2 DEF RecordStep, TableTypeOK, StepStatuses
  <2>4. WorkerTypeOK'
    <3>1. CASE pc' = [pc EXCEPT ![w] = "between"] /\ answer' = [answer EXCEPT ![w] = "none"]
               /\ NextStep(w)
      <4>1. pos[w] + 1 \in 1..MaxSteps + 1
        BY <1>7, BoundsAssumption DEF RecordStep, WorkerTypeOK, Positions
      <4> QED
        BY <1>7, <2>1, <3>1, <4>1, MoveTypes DEF RecordStep, WorkerStates, Answers, NextStep
    <3>2. CASE pc' = [pc EXCEPT ![w] = "done"] /\ UNCHANGED <<pos, answer>>
      BY <1>7, <1>0, <2>1, <3>2, MoveTypes DEF WorkerStates, RecordStep
    <3> QED
      BY <1>7, <3>1, <3>2 DEF RecordStep
  <2> QED
    BY <1>7, <2>3, <2>4, ProviderFrame, ProcessFrame, ControllerFrame DEF RecordStep
<1>8. CASE RecordStepFails(w)
  <2>1. job[w] \in Ops
    BY <1>8, <1>0 DEF RecordStepFails, Busy
  <2>2. WorkerTypeOK'
    BY <1>8, <1>0, <2>1, MoveTypes DEF WorkerStates, Answers, RecordStepFails
  <2>3. ProcessTypeOK'
    BY <1>8 DEF RecordStepFails, ProcessTypeOK
  <2> QED
    BY <1>8, <2>2, <2>3, TableFrame, ProviderFrame, ControllerFrame DEF RecordStepFails
<1>9. CASE CommitStep(w)
  <2>1. /\ job[w] \in Ops /\ pos[w] \in Positions /\ pos[w] + 1 \in 1..MaxSteps + 1
        /\ NewMailbox[job[w]] \in Resources
    BY <1>9, AtTypes, OpsAssumption DEF CommitStep, At
  <2>2. TableTypeOK'
    BY <1>9, <2>1 DEF CommitStep, TableTypeOK, StepStatuses, Acquire
  <2>3. WorkerTypeOK'
    BY <1>9, <1>0, <2>1, MoveTypes DEF CommitStep, At, NextStep
  <2> QED
    BY <1>9, <2>2, <2>3, ProviderFrame, ProcessFrame, ControllerFrame DEF CommitStep
<1>10. CASE ExternalStep(w)
  <2>1. job[w] \in Ops /\ pos[w] \in Positions /\ pos[w] + 1 \in 1..MaxSteps + 1
    BY <1>10, AtTypes DEF ExternalStep, At
  <2>2. TableTypeOK'
    BY <1>10, <2>1 DEF ExternalStep, TableTypeOK, StepStatuses
  <2>3. WorkerTypeOK'
    BY <1>10, <1>0, <2>1, MoveTypes DEF ExternalStep, At, NextStep
  <2> QED
    BY <1>10, <2>2, <2>3, ProviderFrame, ProcessFrame, ControllerFrame DEF ExternalStep
<1>11. CASE NoteProcessed(w)
  <2>1. job[w] \in Ops
    BY <1>11, AtTypes DEF NoteProcessed, AtEnd
  <2>2. TableTypeOK'
    BY <1>11, <2>1 DEF NoteProcessed, TableTypeOK
  <2> QED
    BY <1>11, <2>2, ProviderFrame, ProcessFrame, WorkerFrame, ControllerFrame
    DEF NoteProcessed
<1>12. CASE AwaitReports(w)
  <2>1. job[w] \in Ops
    BY <1>12, AtTypes DEF AwaitReports, AtEnd
  <2>2. WorkerTypeOK'
    BY <1>12, <1>0, <2>1, MoveTypes DEF AwaitReports, WorkerStates, Answers
  <2> QED
    BY <1>12, <2>2, TableFrame, ProviderFrame, ProcessFrame, ControllerFrame DEF AwaitReports
<1>13. CASE Complete(w)
  <2>1. job[w] \in Ops
    BY <1>13, AtTypes DEF Complete, AtEnd
  <2>2. step' \in [Ops -> [Positions -> StepStatuses]]
    BY <1>13, <2>1 DEF Complete, TableTypeOK, StepStatuses
  <2>3. TableTypeOK'
    BY <1>13, <2>1, <2>2 DEF Complete, TableTypeOK, Statuses, StepStatuses, Unlock
  <2>4. WorkerTypeOK'
    BY <1>13, <1>0, <2>1, MoveTypes DEF Complete, WorkerStates, Answers
  <2> QED
    BY <1>13, <2>3, <2>4, ProviderFrame, ProcessFrame, ControllerFrame DEF Complete
<1>14. CASE StopWithError(w)
  <2>1. PICK a \in {"failed", "unknown"} : answer' = [answer EXCEPT ![w] = a]
    BY <1>14 DEF StopWithError
  <2>2. WorkerTypeOK'
    BY <1>14, <1>0, <2>1, MoveTypes, AtTypes DEF StopWithError, WorkerStates, Answers
  <2> QED
    BY <1>14, <2>2, TableFrame, ProviderFrame, ProcessFrame, ControllerFrame DEF StopWithError
<1>15. CASE Finish(w)
  <2>1. job[w] \in Ops
    BY <1>15, <1>0 DEF Finish, Busy
  <2>2. Outcome(job[w], answer[w]) \in {"unknown", "needs_action", "failed"}
    BY DEF Outcome
  <2>3. TableTypeOK'
    <3>1. CASE UNCHANGED <<status, execute, locks>>
      BY <1>15, <3>1 DEF Finish, TableTypeOK
    <3>2. CASE status[job[w]] # "succeeded"
      <4>1. /\ status' = [status EXCEPT ![job[w]] = Outcome(job[w], answer[w])]
            /\ \E s \in {"unknown", "failed"} : execute' = [execute EXCEPT ![job[w]] = s]
            /\ UNCHANGED locks \/ Unlock(job[w])
        BY <1>15, <3>2 DEF Finish
      <4>2. locks' \in [Resources -> Ops \cup {NoOp}]
        BY <4>1 DEF TableTypeOK, Unlock
      <4>3. status' \in [Ops -> Statuses] /\ execute' \in [Ops -> StepStatuses]
        BY <4>1, <2>2 DEF TableTypeOK, Statuses, StepStatuses
      <4> QED
        BY <1>15, <4>2, <4>3 DEF Finish, TableTypeOK
    <3> QED
      BY <1>15, <3>1, <3>2 DEF Finish
  <2>4. WorkerTypeOK'
    BY <1>15, LeaveTypes DEF Finish
  <2> QED
    BY <1>15, <2>3, <2>4, ProviderFrame, ProcessFrame, ControllerFrame DEF Finish
<1>16. CASE WorkerFails(w)
  <2>1. ProcessTypeOK'
    BY <1>16 DEF WorkerFails, ProcessTypeOK
  <2>2. WorkerTypeOK'
    BY <1>16, LeaveTypes DEF WorkerFails
  <2> QED
    BY <1>16, <2>1, <2>2, TableFrame, ProviderFrame, ControllerFrame DEF WorkerFails
<1> QED
  BY <1>1, <1>2, <1>3, <1>4, <1>5, <1>6, <1>7, <1>8, <1>9, <1>10, <1>11, <1>12, <1>13,
     <1>14, <1>15, <1>16 DEF WorkerStep

\* So do the actions of the administrators.
LEMMA TypeAdministrator ==
  ASSUME TypeOK, NEW o \in Ops, AdministratorStep(o)
  PROVE  TypeOK'
<1> USE DEF TypeOK
<1>1. CASE QueueOperation(o)
  <2>1. rows' \in Seq(Ops)
    BY <1>1 DEF QueueOperation, TableTypeOK
  <2>2. TableTypeOK'
    BY <1>1, <2>1 DEF QueueOperation, TableTypeOK, Statuses, StepStatuses, Acquire
  <2> QED
    BY <1>1, <2>2, ProviderFrame, ProcessFrame, WorkerFrame, ControllerFrame
    DEF QueueOperation
<1>2. CASE Cancel(o)
  <2>1. TableTypeOK'
    BY <1>2 DEF Cancel, TableTypeOK, Statuses, Unlock
  <2> QED
    BY <1>2, <2>1, ProviderFrame, ProcessFrame, WorkerFrame, ControllerFrame DEF Cancel
<1>3. CASE Retry(o)
  <2>1. step' \in [Ops -> [Positions -> StepStatuses]]
    BY <1>3 DEF Retry, TableTypeOK, StepStatuses
  <2>2. TableTypeOK'
    BY <1>3, <2>1 DEF Retry, TableTypeOK, Statuses, StepStatuses, Acquire
  <2>3. ProcessTypeOK'
    BY <1>3 DEF Retry, ProcessTypeOK
  <2> QED
    BY <1>3, <2>2, <2>3, ProviderFrame, WorkerFrame, ControllerFrame DEF Retry
<1>4. CASE ReconcileLocal(o)
  <2>1. TableTypeOK'
    BY <1>4 DEF ReconcileLocal, TableTypeOK, Statuses, StepStatuses, Unlock
  <2> QED
    BY <1>4, <2>1, ProviderFrame, ProcessFrame, WorkerFrame, ControllerFrame
    DEF ReconcileLocal
<1>5. CASE \E k \in Positions : Confirm(o, k)
  <2>1. PICK k \in Positions : Confirm(o, k)
    BY <1>5
  <2>2. step' \in [Ops -> [Positions -> StepStatuses]]
    BY <2>1 DEF Confirm, TableTypeOK, StepStatuses
  <2>3. TableTypeOK'
    <3>1. CASE UNCHANGED <<status, execute, locks>>
      BY <2>1, <2>2, <3>1 DEF Confirm, TableTypeOK
    <3>2. CASE /\ status' = [status EXCEPT ![o] = "succeeded"]
               /\ execute' = [execute EXCEPT ![o] = "succeeded"]
               /\ Unlock(o)
      BY <2>1, <2>2, <3>2 DEF Confirm, TableTypeOK, Statuses, StepStatuses, Unlock
    <3> QED
      BY <2>1, <3>1, <3>2 DEF Confirm
  <2> QED
    BY <2>1, <2>3, ProviderFrame, ProcessFrame, WorkerFrame, ControllerFrame DEF Confirm
<1>6. CASE \E k \in Positions : ReportLostCredentialCleanup(o, k)
  <2>1. PICK k \in Positions : ReportLostCredentialCleanup(o, k)
    BY <1>6
  <2>2. TableTypeOK'
    BY <2>1 DEF ReportLostCredentialCleanup, TableTypeOK, Statuses, StepStatuses, Unlock
  <2> QED
    BY <2>1, <2>2, ProviderFrame, ProcessFrame, WorkerFrame, ControllerFrame
    DEF ReportLostCredentialCleanup
<1>7. CASE ChangePermission(o)
  <2>1. TableTypeOK'
    BY <1>7 DEF ChangePermission, TableTypeOK, tableVars
  <2> QED
    BY <1>7, <2>1, ProviderFrame, ProcessFrame, WorkerFrame, ControllerFrame DEF ChangePermission
<1> QED
  BY <1>1, <1>2, <1>3, <1>4, <1>5, <1>6, <1>7 DEF AdministratorStep

\* And those of a controller that reconciles.
LEMMA TypeController ==
  ASSUME TypeOK, NEW c \in Controllers, ControllerStep(c)
  PROVE  TypeOK'
<1> USE DEF TypeOK
<1>0. ASSUME Answered(c) PROVE ControllerTypeOK'
  BY <1>0 DEF Answered, ControllerTypeOK, ControllerStates
<1>1. CASE \E o \in Ops : ViewOperation(c, o)
  <2>1. PICK o \in Ops : ViewOperation(c, o)
    BY <1>1
  <2>2. ControllerTypeOK'
    BY <2>1 DEF ViewOperation, ControllerTypeOK, ControllerStates
  <2> QED
    BY <2>1, <2>2, TableFrame, ProviderFrame, ProcessFrame, WorkerFrame DEF ViewOperation
<1>2. CASE ListSteps(c)
  <2>1. ControllerTypeOK'
    BY <1>2 DEF ListSteps, ControllerTypeOK, ControllerStates, Steps
  <2> QED
    BY <1>2, <2>1, TableFrame, ProviderFrame, ProcessFrame, WorkerFrame DEF ListSteps
<1>3. CASE ReadProvider(c)
  <2>1. ControllerTypeOK'
    BY <1>3 DEF ReadProvider, ControllerTypeOK, ControllerStates
  <2> QED
    BY <1>3, <2>1, TableFrame, ProviderFrame, ProcessFrame, WorkerFrame DEF ReadProvider
<1>4. CASE RecordVerdict(c)
  <2>1. cop[c] \in Ops /\ verdict[c] \in {"succeeded", "failed"}
    BY <1>4 DEF RecordVerdict, ControllerTypeOK
  <2>2. TableTypeOK'
    BY <1>4, <2>1 DEF RecordVerdict, TableTypeOK, StepStatuses
  <2>3. ControllerTypeOK'
    BY <1>4 DEF RecordVerdict, ControllerTypeOK, ControllerStates
  <2> QED
    BY <1>4, <2>2, <2>3, ProviderFrame, ProcessFrame, WorkerFrame DEF RecordVerdict
<1>5. CASE FinishReconcile(c)
  <2>1. cop[c] \in Ops
    BY <1>5 DEF FinishReconcile, ControllerTypeOK
  <2>2. TableTypeOK'
    BY <1>5, <2>1 DEF FinishReconcile, TableTypeOK, Statuses, StepStatuses
  <2> QED
    BY <1>5, <1>0, <2>2, ProviderFrame, ProcessFrame, WorkerFrame DEF FinishReconcile
<1>6. CASE AbandonReconcile(c)
  BY <1>6, <1>0, TableFrame, ProviderFrame, ProcessFrame, WorkerFrame DEF AbandonReconcile
<1> QED
  BY <1>1, <1>2, <1>3, <1>4, <1>5, <1>6 DEF ControllerStep

\* The process stops.
LEMMA TypeDown ==
  ASSUME TypeOK, Down, interruptions' \in Nat
  PROVE  TypeOK'
<1>1. ProcessTypeOK'
  BY DEF Down, TypeOK, ProcessTypeOK
<1>2. WorkerTypeOK'
  BY BoundsAssumption DEF Down, WorkerTypeOK, WorkerStates, Busy, Answers
<1>3. ControllerTypeOK'
  BY DEF Down, ControllerTypeOK, ControllerStates
<1> QED
  BY <1>1, <1>2, <1>3, TableFrame, ProviderFrame DEF Down, TypeOK

\* Every step keeps the types.
LEMMA TypeNext == TypeOK /\ [Next]_vars => TypeOK'
<1> SUFFICES ASSUME TypeOK, [Next]_vars PROVE TypeOK'
  OBVIOUS
<1>1. CASE Crash \/ Shutdown
  <2>1. Down /\ interruptions' \in Nat
    BY <1>1 DEF Crash, Shutdown, TypeOK, ProcessTypeOK
  <2> QED
    BY <2>1, TypeDown
<1>2. CASE StartOperations
  <2>1. step' \in [Ops -> [Positions -> StepStatuses]]
    BY <1>2 DEF StartOperations, TypeOK, TableTypeOK, Interrupted, StepStatuses
  <2>2. TableTypeOK'
    BY <1>2, <2>1 DEF StartOperations, TypeOK, TableTypeOK, Interrupted, StepStatuses, Statuses
  <2>3. ProcessTypeOK'
    BY <1>2 DEF StartOperations, TypeOK, ProcessTypeOK
  <2> QED
    BY <1>2, <2>2, <2>3, ProviderFrame, WorkerFrame, ControllerFrame DEF StartOperations, TypeOK
<1>3. CASE LateEffect
  <2>1. PICK x \in inflight : /\ inflight' = inflight \ {x}
                              /\ applied' = [applied EXCEPT ![x[1]][x[2]] = @ + 1]
    BY <1>3 DEF LateEffect
  <2>2. PICK o \in Ops, k \in Positions : x = <<o, k>>
    BY <2>1 DEF TypeOK, ProviderTypeOK
  <2>3. applied[o][k] + 1 \in Nat /\ applied[o] \in [Positions -> Nat]
    BY <2>2 DEF TypeOK, ProviderTypeOK
  <2>4. applied' = [applied EXCEPT ![o][k] = applied[o][k] + 1]
    BY <2>1, <2>2
  <2>5. ProviderTypeOK'
    BY <1>3, <2>1, <2>3, <2>4 DEF LateEffect, TypeOK, ProviderTypeOK
  <2> QED
    BY <1>3, <2>5, TableFrame, ProcessFrame, WorkerFrame, ControllerFrame DEF LateEffect, TypeOK
<1>4. CASE UNCHANGED vars
  BY <1>4, TableFrame, ProviderFrame, ProcessFrame, WorkerFrame, ControllerFrame
  DEF vars, TypeOK
<1> QED
  BY <1>1, <1>2, <1>3, <1>4, TypeWorker, TypeController, TypeAdministrator DEF Next

\* Every variable keeps its type, whatever the workers, the administrators and crashes do.
THEOREM TypeCorrect == Spec => []TypeOK
<1>1. Init => TypeOK
  BY TypeInit
<1>2. TypeOK /\ [Next]_vars => TypeOK'
  BY TypeNext
<1> QED
  BY <1>1, <1>2, PTL DEF Spec

-----------------------------------------------------------------------------
(* Where the workers are *)

\* A busy worker has a running operation of its own, unless it just completed it; a worker
\* in a provider call stands before a step that is one.
Placed ==
    /\ \A w \in Workers : pc[w] \in Busy =>
         \/ status[job[w]] = "running"
         \/ pc[w] = "done" /\ answer[w] = "ok" /\ status[job[w]] = "succeeded"
    /\ \A v, w \in Workers : v # w /\ pc[v] \in Busy /\ pc[w] \in Busy => job[v] # job[w]
    /\ ~up => \A w \in Workers : pc[w] = "idle"
    /\ \A w \in Workers : pc[w] \in {"marked", "answered"} => KindOf[job[w]][pos[w]] \in Calls

\* Statuses that nobody changes under a worker.
WorkersKept == \A p \in Ops : status[p] \in {"running", "succeeded"} => status'[p] = status[p]

\* A step that moves no worker, and nothing under a worker, keeps them in place.
LEMMA PlacedKept ==
  ASSUME TypeOK, Placed, UNCHANGED <<workerVars, up>>, WorkersKept
  PROVE  Placed'
  BY DEF TypeOK, WorkerTypeOK, Placed, WorkersKept, workerVars

\* A busy worker stays in place when it goes on with its operation.
LEMMA PlacedMove ==
  ASSUME TypeOK, Placed, NEW w \in Workers, pc[w] \in Busy \ {"done"},
         NEW state \in Busy, pc' = [pc EXCEPT ![w] = state],
         NEW p, pos' = [pos EXCEPT ![w] = p],
         \A v \in Workers \ {w} : answer'[v] = answer[v],
         state \in {"marked", "answered"} => KindOf[job[w]][p] \in Calls,
         UNCHANGED <<job, status, up>>
  PROVE  Placed'
<1> USE DEF TypeOK, WorkerTypeOK
<1>1. /\ \A v \in Workers \ {w} : pc'[v] = pc[v] /\ pos'[v] = pos[v]
      /\ pc'[w] = state /\ pos'[w] = p
  OBVIOUS
<1>2. status[job[w]] = "running"
  BY DEF Placed
<1>3. pc[w] # "idle"
  BY DEF Busy
<1> QED
  BY <1>1, <1>2, <1>3 DEF Placed

\* Nobody is out of place when a worker leaves its operation.
LEMMA PlacedLeave ==
  ASSUME TypeOK, Placed, up, UNCHANGED up, NEW w \in Workers,
         NEW state \in {"idle", "stopped"}, Leave(w, state),
         \A p \in Ops : p # job[w] /\ status[p] \in {"running", "succeeded"} =>
                          status'[p] = status[p],
         UNCHANGED status \/ pc[w] \in Busy
  PROVE  Placed'
<1> USE DEF TypeOK, WorkerTypeOK
<1>1. \A v \in Workers \ {w} : /\ pc'[v] = pc[v] /\ pos'[v] = pos[v] /\ job'[v] = job[v]
                               /\ answer'[v] = answer[v]
  BY DEF Leave
<1>2. pc'[w] = state /\ state \notin Busy \cup {"marked", "answered"}
  BY DEF Leave, Busy
<1> QED
  BY <1>1, <1>2 DEF Placed

\* At the beginning no worker is anywhere.
LEMMA PlacedInit == Init => Placed
  BY DEF Init, Placed, Busy

\* The steps of a worker keep all workers in place.
LEMMA PlacedWorker ==
  ASSUME TypeOK, Placed, NEW w \in Workers,
         WorkerStep(w) \/ RecordStepFails(w) \/ WorkerFails(w)
  PROVE  Placed'
<1>0. /\ pos = [pos EXCEPT ![w] = pos[w]]
      /\ pc = [pc EXCEPT ![w] = pc[w]]
      /\ \A v \in Workers \ {w} : \A a : [answer EXCEPT ![w] = a][v] = answer[v]
      /\ pc[w] # "idle" => up
  BY DEF TypeOK, WorkerTypeOK, Placed
<1>1. CASE Select(w)
  <2>1. pc'[w] = "selected" /\ pc[w] \notin Busy /\ pc'[w] \notin Busy
    BY <1>1 DEF Select, TypeOK, WorkerTypeOK, Busy
  <2>2. \A v \in Workers \ {w} : pc'[v] = pc[v] /\ job'[v] = job[v]
    BY <1>1 DEF Select, TypeOK, WorkerTypeOK
  <2> QED
    BY <1>1, <2>1, <2>2 DEF Select, Placed, processVars, tableVars
<1>2. CASE Claim(w)
  <2>1. CASE status[job[w]] = "queued" /\ pc' = [pc EXCEPT ![w] = "claimed"]
             /\ status' = [status EXCEPT ![job[w]] = "running"] /\ UNCHANGED <<job, pos, answer>>
    <3>1. /\ \A v \in Workers \ {w} : pc'[v] = pc[v]
          /\ pc'[w] = "claimed" /\ job[w] \in Ops /\ pc[w] = "selected"
      BY <1>2, <2>1 DEF Claim, TypeOK, WorkerTypeOK
    <3>2. \A v \in Workers \ {w} : pc[v] \in Busy => job[v] # job[w]
      BY <2>1 DEF Placed
    <3>3. \A v \in Workers \ {w} : pc[v] \in Busy => status'[job[v]] = status[job[v]]
      BY <2>1, <3>2 DEF TypeOK, WorkerTypeOK, TableTypeOK
    <3>4. status'[job[w]] = "running"
      BY <2>1, <3>1 DEF TypeOK, TableTypeOK
    <3>5. up'
      BY <1>2, <3>1, <1>0 DEF Claim, processVars
    <3> QED
      BY <2>1, <3>1, <3>2, <3>3, <3>4, <3>5 DEF Placed
  <2>2. CASE Leave(w, "idle") /\ UNCHANGED status
    BY <1>0, <1>2, <2>2, PlacedLeave DEF Claim, processVars
  <2> QED
    BY <1>2, <2>1, <2>2 DEF Claim
<1>3. CASE StartExecute(w)
  <2>1. PICK state \in {"between", "done"} : pc' = [pc EXCEPT ![w] = state]
    BY <1>3 DEF StartExecute
  <2>2. \A v \in Workers \ {w} : answer'[v] = answer[v]
    BY <1>3, <1>0 DEF StartExecute
  <2> QED
    BY <1>0, <1>3, <2>1, <2>2, PlacedMove DEF StartExecute, processVars, Busy
<1>4. CASE SkipStep(w)
  BY <1>0, <1>4, PlacedMove DEF SkipStep, At, NextStep, tableVars, processVars, Busy
<1>5. CASE BeginStep(w)
  <2>1. PICK state \in {"marked", "done"} : pc' = [pc EXCEPT ![w] = state]
    BY <1>5 DEF BeginStep
  <2>2. \A v \in Workers \ {w} : answer'[v] = answer[v]
    <3>1. CASE UNCHANGED answer
      BY <3>1
    <3>2. CASE answer' = [answer EXCEPT ![w] = IF step[job[w]][pos[w]] \in Unresolved
                                                 THEN "unknown" ELSE "failed"]
      BY <3>2, <1>0
    <3> QED
      BY <1>5, <3>1, <3>2 DEF BeginStep
  <2> QED
    BY <1>0, <1>5, <2>1, <2>2, PlacedMove DEF BeginStep, At, processVars, Busy
<1>6. CASE CallProvider(w)
  <2>0. PICK a : answer' = [answer EXCEPT ![w] = a]
    <3>1. CASE answer' = [answer EXCEPT ![w] = "ok"]
      BY <3>1
    <3>2. CASE answer' = [answer EXCEPT ![w] = "failed"]
      BY <3>2
    <3>3. CASE answer' = [answer EXCEPT ![w] = "unknown"]
      BY <3>3
    <3> QED
      BY <1>6, <3>1, <3>2, <3>3, Zenon DEF CallProvider
  <2>1. \A v \in Workers \ {w} : answer'[v] = answer[v]
    BY <2>0, <1>0
  <2>2. KindOf[job[w]][pos[w]] \in Calls
    BY <1>6 DEF CallProvider, Placed
  <2> QED
    BY <1>0, <1>6, <2>1, <2>2, PlacedMove DEF CallProvider, tableVars, processVars, Busy
<1>7. CASE RecordStep(w)
  <2>1. PICK state \in {"between", "done"} : pc' = [pc EXCEPT ![w] = state]
    BY <1>7 DEF RecordStep
  <2>2. \A v \in Workers \ {w} : answer'[v] = answer[v]
    BY <1>7, <1>0 DEF RecordStep
  <2>3. \E p : pos' = [pos EXCEPT ![w] = p]
    BY <1>7, <1>0 DEF RecordStep, NextStep
  <2> QED
    BY <1>0, <1>7, <2>1, <2>2, <2>3, PlacedMove DEF RecordStep, processVars, Busy
<1>8. CASE RecordStepFails(w)
  BY <1>0, <1>8, PlacedMove DEF RecordStepFails, tableVars, Busy
<1>9. CASE CommitStep(w)
  BY <1>0, <1>9, PlacedMove DEF CommitStep, At, NextStep, processVars, Busy
<1>10. CASE ExternalStep(w)
  BY <1>0, <1>10, PlacedMove DEF ExternalStep, At, NextStep, processVars, Busy
<1>11. CASE NoteProcessed(w)
  BY <1>11, PlacedKept DEF NoteProcessed, processVars, WorkersKept
<1>12. CASE AwaitReports(w)
  BY <1>0, <1>12, PlacedMove DEF AwaitReports, AtEnd, tableVars, processVars, Busy
<1>13. CASE Complete(w)
  <2>1. /\ \A v \in Workers \ {w} : pc'[v] = pc[v] /\ answer'[v] = answer[v]
        /\ pc'[w] = "done" /\ answer'[w] = "ok" /\ job[w] \in Ops /\ pc[w] = "between"
    BY <1>13 DEF Complete, AtEnd, TypeOK, WorkerTypeOK, Busy
  <2>2. status'[job[w]] = "succeeded"
    BY <1>13, <2>1 DEF Complete, TypeOK, TableTypeOK
  <2>3. \A v \in Workers \ {w} : pc[v] \in Busy => job[v] # job[w]
    BY <2>1 DEF Placed, Busy
  <2>4. \A v \in Workers \ {w} : pc[v] \in Busy => status'[job[v]] = status[job[v]]
    BY <1>13, <2>3 DEF Complete, TypeOK, TableTypeOK, WorkerTypeOK
  <2>5. up'
    BY <1>13, <2>1, <1>0 DEF Complete, processVars
  <2> QED
    BY <1>13, <2>1, <2>2, <2>3, <2>4, <2>5 DEF Placed, Complete
<1>14. CASE StopWithError(w)
  <2>1. \A v \in Workers \ {w} : answer'[v] = answer[v]
    BY <1>14, <1>0 DEF StopWithError
  <2> QED
    BY <1>0, <1>14, <2>1, PlacedMove DEF StopWithError, tableVars, processVars, Busy
<1>15. CASE Finish(w)
  <2>1. \A p \in Ops : p # job[w] => status'[p] = status[p]
    BY <1>15 DEF Finish, TypeOK, TableTypeOK
  <2> QED
    BY <1>0, <1>15, <2>1, PlacedLeave DEF Finish, processVars, Busy
<1>16. CASE WorkerFails(w)
  BY <1>16, PlacedLeave DEF WorkerFails, tableVars
<1> QED
  BY <1>1, <1>2, <1>3, <1>4, <1>5, <1>6, <1>7, <1>8, <1>9, <1>10, <1>11, <1>12, <1>13,
     <1>14, <1>15, <1>16 DEF WorkerStep

\* Administrators leave operations that run, or succeeded, to their workers.
LEMMA AdministratorsKeepWorkers ==
  ASSUME TypeOK,
         \/ \E c \in Controllers : ControllerStep(c)
         \/ \E o \in Ops : AdministratorStep(o)
  PROVE  WorkersKept /\ UNCHANGED <<workerVars, up>>
<1> USE DEF TypeOK, TableTypeOK, WorkersKept
<1>1. ASSUME NEW c \in Controllers, ControllerStep(c)
      PROVE  WorkersKept /\ UNCHANGED <<workerVars, up>>
  <2>1. CASE FinishReconcile(c)
    BY <2>1 DEF FinishReconcile, processVars
  <2>2. CASE ~FinishReconcile(c)
    BY <1>1, <2>2 DEF ControllerStep, ViewOperation, ListSteps, ReadProvider, RecordVerdict,
       AbandonReconcile, tableVars, processVars
  <2> QED
    BY <2>1, <2>2
<1>2. ASSUME NEW o \in Ops, AdministratorStep(o)
      PROVE  WorkersKept /\ UNCHANGED <<workerVars, up>>
  <2>1. CASE QueueOperation(o)
    BY <2>1 DEF QueueOperation, Prior, processVars
  <2>2. CASE Cancel(o)
    BY <2>2 DEF Cancel, processVars
  <2>3. CASE Retry(o)
    BY <2>3 DEF Retry
  <2>4. CASE ReconcileLocal(o)
    BY <2>4 DEF ReconcileLocal, processVars
  <2>5. CASE \E k \in Positions : Confirm(o, k)
    BY <2>5 DEF Confirm, processVars
  <2>6. CASE \E k \in Positions : ReportLostCredentialCleanup(o, k)
    BY <2>6 DEF ReportLostCredentialCleanup, processVars
  <2>7. CASE ChangePermission(o)
    BY <2>7 DEF ChangePermission, tableVars, processVars
  <2> QED
    BY <1>2, <2>1, <2>2, <2>3, <2>4, <2>5, <2>6, <2>7 DEF AdministratorStep
<1> QED
  BY <1>1, <1>2

\* So does every step of the engine.
LEMMA PlacedNext == TypeOK /\ Placed /\ [Next]_vars => Placed'
<1> SUFFICES ASSUME TypeOK, Placed, [Next]_vars PROVE Placed'
  OBVIOUS
<1>1. CASE (\E c \in Controllers : ControllerStep(c)) \/ (\E o \in Ops : AdministratorStep(o))
  BY <1>1, AdministratorsKeepWorkers, PlacedKept
<1>2. CASE Crash \/ Shutdown
  BY <1>2 DEF Crash, Shutdown, Down, Placed, Busy
<1>3. CASE StartOperations
  BY <1>3 DEF StartOperations, Placed, Busy, workerVars
<1>4. CASE LateEffect \/ UNCHANGED vars
  BY <1>4, PlacedKept DEF LateEffect, vars, tableVars, processVars, WorkersKept
<1> QED
  BY <1>1, <1>2, <1>3, <1>4, PlacedWorker DEF Next

-----------------------------------------------------------------------------
(* The steps *)

\* Steps are only recorded where an operation has them, and those that create a mailbox have
\* happened or not.
Shaped ==
    \A o \in Ops : \A k \in Positions :
        /\ KindOf[o][k] = "none" => step[o][k] = "absent"
        /\ KindOf[o][k] = "commit" => step[o][k] \in {"absent", "succeeded"}
        /\ status[o] = "absent" => step[o][k] = "absent"

CommitsKept ==
    \A o \in Ops : \A k \in Positions : KindOf[o][k] = "commit" => step'[o][k] = step[o][k]

\* Then an operation needs the same locks as before.
LEMMA NeededKept ==
  ASSUME CommitsKept
  PROVE  \A o \in Ops : Needed(o)' = Needed(o)
  BY DEF CommitsKept, Needed, Steps

\* At the beginning no operation has a step.
LEMMA ShapedInit == Init => Shaped
  BY DEF Init, Shaped

\* A step of an existing operation gets a new status.
LEMMA ShapedSet ==
  ASSUME TypeOK, Shaped, NEW o \in Ops, NEW k \in Positions,
         KindOf[o][k] \notin {"none", "commit"} \/ step[o][k] \in Unresolved,
         NEW s, step' = [step EXCEPT ![o][k] = s],
         status[o] # "absent",
         \A p \in Ops : status'[p] = "absent" => status[p] = "absent"
  PROVE  Shaped' /\ CommitsKept
<1>1. KindOf[o][k] \notin {"none", "commit"}
  BY DEF Shaped, Unresolved
<1>2. \A p \in Ops, j \in Positions :
        step'[p][j] = IF p = o /\ j = k THEN s ELSE step[p][j]
  BY DEF TypeOK, TableTypeOK
<1> QED
  BY <1>1, <1>2 DEF Shaped, CommitsKept

\* A step that writes no row of a step keeps their shape.
LEMMA ShapedFrame ==
  ASSUME Shaped, UNCHANGED step,
         \A p \in Ops : status'[p] = "absent" => status[p] = "absent"
  PROVE  Shaped' /\ CommitsKept
  BY DEF Shaped, CommitsKept

\* A worker keeps it, and only CommitStep writes a commit.
LEMMA ShapedWorker ==
  ASSUME TypeOK, Placed, Shaped, NEW w \in Workers, ~CommitStep(w),
         WorkerStep(w) \/ RecordStepFails(w) \/ WorkerFails(w)
  PROVE  Shaped' /\ CommitsKept
<1>1. pc[w] \in Busy => /\ job[w] \in Ops /\ status[job[w]] \in {"running", "succeeded"}
  BY DEF Placed, TypeOK, WorkerTypeOK
<1>2. CASE Claim(w)
  <2>1. \A p \in Ops : status'[p] = "absent" => status[p] = "absent"
    BY <1>2 DEF Claim, TypeOK, TableTypeOK
  <2> QED
    BY <1>2, <2>1, ShapedFrame DEF Claim
<1>3. CASE BeginStep(w)
  <2>1. /\ job[w] \in Ops /\ pos[w] \in Positions /\ status[job[w]] = "running"
        /\ KindOf[job[w]][pos[w]] \in Calls
    BY <1>1, <1>3 DEF BeginStep, At, Steps, Busy, Placed
  <2>2. PICK s : step' = [step EXCEPT ![job[w]][pos[w]] = s]
    <3>1. CASE step' = [step EXCEPT ![job[w]][pos[w]] = "running"]
      BY <3>1
    <3>2. CASE step' = [step EXCEPT ![job[w]][pos[w]] = IF @ = "absent" THEN "pending" ELSE @]
      <4>1. step' = [step EXCEPT ![job[w]][pos[w]] =
                       IF step[job[w]][pos[w]] = "absent" THEN "pending"
                                                          ELSE step[job[w]][pos[w]]]
        BY <3>2
      <4> QED
        BY <4>1
    <3> QED
      BY <1>3, <3>1, <3>2 DEF BeginStep
  <2> QED
    BY <1>3, <2>1, <2>2, ShapedSet DEF BeginStep, Calls
<1>4. CASE RecordStep(w)
  <2>1. /\ job[w] \in Ops /\ pos[w] \in Positions /\ status[job[w]] = "running"
        /\ KindOf[job[w]][pos[w]] \in Calls
    BY <1>4 DEF RecordStep, TypeOK, WorkerTypeOK, Busy, Placed
  <2> QED
    BY <1>4, <2>1, ShapedSet DEF RecordStep, Calls
<1>5. CASE ExternalStep(w)
  <2>1. /\ job[w] \in Ops /\ pos[w] \in Positions /\ status[job[w]] = "running"
        /\ KindOf[job[w]][pos[w]] = "external"
    BY <1>1, <1>5 DEF ExternalStep, At, Steps, Busy, Placed
  <2> QED
    BY <1>5, <2>1, ShapedSet DEF ExternalStep
<1>6. CASE Complete(w)
  <2>1. job[w] \in Ops /\ status[job[w]] = "running"
    BY <1>1, <1>6 DEF Complete, AtEnd, Busy
  <2>2. \A p \in Ops, j \in Positions :
          step'[p][j] = IF p = job[w] /\ step[p][j] = "running" THEN "succeeded"
                                                                 ELSE step[p][j]
    BY <1>6, <2>1 DEF Complete, TypeOK, TableTypeOK
  <2>3. \A p \in Ops : status'[p] = "absent" => status[p] = "absent"
    BY <1>6, <2>1 DEF Complete, TypeOK, TableTypeOK
  <2> QED
    BY <2>1, <2>2, <2>3 DEF Shaped, CommitsKept
<1>7. CASE Finish(w)
  <2>1. job[w] \in Ops /\ Outcome(job[w], answer[w]) # "absent"
    BY <1>1, <1>7 DEF Finish, Busy, Outcome
  <2>2. \A p \in Ops : status'[p] = "absent" => status[p] = "absent"
    BY <1>7, <2>1 DEF Finish, TypeOK, TableTypeOK
  <2> QED
    BY <1>7, <2>2, ShapedFrame DEF Finish
<1>8. CASE \/ Select(w) \/ StartExecute(w) \/ SkipStep(w) \/ CallProvider(w)
           \/ RecordStepFails(w) \/ NoteProcessed(w) \/ AwaitReports(w) \/ StopWithError(w)
           \/ WorkerFails(w)
  <2>1. UNCHANGED <<step, status>>
    BY <1>8 DEF Select, StartExecute, SkipStep, CallProvider, RecordStepFails, NoteProcessed,
       AwaitReports, StopWithError, WorkerFails, tableVars
  <2> QED
    BY <2>1, ShapedFrame
<1> QED
  BY <1>2, <1>3, <1>4, <1>5, <1>6, <1>7, <1>8 DEF WorkerStep

\* CommitStep records a commit that succeeded.
LEMMA ShapedCommit ==
  ASSUME TypeOK, Placed, Shaped, NEW w \in Workers, CommitStep(w)
  PROVE  Shaped'
<1>1. /\ job[w] \in Ops /\ pos[w] \in Positions /\ status[job[w]] = "running"
      /\ KindOf[job[w]][pos[w]] = "commit"
  BY DEF CommitStep, At, Steps, Busy, Placed, TypeOK, WorkerTypeOK
<1>2. \A p \in Ops, j \in Positions :
        step'[p][j] = IF p = job[w] /\ j = pos[w] THEN "succeeded" ELSE step[p][j]
  BY <1>1 DEF CommitStep, TypeOK, TableTypeOK
<1> QED
  BY <1>1, <1>2 DEF Shaped, CommitStep

\* Retries, cancellations and reports keep it.
LEMMA ShapedAdministrator ==
  ASSUME TypeOK, Shaped, NEW o \in Ops, AdministratorStep(o)
  PROVE  Shaped' /\ CommitsKept
<1>0. ASSUME NEW s \in Statuses \ {"absent"}, status' = [status EXCEPT ![o] = s]
      PROVE  \A p \in Ops : status'[p] = "absent" => status[p] = "absent"
  BY <1>0 DEF TypeOK, TableTypeOK
<1>1. CASE QueueOperation(o)
  BY <1>0, <1>1, ShapedFrame DEF QueueOperation, Statuses
<1>2. CASE Cancel(o)
  BY <1>0, <1>2, ShapedFrame DEF Cancel, Statuses
<1>3. CASE Retry(o)
  <2>1. \A p \in Ops, j \in Positions :
          step'[p][j] = IF p = o /\ step[p][j] = "failed" THEN "pending" ELSE step[p][j]
    BY <1>3 DEF Retry, TypeOK, TableTypeOK
  <2>2. \A p \in Ops : status'[p] = "absent" => status[p] = "absent"
    BY <1>0, <1>3 DEF Retry, Statuses
  <2> QED
    BY <1>3, <2>1, <2>2 DEF Shaped, CommitsKept, Retry
<1>4. CASE ReconcileLocal(o)
  BY <1>0, <1>4, ShapedFrame DEF ReconcileLocal, Statuses
<1>5. CASE \E k \in Positions : Confirm(o, k)
  <2>1. PICK k \in Positions : Confirm(o, k)
    BY <1>5
  <2>2. \A p \in Ops : status'[p] = "absent" => status[p] = "absent"
    BY <1>0, <2>1 DEF Confirm, Statuses
  <2> QED
    BY <2>1, <2>2, ShapedSet DEF Confirm
<1>6. CASE \E k \in Positions : ReportLostCredentialCleanup(o, k)
  <2>1. PICK k \in Positions : ReportLostCredentialCleanup(o, k)
    BY <1>6
  <2>2. \A p \in Ops : status'[p] = "absent" => status[p] = "absent"
    BY <1>0, <2>1 DEF ReportLostCredentialCleanup, Statuses
  <2> QED
    BY <2>1, <2>2, ShapedSet DEF ReportLostCredentialCleanup
<1>7. CASE ChangePermission(o)
  BY <1>7, ShapedFrame DEF ChangePermission, tableVars
<1> QED
  BY <1>1, <1>2, <1>3, <1>4, <1>5, <1>6, <1>7 DEF AdministratorStep

\* Reconciliations keep it: they settle calls only.
LEMMA ShapedController ==
  ASSUME TypeOK, Shaped, NEW c \in Controllers, ControllerStep(c)
  PROVE  Shaped' /\ CommitsKept
<1>1. CASE RecordVerdict(c)
  <2>1. \A p \in Ops, j \in Positions :
          step'[p][j] # step[p][j] => step[p][j] \in Unresolved
    BY <1>1 DEF RecordVerdict, TypeOK, TableTypeOK
  <2> QED
    BY <1>1, <2>1 DEF RecordVerdict, Shaped, CommitsKept, Unresolved
<1>2. CASE FinishReconcile(c)
  <2>1. \A p \in Ops : status'[p] = "absent" => status[p] = "absent"
    BY <1>2 DEF FinishReconcile, TypeOK, TableTypeOK
  <2> QED
    BY <1>2, <2>1, ShapedFrame DEF FinishReconcile
<1>3. CASE ~RecordVerdict(c) /\ ~FinishReconcile(c)
  BY <1>3, ShapedFrame DEF ControllerStep, ViewOperation, ListSteps, ReadProvider,
     AbandonReconcile, tableVars
<1> QED
  BY <1>1, <1>2, <1>3

\* So does the transaction at the start of the process.
LEMMA ShapedStart ==
  ASSUME TypeOK, Shaped, StartOperations
  PROVE  Shaped' /\ CommitsKept
<1>1. \A p \in Ops, j \in Positions : step'[p][j] = Interrupted(step[p][j])
  BY DEF StartOperations
<1>2. \A p \in Ops : status'[p] = Interrupted(status[p])
  BY DEF StartOperations
<1> QED
  BY <1>1, <1>2 DEF Shaped, CommitsKept, Interrupted

\* Every step of the engine keeps it.
LEMMA ShapedNext == TypeOK /\ Placed /\ Shaped /\ [Next]_vars => Shaped'
<1> SUFFICES ASSUME TypeOK, Placed, Shaped, [Next]_vars PROVE Shaped'
  OBVIOUS
<1>1. CASE Crash \/ Shutdown \/ LateEffect \/ UNCHANGED vars
  BY <1>1, ShapedFrame DEF Crash, Shutdown, Down, LateEffect, vars, tableVars
<1> QED
  BY <1>1, ShapedWorker, ShapedCommit, ShapedAdministrator, ShapedController, ShapedStart
  DEF Next

-----------------------------------------------------------------------------
(* What a step does to the locks *)

OthersKept(o) == \A p \in Ops \ {o} : status'[p] = status[p]

SamePhases ==
    \A o \in Ops : (Live(o)' <=> Live(o)) /\ (status'[o] \in Final <=> status[o] \in Final)

\* Nothing; or an operation takes what it needs, gives everything back, is given up or has a
\* provider called.
Idles == SamePhases /\ CommitsKept /\ UNCHANGED <<locks, called>>

Opens(o) ==
    /\ status[o] \in {"absent", "failed"} /\ status'[o] = "queued" /\ OthersKept(o)
    /\ Available(Needed(o), o) /\ Acquire(Needed(o), o)
    /\ CommitsKept /\ UNCHANGED called

Releases(o) ==
    /\ Live(o) /\ status'[o] \in Settled \ {"absent"} /\ OthersKept(o)
    /\ Unlock(o)
    /\ CommitsKept /\ UNCHANGED called

Abandons(o) ==
    /\ status[o] = "failed" /\ status'[o] = "cancelled" /\ OthersKept(o)
    /\ Unlock(o)
    /\ CommitsKept /\ UNCHANGED called

CallsOut(o) ==
    /\ Live(o) /\ called' = [called EXCEPT ![o] = @ + 1]
    /\ CommitsKept /\ UNCHANGED <<status, locks>>

Effect ==
    \/ Idles
    \/ \E o \in Ops : Opens(o) \/ Releases(o) \/ Abandons(o) \/ CallsOut(o)
    \/ \E w \in Workers : CommitStep(w)

\* No operation changes its phase when no status is written.
LEMMA SameStatus == UNCHANGED status => SamePhases
  BY DEF SamePhases, Live

\* What a worker does to locks and phases is one of these effects.
LEMMA EffectWorker ==
  ASSUME TypeOK, Placed, Shaped, NEW w \in Workers,
         WorkerStep(w) \/ RecordStepFails(w) \/ WorkerFails(w)
  PROVE  Effect
<1> SUFFICES ASSUME ~CommitStep(w) PROVE Effect
  BY DEF Effect
<1>0. CommitsKept
  BY ShapedWorker
<1>1. pc[w] \in Busy \cup {"selected"} => job[w] \in Ops
  BY DEF TypeOK, WorkerTypeOK
<1>2. pc[w] \in Busy \ {"done"} => status[job[w]] = "running"
  BY DEF Placed
<1>3. CASE Claim(w)
  <2>1. SamePhases
    BY <1>1, <1>3 DEF Claim, SamePhases, Live, Settled, Final, TypeOK, TableTypeOK
  <2> QED
    BY <1>0, <1>3, <2>1 DEF Claim, Effect, Idles, providerVars
<1>4. CASE CallProvider(w)
  <2>1. job[w] \in Ops /\ Live(job[w])
    BY <1>1, <1>2, <1>4 DEF CallProvider, Busy, Live, Settled
  <2> QED
    BY <1>0, <1>4, <2>1 DEF CallProvider, Effect, CallsOut, tableVars
<1>5. CASE Complete(w)
  <2>1. job[w] \in Ops /\ status[job[w]] = "running"
    BY <1>1, <1>5 DEF Complete, AtEnd, Busy
  <2>2. status'[job[w]] = "succeeded" /\ OthersKept(job[w])
    BY <1>5, <2>1 DEF Complete, TypeOK, TableTypeOK, OthersKept
  <2>3. Releases(job[w])
    BY <1>0, <1>5, <2>1, <2>2 DEF Complete, Releases, Live, Settled, providerVars
  <2> QED
    BY <2>1, <2>3 DEF Effect
<1>6. CASE Finish(w)
  <2>1. job[w] \in Ops
    BY <1>1, <1>6 DEF Finish, Busy
  <2>2. CASE UNCHANGED <<status, locks>>
    BY <1>0, <1>6, <2>2, SameStatus DEF Finish, Effect, Idles, providerVars
  <2> DEFINE s == Outcome(job[w], answer[w])
  <2>3. CASE status[job[w]] # "succeeded" /\ status' = [status EXCEPT ![job[w]] = s]
             /\ IF Keeps(s) THEN UNCHANGED locks ELSE Unlock(job[w])
    <3>1. status[job[w]] = "running"
      BY <1>6, <2>3 DEF Finish, Placed, Busy
    <3>2. s \in {"unknown", "needs_action", "failed"}
      BY DEF Outcome
    <3>3. status'[job[w]] = s /\ OthersKept(job[w])
      BY <2>1, <2>3 DEF TypeOK, TableTypeOK, OthersKept
    <3> HIDE DEF s
    <3>4. CASE Keeps(s)
      <4>1. SamePhases
        BY <2>1, <3>1, <3>3, <3>4 DEF SamePhases, OthersKept, Live, Settled, Final, Keeps
      <4> QED
        BY <1>0, <1>6, <2>3, <3>4, <4>1 DEF Finish, Effect, Idles, providerVars
    <3>5. CASE ~Keeps(s)
      <4>1. Releases(job[w])
        BY <1>0, <1>6, <2>3, <3>1, <3>2, <3>3, <3>5
        DEF Finish, Releases, Live, Settled, Keeps, providerVars
      <4> QED
        BY <2>1, <4>1 DEF Effect
    <3> QED
      BY <3>4, <3>5
  <2> QED
    BY <1>6, <2>2, <2>3 DEF Finish
<1>7. CASE \/ Select(w) \/ StartExecute(w) \/ SkipStep(w) \/ BeginStep(w) \/ RecordStep(w)
           \/ RecordStepFails(w) \/ ExternalStep(w) \/ NoteProcessed(w) \/ AwaitReports(w)
           \/ StopWithError(w) \/ WorkerFails(w)
  <2>1. UNCHANGED <<status, locks, called>>
    BY <1>7 DEF Select, StartExecute, SkipStep, BeginStep, RecordStep, RecordStepFails,
       ExternalStep, NoteProcessed, AwaitReports, StopWithError, WorkerFails, tableVars,
       providerVars
  <2> QED
    BY <1>0, <2>1, SameStatus DEF Effect, Idles
<1> QED
  BY <1>3, <1>4, <1>5, <1>6, <1>7 DEF WorkerStep

\* So is what an administrator does with one request.
LEMMA EffectAdministrator ==
  ASSUME TypeOK, Shaped, LocksFollowStatus, NEW o \in Ops, AdministratorStep(o)
  PROVE  Effect
<1>0. CommitsKept
  BY ShapedAdministrator
<1>1. ASSUME NEW s, status' = [status EXCEPT ![o] = s]
      PROVE  status'[o] = s /\ OthersKept(o)
  BY <1>1 DEF TypeOK, TableTypeOK, OthersKept
<1>2. CASE QueueOperation(o)
  <2>1. status[o] = "absent"
    BY <1>2 DEF QueueOperation, Prior
  <2>2. Needed(o) = KeysOf[o]
    BY <2>1 DEF Needed, Shaped, Steps
  <2>3. Opens(o)
    BY <1>0, <1>1, <1>2, <2>1, <2>2 DEF QueueOperation, Opens, providerVars
  <2> QED
    BY <2>3 DEF Effect
<1>3. CASE Cancel(o)
  <2>1. Releases(o) \/ Abandons(o)
    BY <1>0, <1>1, <1>3 DEF Cancel, Releases, Abandons, Live, Settled, providerVars
  <2> QED
    BY <2>1 DEF Effect
<1>4. CASE Retry(o)
  <2>1. CASE status[o] = "failed"
    <3>1. Opens(o)
      BY <1>0, <1>1, <1>4, <2>1 DEF Retry, Opens, providerVars
    <3> QED
      BY <3>1 DEF Effect
  <2>2. CASE status[o] = "needs_action"
    <3>1. \A r \in Needed(o) : locks[r] = o
      BY <2>2 DEF LocksFollowStatus, Live, Settled
    <3>2. UNCHANGED locks
      BY <1>4, <3>1 DEF Retry, Acquire, TypeOK, TableTypeOK
    <3>3. SamePhases
      BY <1>1, <1>4, <2>2 DEF Retry, SamePhases, OthersKept, Live, Settled, Final
    <3> QED
      BY <1>0, <1>4, <3>2, <3>3 DEF Retry, Effect, Idles, providerVars
  <2> QED
    BY <1>4, <2>1, <2>2 DEF Retry
<1>5. CASE ReconcileLocal(o)
  <2>1. Releases(o)
    BY <1>0, <1>1, <1>5 DEF ReconcileLocal, Releases, Live, Settled, providerVars
  <2> QED
    BY <2>1 DEF Effect
<1>6. CASE \E k \in Positions : Confirm(o, k)
  <2>1. PICK k \in Positions : Confirm(o, k)
    BY <1>6
  <2>2. CASE UNCHANGED <<status, locks>>
    BY <1>0, <2>1, <2>2, SameStatus DEF Confirm, Effect, Idles, providerVars
  <2>3. CASE status' = [status EXCEPT ![o] = "succeeded"] /\ Unlock(o)
    <3>1. Releases(o)
      BY <1>0, <1>1, <2>1, <2>3 DEF Confirm, Releases, Live, Settled, providerVars
    <3> QED
      BY <3>1 DEF Effect
  <2> QED
    BY <2>1, <2>2, <2>3 DEF Confirm
<1>7. CASE \E k \in Positions : ReportLostCredentialCleanup(o, k)
  <2>1. PICK k \in Positions : ReportLostCredentialCleanup(o, k)
    BY <1>7
  <2>2. Releases(o)
    BY <1>0, <1>1, <2>1 DEF ReportLostCredentialCleanup, Releases, Live, Settled, providerVars
  <2> QED
    BY <2>2 DEF Effect
<1>8. CASE ChangePermission(o)
  BY <1>0, <1>8, SameStatus DEF ChangePermission, Effect, Idles, tableVars, providerVars
<1> QED
  BY <1>2, <1>3, <1>4, <1>5, <1>6, <1>7, <1>8 DEF AdministratorStep

\* So is what a reconciliation does.
LEMMA EffectController ==
  ASSUME TypeOK, Shaped, NEW c \in Controllers, ControllerStep(c)
  PROVE  Effect
<1>0. CommitsKept
  BY ShapedController
<1>1. CASE FinishReconcile(c)
  <2>1. SamePhases
    BY <1>1 DEF FinishReconcile, SamePhases, Live, Settled, Final, TypeOK, TableTypeOK
  <2> QED
    BY <1>0, <1>1, <2>1 DEF FinishReconcile, Effect, Idles, providerVars
<1>2. CASE ~FinishReconcile(c)
  <2>1. UNCHANGED <<status, locks, called>>
    BY <1>2 DEF ControllerStep, ViewOperation, ListSteps, ReadProvider, RecordVerdict,
       AbandonReconcile, tableVars, providerVars
  <2> QED
    BY <1>0, <2>1, SameStatus DEF Effect, Idles
<1> QED
  BY <1>1, <1>2

\* So is every step of the engine.
LEMMA EffectNext ==
  ASSUME TypeOK, Placed, Shaped, LocksFollowStatus, [Next]_vars
  PROVE  Effect
<1>1. CASE StartOperations
  <2>1. SamePhases
    BY <1>1 DEF StartOperations, SamePhases, Interrupted, Live, Settled, Final, TypeOK,
       TableTypeOK
  <2> QED
    BY <1>1, <2>1, ShapedStart DEF StartOperations, Effect, Idles, providerVars
<1>2. CASE Crash \/ Shutdown \/ LateEffect \/ UNCHANGED vars
  <2>1. UNCHANGED <<status, locks, called, step>>
    BY <1>2 DEF Crash, Shutdown, Down, LateEffect, vars, tableVars, providerVars
  <2> QED
    BY <2>1, SameStatus DEF Effect, Idles, CommitsKept
<1> QED
  BY <1>1, <1>2, EffectWorker, EffectAdministrator, EffectController DEF Next

-----------------------------------------------------------------------------
(* Locks *)

\* At the beginning nothing is locked.
LEMMA LocksInit == Init => LocksFollowStatus
  BY OpsAssumption DEF Init, LocksFollowStatus, Live, Settled

\* Every effect leaves each live operation its locks, and the others none.
LEMMA LocksNext ==
  ASSUME TypeOK, Placed, Shaped, LocksFollowStatus, [Next]_vars
  PROVE  LocksFollowStatus'
<1>1. CASE Idles
  BY <1>1, NeededKept DEF Idles, SamePhases, LocksFollowStatus
<1>2. ASSUME NEW o \in Ops, Opens(o) PROVE LocksFollowStatus'
  <2>1. /\ \A p \in Ops : Needed(p)' = Needed(p)
        /\ \A p \in Ops \ {o} : Live(p)' <=> Live(p)
        /\ Live(o)'
    BY <1>2, NeededKept DEF Opens, OthersKept, Live, Settled
  <2>2. \A r \in Resources : locks'[r] = IF r \in Needed(o) THEN o ELSE locks[r]
    BY <1>2 DEF Opens, Acquire
  <2>3. \A p \in Ops : Needed(p) \subseteq Resources
    BY OpsAssumption DEF Needed
  <2>4. \A p \in Ops \ {o} : \A r \in Needed(o) : locks[r] # p
    BY <1>2, OpsAssumption DEF Opens, Available
  <2> QED
    BY <2>1, <2>2, <2>3, <2>4 DEF LocksFollowStatus
<1>3. ASSUME NEW o \in Ops, Releases(o) \/ Abandons(o) PROVE LocksFollowStatus'
  <2>1. /\ \A p \in Ops : Needed(p)' = Needed(p)
        /\ \A p \in Ops \ {o} : Live(p)' <=> Live(p)
        /\ ~Live(o)'
    BY <1>3, NeededKept DEF Releases, Abandons, OthersKept, Live, Settled
  <2>2. \A r \in Resources : locks'[r] = IF locks[r] = o THEN NoOp ELSE locks[r]
    BY <1>3 DEF Releases, Abandons, Unlock
  <2>3. \A p \in Ops : Needed(p) \subseteq Resources
    BY OpsAssumption DEF Needed
  <2>4. \A p \in Ops : p # NoOp
    BY OpsAssumption
  <2>5. ASSUME NEW p \in Ops \ {o}, Live(p), NEW r \in Needed(p) PROVE locks'[r] = p
    BY <2>2, <2>3, <2>5 DEF LocksFollowStatus
  <2>6. ASSUME NEW p \in Ops, p = o \/ ~Live(p), NEW r \in Resources PROVE locks'[r] # p
    BY <2>2, <2>4, <2>6 DEF LocksFollowStatus
  <2> QED
    BY <2>1, <2>5, <2>6 DEF LocksFollowStatus
<1>4. ASSUME NEW o \in Ops, CallsOut(o) PROVE LocksFollowStatus'
  BY <1>4, NeededKept DEF CallsOut, LocksFollowStatus, Live
<1>5. ASSUME NEW w \in Workers, CommitStep(w) PROVE LocksFollowStatus'
  <2>0. PICK o \in Ops, r \in Resources : o = job[w] /\ r = NewMailbox[o]
    BY <1>5, OpsAssumption DEF CommitStep, At, Busy, TypeOK, WorkerTypeOK
  <2>1. pos[w] \in Steps(o) /\ Live(o)
    BY <1>5, <2>0 DEF CommitStep, At, Busy, Placed, Live, Settled
  <2>2. /\ \A p \in Ops : Live(p)' <=> Live(p)
        /\ \A p \in Ops \ {o} : Needed(p)' = Needed(p)
    <3>1. \A p \in Ops \ {o} : step'[p] = step[p]
      BY <1>5, <2>0 DEF CommitStep, TypeOK, TableTypeOK
    <3> QED
      BY <1>5, <3>1 DEF CommitStep, Live, Needed, Steps
  <2>3. Needed(o)' \subseteq Needed(o) \cup {r}
    BY <2>0 DEF Needed
  <2>4. \A q \in Resources : locks'[q] = IF q = r THEN o ELSE locks[q]
    BY <1>5, <2>0 DEF CommitStep, Acquire
  <2>5. \A p \in Ops \ {o} : locks[r] # p
    BY <1>5, <2>0, OpsAssumption DEF CommitStep, Available
  <2>6. \A p \in Ops : Needed(p) \subseteq Resources
    BY OpsAssumption DEF Needed
  <2>7. \A q \in Needed(o)' : locks'[q] = o
    BY <2>1, <2>3, <2>4, <2>6 DEF LocksFollowStatus
  <2>8. ASSUME NEW p \in Ops \ {o}, Live(p), NEW q \in Needed(p) PROVE locks'[q] = p
    BY <2>4, <2>5, <2>6, <2>8 DEF LocksFollowStatus
  <2>9. ASSUME NEW p \in Ops \ {o}, ~Live(p), NEW q \in Resources PROVE locks'[q] # p
    BY <2>4, <2>9 DEF LocksFollowStatus
  <2> QED
    BY <2>1, <2>2, <2>7, <2>8, <2>9 DEF LocksFollowStatus
<1> QED
  BY <1>1, <1>2, <1>3, <1>4, <1>5, EffectNext DEF Effect

\* The inductive invariant behind the safety of the locks.
LocksInv == TypeOK /\ Placed /\ Shaped /\ LocksFollowStatus

\* The strengthened invariant about locks holds throughout.
LEMMA LocksInvariant == Spec => []LocksInv
<1>1. Init => LocksInv
  BY TypeInit, PlacedInit, ShapedInit, LocksInit DEF LocksInv
<1>2. LocksInv /\ [Next]_vars => LocksInv'
  BY TypeNext, PlacedNext, ShapedNext, LocksNext DEF LocksInv
<1> QED
  BY <1>1, <1>2, PTL DEF Spec

\* operation_locks follows the status of the operations in every reachable state: an
\* operation that waits, runs or needs a decision holds all it needs, and no other holds
\* anything.
THEOREM LocksCorrect == Spec => []LocksFollowStatus
  BY LocksInvariant, PTL DEF LocksInv

-----------------------------------------------------------------------------
(* The completing transaction *)

\* Nobody changes the status of an operation that succeeded.
LEMMA SuccessKept ==
  ASSUME TypeOK, [Next]_vars, NEW o \in Ops, status[o] = "succeeded"
  PROVE  status'[o] = "succeeded"
<1> USE DEF TypeOK, TableTypeOK
<1>1. ASSUME NEW w \in Workers, WorkerStep(w) \/ RecordStepFails(w) \/ WorkerFails(w)
      PROVE  status'[o] = "succeeded"
  <2>1. CASE Claim(w)
    BY <2>1 DEF Claim
  <2>2. CASE Complete(w)
    BY <2>2 DEF Complete
  <2>3. CASE Finish(w)
    BY <2>3 DEF Finish
  <2>4. CASE ~Claim(w) /\ ~Complete(w) /\ ~Finish(w)
    BY <1>1, <2>4 DEF WorkerStep, Select, StartExecute, SkipStep, BeginStep, CallProvider,
       RecordStep, RecordStepFails, CommitStep, ExternalStep, NoteProcessed, AwaitReports,
       StopWithError, WorkerFails, tableVars
  <2> QED
    BY <2>1, <2>2, <2>3, <2>4
<1>2. CASE StartOperations
  BY <1>2 DEF StartOperations, Interrupted
<1>3. CASE Crash \/ Shutdown \/ LateEffect \/ UNCHANGED vars
  BY <1>3 DEF Crash, Shutdown, Down, LateEffect, vars, tableVars
<1> QED
  BY <1>1, <1>2, <1>3, AdministratorsKeepWorkers DEF Next, WorkersKept

\* What a completing transaction committed goes with an operation that succeeded.
LEMMA CommittedNext ==
  ASSUME TypeOK, CommittedIsSucceeded, [Next]_vars
  PROVE  CommittedIsSucceeded'
<1> USE DEF TypeOK, TableTypeOK
<1>1. ASSUME NEW w \in Workers, Complete(w) PROVE CommittedIsSucceeded'
  <2>1. job[w] \in Ops /\ status'[job[w]] = "succeeded"
    BY <1>1 DEF Complete, AtEnd, WorkerTypeOK, Busy
  <2>2. committed' = committed \cup {job[w]} /\ UNCHANGED job
    BY <1>1 DEF Complete
  <2>3. \A o \in committed : status'[o] = "succeeded"
    BY SuccessKept DEF CommittedIsSucceeded
  <2> QED
    BY <2>1, <2>2, <2>3 DEF CommittedIsSucceeded
<1>2. CASE UNCHANGED committed
  BY <1>2, SuccessKept DEF CommittedIsSucceeded
<1>3. CASE \A w \in Workers : ~Complete(w)
  <2>1. UNCHANGED committed
    <3>1. ASSUME NEW w \in Workers, WorkerStep(w) \/ RecordStepFails(w) \/ WorkerFails(w)
          PROVE  UNCHANGED committed
      BY <1>3, <3>1 DEF WorkerStep, Claim, Finish, Select, StartExecute, SkipStep, BeginStep,
         CallProvider, RecordStep, RecordStepFails, CommitStep, ExternalStep, NoteProcessed,
         AwaitReports, StopWithError, WorkerFails, tableVars
    <3>2. ASSUME NEW c \in Controllers, ControllerStep(c) PROVE UNCHANGED committed
      BY <3>2 DEF ControllerStep, ViewOperation, ListSteps, ReadProvider, RecordVerdict,
         FinishReconcile, AbandonReconcile, tableVars
    <3>3. ASSUME NEW o \in Ops, AdministratorStep(o) PROVE UNCHANGED committed
      BY <3>3 DEF AdministratorStep, QueueOperation, Cancel, Retry, ReconcileLocal, Confirm,
         ReportLostCredentialCleanup, ChangePermission, tableVars
    <3>4. CASE Crash \/ Shutdown \/ StartOperations \/ LateEffect \/ UNCHANGED vars
      BY <3>4 DEF Crash, Shutdown, Down, StartOperations, LateEffect, vars, tableVars
    <3> QED
      BY <3>1, <3>2, <3>3, <3>4 DEF Next
  <2> QED
    BY <1>2, <2>1
<1> QED
  BY <1>1, <1>3

\* An operation whose completing transaction took place is reported as succeeded, and in no
\* other way, for ever.
THEOREM CommitCorrect == Spec => []CommittedIsSucceeded
<1>1. Init => CommittedIsSucceeded
  BY DEF Init, CommittedIsSucceeded
<1>2. TypeOK /\ CommittedIsSucceeded /\ [Next]_vars => CommittedIsSucceeded'
  BY CommittedNext
<1> QED
  BY <1>1, <1>2, TypeCorrect, PTL DEF Spec

-----------------------------------------------------------------------------
(* Ambiguity *)

NoDoubt(o) == \A k \in Positions : step[o][k] \notin Unresolved

\* A worker that ends its operation with a definite answer, or may still do so, left no step
\* unresolved behind; in a provider call, only the step of the call is.
Certain ==
    \A w \in Workers :
        /\ pc[w] \in {"claimed", "between"} \/ (pc[w] = "done" /\ answer[w] # "unknown") =>
             NoDoubt(job[w])
        /\ pc[w] \in {"marked", "answered"} =>
             \A k \in Positions \ {pos[w]} : step[job[w]][k] \notin Unresolved

NoNewDoubt ==
    \A o \in Ops : \A k \in Positions : step'[o][k] \in Unresolved => step[o][k] \in Unresolved

\* At the beginning no step is unresolved.
LEMMA AmbiguityInit == Init => AmbiguityHeld /\ Certain
  BY DEF Init, AmbiguityHeld, Certain, Unresolved

\* Nothing that an administrator does leaves another step unresolved.
LEMMA AdministratorsAddNoDoubt ==
  ASSUME TypeOK,
         \/ \E c \in Controllers : ControllerStep(c)
         \/ \E o \in Ops : AdministratorStep(o)
  PROVE  NoNewDoubt
<1> USE DEF TypeOK, TableTypeOK, Unresolved
<1>1. ASSUME NEW c \in Controllers, ControllerStep(c) PROVE NoNewDoubt
  <2>1. CASE RecordVerdict(c)
    <3>1. verdict[c] \in {"succeeded", "failed"} /\ cop[c] \in Ops
      BY <2>1 DEF RecordVerdict, ControllerTypeOK
    <3> QED
      BY <2>1, <3>1 DEF RecordVerdict, NoNewDoubt
  <2>2. CASE ~RecordVerdict(c)
    BY <1>1, <2>2 DEF ControllerStep, ViewOperation, ListSteps, ReadProvider, FinishReconcile,
       AbandonReconcile, tableVars, NoNewDoubt
  <2> QED
    BY <2>1, <2>2
<1>2. ASSUME NEW o \in Ops, AdministratorStep(o) PROVE NoNewDoubt
  <2>1. CASE Retry(o)
    BY <2>1 DEF Retry, NoNewDoubt
  <2>2. CASE \E k \in Positions : Confirm(o, k)
    BY <2>2 DEF Confirm, NoNewDoubt
  <2>3. CASE \E k \in Positions : ReportLostCredentialCleanup(o, k)
    BY <2>3 DEF ReportLostCredentialCleanup, NoNewDoubt
  <2>4. CASE QueueOperation(o) \/ Cancel(o) \/ ReconcileLocal(o) \/ ChangePermission(o)
    BY <2>4 DEF QueueOperation, Cancel, ReconcileLocal, ChangePermission, tableVars, NoNewDoubt
  <2> QED
    BY <1>2, <2>1, <2>2, <2>3, <2>4 DEF AdministratorStep
<1> QED
  BY <1>1, <1>2

\* Where no worker moves and no step becomes unresolved, the workers stay certain.
LEMMA CertainKept ==
  ASSUME TypeOK, Certain, NoNewDoubt, UNCHANGED workerVars
  PROVE  Certain'
<1> SUFFICES ASSUME NEW w \in Workers
             PROVE  /\ pc[w] \in {"claimed", "between"} \/ (pc[w] = "done" /\ answer[w] # "unknown") =>
                         NoDoubt(job[w])'
                    /\ pc[w] \in {"marked", "answered"} =>
                         \A k \in Positions \ {pos[w]} : step'[job[w]][k] \notin Unresolved
  BY DEF Certain, workerVars
<1>1. pc[w] \in Busy => job[w] \in Ops
  BY DEF TypeOK, WorkerTypeOK
<1> QED
  BY <1>1 DEF Certain, NoDoubt, NoNewDoubt, workerVars, Busy

\* The other workers are not concerned when one of them works on its operation.
LEMMA CertainOthers ==
  ASSUME TypeOK, Placed, Certain, NEW w \in Workers, pc[w] \in Busy,
         \A o \in Ops \ {job[w]} : step'[o] = step[o],
         NEW v \in Workers \ {w},
         pc'[v] = pc[v], job'[v] = job[v], pos'[v] = pos[v], answer'[v] = answer[v]
  PROVE  /\ pc'[v] \in {"claimed", "between"} \/ (pc'[v] = "done" /\ answer'[v] # "unknown") =>
              NoDoubt(job[v])'
         /\ pc'[v] \in {"marked", "answered"} =>
              \A k \in Positions \ {pos'[v]} : step'[job'[v]][k] \notin Unresolved
<1>1. pc[v] \in Busy => job[v] \in Ops \ {job[w]}
  BY DEF TypeOK, WorkerTypeOK, Placed
<1> QED
  BY <1>1 DEF Certain, NoDoubt, Busy

\* A worker that moves stays certain if what it knows after the step is so.
LEMMA CertainMove ==
  ASSUME TypeOK, Placed, Certain, NEW w \in Workers, pc[w] \in Busy, UNCHANGED job,
         \A o \in Ops \ {job[w]} : step'[o] = step[o],
         \A v \in Workers \ {w} : pc'[v] = pc[v] /\ pos'[v] = pos[v] /\ answer'[v] = answer[v],
         pc'[w] \in {"claimed", "between"} \/ (pc'[w] = "done" /\ answer'[w] # "unknown") =>
           NoDoubt(job[w])',
         pc'[w] \in {"marked", "answered"} =>
           \A k \in Positions \ {pos'[w]} : step'[job[w]][k] \notin Unresolved
  PROVE  Certain'
<1>1. ASSUME NEW v \in Workers \ {w}
      PROVE  /\ pc'[v] \in {"claimed", "between"} \/ (pc'[v] = "done" /\ answer'[v] # "unknown") =>
                  NoDoubt(job[v])'
             /\ pc'[v] \in {"marked", "answered"} =>
                  \A k \in Positions \ {pos'[v]} : step'[job'[v]][k] \notin Unresolved
  BY CertainOthers DEF NoDoubt
<1> QED
  BY <1>1 DEF Certain, NoDoubt

\* A worker that takes up an operation, or gives it up, leaves the steps alone.
LEMMA CertainLeave ==
  ASSUME TypeOK, Certain, NEW w \in Workers, UNCHANGED step,
         \A v \in Workers \ {w} : /\ pc'[v] = pc[v] /\ pos'[v] = pos[v]
                                  /\ answer'[v] = answer[v] /\ job'[v] = job[v],
         pc'[w] \in {"idle", "selected", "stopped"}
  PROVE  Certain'
  BY DEF Certain, NoDoubt

\* The steps of a worker keep the workers certain.
LEMMA CertainWorker ==
  ASSUME TypeOK, Placed, Shaped, AmbiguityHeld, Certain, NEW w \in Workers,
         WorkerStep(w) \/ RecordStepFails(w) \/ WorkerFails(w)
  PROVE  Certain'
<1> USE DEF TypeOK, WorkerTypeOK
<1>0. pc[w] \in Busy \cup {"selected"} => job[w] \in Ops
  OBVIOUS
<1>1. CASE Select(w) \/ Finish(w) \/ WorkerFails(w)
  <2>1. /\ UNCHANGED step
        /\ \A v \in Workers \ {w} : /\ pc'[v] = pc[v] /\ pos'[v] = pos[v]
                                    /\ answer'[v] = answer[v] /\ job'[v] = job[v]
        /\ pc'[w] \in {"idle", "selected", "stopped"}
    BY <1>1 DEF Select, Finish, WorkerFails, Leave, tableVars
  <2> QED
    BY <2>1, CertainLeave
<1>2. CASE Claim(w)
  <2>1. CASE Leave(w, "idle")
    BY <1>2, <2>1, CertainLeave DEF Claim, Leave
  <2>2. CASE status[job[w]] = "queued" /\ pc' = [pc EXCEPT ![w] = "claimed"]
             /\ UNCHANGED <<job, pos, answer>>
    <3>1. NoDoubt(job[w]) /\ UNCHANGED step
      BY <1>0, <1>2, <2>2 DEF Claim, AmbiguityHeld, NoDoubt, Unresolved
    <3> QED
      BY <2>2, <3>1 DEF Certain, NoDoubt
  <2> QED
    BY <1>2, <2>1, <2>2 DEF Claim
<1>3. CASE /\ pc[w] \in {"claimed", "between"}
           /\ StartExecute(w) \/ SkipStep(w) \/ AwaitReports(w) \/ StopWithError(w)
              \/ NoteProcessed(w)
  <2>1. UNCHANGED <<step, job>> /\ pc[w] \in Busy
    BY <1>3 DEF StartExecute, SkipStep, AwaitReports, StopWithError, NoteProcessed, Busy,
       tableVars, workerVars
  <2>4. pc'[w] \in {"between", "done"}
    BY <1>3 DEF StartExecute, SkipStep, At, AwaitReports, StopWithError, NoteProcessed, AtEnd,
       workerVars
  <2>2. \A v \in Workers \ {w} : pc'[v] = pc[v] /\ pos'[v] = pos[v] /\ answer'[v] = answer[v]
    BY <1>3 DEF StartExecute, SkipStep, AwaitReports, StopWithError, NoteProcessed, NextStep,
       workerVars
  <2>3. NoDoubt(job[w])'
    BY <1>3, <2>1 DEF Certain, NoDoubt
  <2> QED
    BY <2>1, <2>2, <2>3, <2>4, CertainMove
<1>4. CASE BeginStep(w)
  <2>1. pc[w] \in Busy /\ NoDoubt(job[w]) /\ pos[w] \in Positions /\ UNCHANGED <<job, pos>>
    BY <1>4 DEF BeginStep, At, Steps, Busy, Certain
  <2>2. \A o \in Ops \ {job[w]} : step'[o] = step[o]
    BY <1>4, <1>0, <2>1 DEF BeginStep, TableTypeOK
  <2>3. CASE pc' = [pc EXCEPT ![w] = "marked"] /\ UNCHANGED answer
             /\ step' = [step EXCEPT ![job[w]][pos[w]] = "running"]
    <3>1. \A k \in Positions \ {pos[w]} : step'[job[w]][k] \notin Unresolved
      BY <1>0, <2>1, <2>3 DEF NoDoubt, TableTypeOK
    <3> QED
      BY <2>1, <2>2, <2>3, <3>1, CertainMove
  <2>4. CASE /\ pc' = [pc EXCEPT ![w] = "done"]
             /\ step' = [step EXCEPT ![job[w]][pos[w]] = IF @ = "absent" THEN "pending" ELSE @]
             /\ answer' = [answer EXCEPT ![w] = IF step[job[w]][pos[w]] \in Unresolved
                                                  THEN "unknown" ELSE "failed"]
    <3>1. NoDoubt(job[w])'
      BY <1>0, <2>1, <2>4 DEF NoDoubt, TableTypeOK, Unresolved
    <3> QED
      BY <2>1, <2>2, <2>4, <3>1, CertainMove
  <2> QED
    BY <1>4, <2>3, <2>4 DEF BeginStep
<1>5. CASE CallProvider(w)
  <2>1. \A v \in Workers \ {w} : pc'[v] = pc[v] /\ pos'[v] = pos[v] /\ answer'[v] = answer[v]
    BY <1>5 DEF CallProvider
  <2>2. /\ UNCHANGED <<step, job, pos>> /\ pc[w] \in Busy
        /\ pc[w] = "marked" /\ pc'[w] = "answered"
    BY <1>5 DEF CallProvider, tableVars, Busy
  <2>3. \A k \in Positions \ {pos[w]} : step[job[w]][k] \notin Unresolved
    BY <2>2 DEF Certain
  <2> QED
    BY <2>1, <2>2, <2>3, CertainMove
<1>6. CASE RecordStep(w)
  <2>1. /\ pc[w] \in Busy /\ pos[w] \in Positions /\ UNCHANGED job
        /\ \A k \in Positions \ {pos[w]} : step[job[w]][k] \notin Unresolved
        /\ answer[w] \in {"ok", "failed", "unknown"}
    BY <1>6 DEF RecordStep, Busy, Certain, Answers
  <2>2. \A o \in Ops \ {job[w]} : step'[o] = step[o]
    BY <1>6, <1>0, <2>1 DEF RecordStep, TableTypeOK
  <2>3. \A v \in Workers \ {w} : pc'[v] = pc[v] /\ pos'[v] = pos[v] /\ answer'[v] = answer[v]
    BY <1>6 DEF RecordStep, NextStep
  <2>4. \/ pc'[w] = "between" /\ answer[w] = "ok"
        \/ pc'[w] = "done" /\ answer'[w] = answer[w]
    BY <1>6 DEF RecordStep
  <2>5. answer[w] # "unknown" => NoDoubt(job[w])'
    BY <1>6, <1>0, <2>1 DEF RecordStep, NoDoubt, TableTypeOK, Unresolved
  <2> QED
    BY <2>1, <2>2, <2>3, <2>4, <2>5, CertainMove
<1>7. CASE RecordStepFails(w)
  <2>1. /\ pc[w] \in Busy /\ UNCHANGED <<job, step>>
        /\ pc'[w] = "done" /\ answer'[w] = "unknown"
        /\ \A v \in Workers \ {w} : pc'[v] = pc[v] /\ pos'[v] = pos[v] /\ answer'[v] = answer[v]
    BY <1>7 DEF RecordStepFails, Busy, tableVars
  <2> QED
    BY <2>1, CertainMove
<1>8. CASE CommitStep(w) \/ ExternalStep(w)
  <2>1. pc[w] \in Busy /\ NoDoubt(job[w]) /\ pos[w] \in Positions /\ UNCHANGED <<job, answer>>
    BY <1>8 DEF CommitStep, ExternalStep, At, Steps, Busy, Certain
  <2>2. \A o \in Ops \ {job[w]} : step'[o] = step[o]
    BY <1>8, <1>0, <2>1 DEF CommitStep, ExternalStep, TableTypeOK
  <2>3. \A v \in Workers \ {w} : pc'[v] = pc[v] /\ pos'[v] = pos[v] /\ answer'[v] = answer[v]
    BY <1>8 DEF CommitStep, ExternalStep, NextStep
  <2>4. NoDoubt(job[w])' /\ pc'[w] = "between"
    BY <1>8, <1>0, <2>1 DEF CommitStep, ExternalStep, At, NoDoubt, TableTypeOK, Unresolved
  <2> QED
    BY <2>1, <2>2, <2>3, <2>4, CertainMove
<1>9. CASE Complete(w)
  <2>1. pc[w] \in Busy /\ NoDoubt(job[w]) /\ UNCHANGED job
    BY <1>9 DEF Complete, AtEnd, Busy, Certain
  <2>2. \A o \in Ops \ {job[w]} : step'[o] = step[o]
    BY <1>9, <1>0, <2>1 DEF Complete, TableTypeOK
  <2>3. \A v \in Workers \ {w} : pc'[v] = pc[v] /\ pos'[v] = pos[v] /\ answer'[v] = answer[v]
    BY <1>9 DEF Complete
  <2>4. NoDoubt(job[w])' /\ pc'[w] = "done"
    BY <1>9, <1>0, <2>1 DEF Complete, NoDoubt, TableTypeOK, Unresolved
  <2> QED
    BY <2>1, <2>2, <2>3, <2>4, CertainMove
<1>10. pc[w] \notin {"claimed", "between"} =>
         ~(StartExecute(w) \/ SkipStep(w) \/ AwaitReports(w) \/ StopWithError(w)
           \/ NoteProcessed(w))
  BY DEF StartExecute, SkipStep, At, AwaitReports, StopWithError, NoteProcessed, AtEnd
<1> QED
  BY <1>1, <1>2, <1>3, <1>4, <1>5, <1>6, <1>7, <1>8, <1>9, <1>10 DEF WorkerStep

\* So does every step of the engine.
LEMMA CertainNext ==
  ASSUME TypeOK, Placed, Shaped, AmbiguityHeld, Certain, [Next]_vars
  PROVE  Certain'
<1>1. CASE (\E c \in Controllers : ControllerStep(c)) \/ (\E o \in Ops : AdministratorStep(o))
  BY <1>1, AdministratorsAddNoDoubt, AdministratorsKeepWorkers, CertainKept
<1>2. CASE Crash \/ Shutdown
  BY <1>2 DEF Crash, Shutdown, Down, Certain
<1>3. CASE StartOperations
  <2>1. \A w \in Workers : pc'[w] = "idle"
    BY <1>3 DEF StartOperations, Placed, workerVars
  <2> QED
    BY <2>1 DEF Certain
<1>4. CASE LateEffect \/ UNCHANGED vars
  BY <1>4, CertainKept DEF LateEffect, vars, tableVars, NoNewDoubt
<1> QED
  BY <1>1, <1>2, <1>3, <1>4, CertainWorker DEF Next

\* What happens to an operation that may have a step without a known outcome.
LEMMA AmbiguityStatus ==
  ASSUME TypeOK, Placed, Shaped, AmbiguityHeld, Certain, [Next]_vars,
         NEW o \in Ops, status[o] \in Unresolved, status'[o] \notin Unresolved
  PROVE  NoDoubt(o)'
<1> USE DEF TypeOK, TableTypeOK, Unresolved
<1>1. ASSUME NEW w \in Workers, WorkerStep(w) \/ RecordStepFails(w) \/ WorkerFails(w)
      PROVE  NoDoubt(o)'
  <2>1. CASE Claim(w)
    BY <2>1 DEF Claim
  <2>2. CASE Complete(w)
    <3>1. job[w] = o
      BY <2>2 DEF Complete
    <3>2. NoDoubt(o)
      BY <2>2, <3>1 DEF Complete, AtEnd, Certain
    <3> QED
      BY <2>2, <3>1, <3>2 DEF Complete, NoDoubt
  <2>3. CASE Finish(w)
    <3>1. job[w] = o /\ pc[w] = "done" /\ UNCHANGED step
      BY <2>3 DEF Finish
    <3>2. answer[w] # "unknown"
      BY <2>3, <3>1 DEF Finish, Outcome
    <3> QED
      BY <3>1, <3>2 DEF Certain, NoDoubt
  <2>4. CASE ~Claim(w) /\ ~Complete(w) /\ ~Finish(w)
    BY <1>1, <2>4 DEF WorkerStep, Select, StartExecute, SkipStep, BeginStep, CallProvider,
       RecordStep, RecordStepFails, CommitStep, ExternalStep, NoteProcessed, AwaitReports,
       StopWithError, WorkerFails, tableVars
  <2> QED
    BY <2>1, <2>2, <2>3, <2>4
<1>2. ASSUME NEW c \in Controllers, ControllerStep(c) PROVE NoDoubt(o)'
  <2>1. FinishReconcile(c)
    BY <1>2 DEF ControllerStep, ViewOperation, ListSteps, ReadProvider, RecordVerdict,
       AbandonReconcile, tableVars
  <2>2. cop[c] = o /\ UNCHANGED step /\ \A k \in Steps(o) : step[o][k] \notin Unresolved
    BY <2>1 DEF FinishReconcile
  <2> QED
    BY <2>2 DEF Shaped, Steps, NoDoubt
<1>3. ASSUME NEW p \in Ops, AdministratorStep(p) PROVE NoDoubt(o)'
  <2>1. CASE ReconcileLocal(p)
    BY <2>1 DEF ReconcileLocal, Local, Steps, Shaped, NoDoubt
  <2>2. CASE \E k \in Positions : ReportLostCredentialCleanup(p, k)
    <3>1. PICK k \in Positions : ReportLostCredentialCleanup(p, k)
      BY <2>2
    <3>2. p = o
      BY <3>1 DEF ReportLostCredentialCleanup
    <3>3. \A j \in Positions \ {k} : step[o][j] \notin Unresolved
      BY <3>1, <3>2 DEF ReportLostCredentialCleanup, Shaped, Steps
    <3> QED
      BY <3>1, <3>2, <3>3 DEF ReportLostCredentialCleanup, NoDoubt
  <2>3. CASE \/ QueueOperation(p) \/ Cancel(p) \/ Retry(p) \/ ChangePermission(p)
             \/ \E k \in Positions : Confirm(p, k)
    BY <2>3 DEF QueueOperation, Prior, Cancel, Retry, ChangePermission, Confirm, tableVars
  <2> QED
    BY <1>3, <2>1, <2>2, <2>3 DEF AdministratorStep
<1>4. CASE Crash \/ Shutdown \/ StartOperations \/ LateEffect \/ UNCHANGED vars
  BY <1>4 DEF Crash, Shutdown, Down, StartOperations, Interrupted, LateEffect, vars, tableVars
<1> QED
  BY <1>1, <1>2, <1>3, <1>4 DEF Next

\* A step becomes doubtful only while its operation runs.
LEMMA AmbiguityStep ==
  ASSUME TypeOK, Placed, Shaped, AmbiguityHeld, Certain, [Next]_vars,
         NEW o \in Ops, NEW k \in Positions,
         step'[o][k] \in Unresolved, step[o][k] \notin Unresolved
  PROVE  status'[o] = "running"
<1> USE DEF TypeOK, TableTypeOK, Unresolved
<1>1. ASSUME NEW w \in Workers, WorkerStep(w) \/ RecordStepFails(w) \/ WorkerFails(w)
      PROVE  status'[o] = "running"
  <2>0. pc[w] \in Busy => job[w] \in Ops
    BY DEF WorkerTypeOK
  <2>1. CASE BeginStep(w) \/ RecordStep(w)
    <3>1. pc[w] \in Busy \ {"done"} /\ UNCHANGED status
      BY <2>1 DEF BeginStep, RecordStep, At, Busy
    <3>2. job[w] = o
      BY <2>0, <2>1, <3>1 DEF BeginStep, RecordStep
    <3> QED
      BY <3>1, <3>2 DEF Placed
  <2>2. CASE CommitStep(w) \/ ExternalStep(w) \/ Complete(w)
    <3>1. job[w] \in Ops
      BY <2>0, <2>2 DEF CommitStep, ExternalStep, Complete, At, AtEnd, Busy
    <3> QED
      BY <2>2, <3>1 DEF CommitStep, ExternalStep, Complete
  <2>3. CASE ~BeginStep(w) /\ ~RecordStep(w) /\ ~CommitStep(w) /\ ~ExternalStep(w) /\ ~Complete(w)
    BY <1>1, <2>3 DEF WorkerStep, Select, Claim, StartExecute, SkipStep, CallProvider,
       RecordStepFails, NoteProcessed, AwaitReports, StopWithError, Finish, WorkerFails,
       tableVars
  <2> QED
    BY <2>1, <2>2, <2>3
<1>2. CASE (\E c \in Controllers : ControllerStep(c)) \/ (\E p \in Ops : AdministratorStep(p))
  BY <1>2, AdministratorsAddNoDoubt DEF NoNewDoubt
<1>3. CASE Crash \/ Shutdown \/ StartOperations \/ LateEffect \/ UNCHANGED vars
  BY <1>3 DEF Crash, Shutdown, Down, StartOperations, Interrupted, LateEffect, vars, tableVars
<1> QED
  BY <1>1, <1>2, <1>3 DEF Next

\* An operation with an unresolved step is running or unknown itself.
LEMMA AmbiguityNext ==
  ASSUME TypeOK, Placed, Shaped, AmbiguityHeld, Certain, [Next]_vars
  PROVE  AmbiguityHeld'
<1> SUFFICES ASSUME NEW o \in Ops, NEW k \in Positions, step'[o][k] \in Unresolved
             PROVE  status'[o] \in Unresolved
  BY DEF AmbiguityHeld
<1>1. CASE step[o][k] \notin Unresolved
  BY <1>1, AmbiguityStep DEF Unresolved
<1>2. CASE step[o][k] \in Unresolved
  <2>1. status[o] \in Unresolved
    BY <1>2 DEF AmbiguityHeld
  <2>2. CASE status'[o] \notin Unresolved
    BY <2>1, <2>2, AmbiguityStatus DEF NoDoubt
  <2> QED
    BY <2>2
<1> QED
  BY <1>1, <1>2

\* As long as the outcome of a step is not known, its operation runs or is unknown: nothing
\* cancels it, retries it or gives its locks away.
THEOREM AmbiguityCorrect == Spec => []AmbiguityHeld
<1>1. Init => AmbiguityHeld /\ Certain
  BY AmbiguityInit
<1>2. LocksInv /\ AmbiguityHeld /\ Certain /\ [Next]_vars => AmbiguityHeld' /\ Certain'
  BY AmbiguityNext, CertainNext DEF LocksInv
<1> QED
  BY <1>1, <1>2, LocksInvariant, PTL DEF Spec

-----------------------------------------------------------------------------
(* The contract of Reservations *)

\* Initial states map to initial states.
LEMMA ContractInit == Init => Contract!Init
<1> SUFFICES ASSUME Init PROVE Contract!Init
  OBVIOUS
<1>1. \A o \in Ops : PhaseOf(o) = "idle" /\ HeldBy(o) = {}
  BY OpsAssumption DEF Init, PhaseOf, Live, Settled, Final, HeldBy
<1> QED
  BY <1>1 DEF Init, Contract!Init

\* The phase of an operation follows from its status.
LEMMA PhaseSame ==
  ASSUME NEW o \in Ops, Live(o)' <=> Live(o), status'[o] \in Final <=> status[o] \in Final
  PROVE  PhaseOf(o)' = PhaseOf(o)
  BY DEF PhaseOf

\* The phases of operations whose status stays are the same.
LEMMA PhaseOthers ==
  ASSUME NEW o \in Ops, OthersKept(o)
  PROVE  \A p \in Ops \ {o} : PhaseOf(p)' = PhaseOf(p)
  BY DEF OthersKept, PhaseOf, Live

\* Unlocking takes from one operation all that it holds.
LEMMA HeldUnlock ==
  ASSUME NEW o \in Ops, Unlock(o)
  PROVE  \A p \in Ops : HeldBy(p)' = IF p = o THEN {} ELSE HeldBy(p)
  BY OpsAssumption DEF Unlock, HeldBy

\* Every effect is a step of the contract, or a stutter.
LEMMA ContractStep ==
  ASSUME TypeOK, Placed, Shaped, LocksFollowStatus, [Next]_vars
  PROVE  [Contract!Next]_(Contract!vars)
<1> DEFINE phase == [o \in Ops |-> PhaseOf(o)]
           held == [o \in Ops |-> HeldBy(o)]
<1>1. CASE Idles
  <2>1. \A o \in Ops : PhaseOf(o)' = PhaseOf(o) /\ HeldBy(o)' = HeldBy(o)
    BY <1>1, PhaseSame DEF Idles, SamePhases, HeldBy
  <2> QED
    BY <1>1, <2>1 DEF Idles, Contract!vars
<1>2. ASSUME NEW o \in Ops, Opens(o) PROVE Contract!Next
  <2>1. PhaseOf(o) = "idle" /\ PhaseOf(o)' = "open"
    BY <1>2 DEF Opens, PhaseOf, Live, Settled, Final
  <2>2. HeldBy(o) = {} /\ ~Live(o)
    BY <1>2 DEF Opens, LocksFollowStatus, HeldBy, Live, Settled
  <2>3. Needed(o) \subseteq Resources /\ KeysOf[o] \subseteq Needed(o)
    BY OpsAssumption DEF Needed
  <2>4. \A p \in Ops \ {o} : HeldBy(p) \cap Needed(o) = {}
    BY <1>2, OpsAssumption DEF Opens, Available, HeldBy
  <2>5. \A p \in Ops : HeldBy(p)' = IF p = o THEN Needed(o) ELSE HeldBy(p)
    <3>1. \A r \in Resources : locks'[r] = IF r \in Needed(o) THEN o ELSE locks[r]
      BY <1>2 DEF Opens, Acquire
    <3> QED
      BY <2>2, <2>3, <2>4, <3>1 DEF HeldBy
  <2>6. phase' = [phase EXCEPT ![o] = "open"]
    BY <1>2, <2>1, PhaseOthers DEF Opens
  <2>7. held' = [held EXCEPT ![o] = Needed(o)]
    BY <2>5
  <2>8. Contract!Open(o)
    BY <1>2, <2>1, <2>3, <2>4, <2>6, <2>7 DEF Opens, Contract!Open, Contract!Free
  <2> QED
    BY <2>8 DEF Contract!Next
<1>3. ASSUME NEW o \in Ops, Releases(o) PROVE Contract!Next
  <2>1. PhaseOf(o) = "open" /\ PhaseOf(o)' \in {"idle", "closed"}
    BY <1>3 DEF Releases, PhaseOf, Live, Settled, Final
  <2>2. phase' = [phase EXCEPT ![o] = PhaseOf(o)']
    BY <1>3, PhaseOthers DEF Releases
  <2>3. held' = [held EXCEPT ![o] = {}]
    BY <1>3, HeldUnlock DEF Releases
  <2>4. Contract!Release(o)
    BY <1>3, <2>1, <2>2, <2>3 DEF Releases, Contract!Release
  <2> QED
    BY <2>4 DEF Contract!Next
<1>4. ASSUME NEW o \in Ops, Abandons(o) PROVE Contract!Next
  <2>1. PhaseOf(o) = "idle" /\ PhaseOf(o)' = "closed"
    BY <1>4 DEF Abandons, PhaseOf, Live, Settled, Final
  <2>2. HeldBy(o) = {}
    BY <1>4 DEF Abandons, LocksFollowStatus, HeldBy, Live, Settled
  <2>3. phase' = [phase EXCEPT ![o] = "closed"]
    BY <1>4, <2>1, PhaseOthers DEF Abandons
  <2>4. held' = held
    BY <1>4, <2>2, HeldUnlock DEF Abandons
  <2>5. Contract!Abandon(o)
    BY <1>4, <2>1, <2>3, <2>4 DEF Abandons, Contract!Abandon
  <2> QED
    BY <2>5 DEF Contract!Next
<1>5. ASSUME NEW o \in Ops, CallsOut(o) PROVE Contract!Next
  <2>1. PhaseOf(o) = "open"
    BY <1>5 DEF CallsOut, PhaseOf, Live, Settled, Final
  <2>2. phase' = phase /\ held' = held
    BY <1>5 DEF CallsOut, PhaseOf, Live, HeldBy
  <2>3. Contract!Call(o)
    BY <1>5, <2>1, <2>2 DEF CallsOut, Contract!Call
  <2> QED
    BY <2>3 DEF Contract!Next
<1>6. ASSUME NEW w \in Workers, CommitStep(w) PROVE Contract!Next
  <2>0. PICK o \in Ops, r \in Resources : o = job[w] /\ r = NewMailbox[o]
    BY <1>6, OpsAssumption DEF CommitStep, At, Busy, TypeOK, WorkerTypeOK
  <2>1. PhaseOf(o) = "open"
    BY <1>6, <2>0 DEF CommitStep, At, Busy, Placed, PhaseOf, Live, Settled, Final
  <2>2. \A p \in Ops \ {o} : HeldBy(p) \cap {r} = {}
    BY <1>6, <2>0, OpsAssumption DEF CommitStep, Available, HeldBy
  <2>3. \A p \in Ops : HeldBy(p)' = IF p = o THEN HeldBy(o) \cup {r} ELSE HeldBy(p)
    <3>1. \A q \in Resources : locks'[q] = IF q = r THEN o ELSE locks[q]
      BY <1>6, <2>0 DEF CommitStep, Acquire
    <3> QED
      BY <2>0, <2>2, <3>1 DEF HeldBy
  <2>4. phase' = phase
    BY <1>6 DEF CommitStep, PhaseOf, Live
  <2>5. held' = [held EXCEPT ![o] = @ \cup {r}]
    BY <2>3
  <2>6. Contract!Extend(o)
    BY <1>6, <2>1, <2>2, <2>4, <2>5 DEF CommitStep, providerVars, Contract!Extend, Contract!Free
  <2> QED
    BY <2>6 DEF Contract!Next
<1> QED
  BY <1>1, <1>2, <1>3, <1>4, <1>5, <1>6, EffectNext DEF Effect

\* The engine implements its contract: an open operation holds its resources alone, from the
\* moment it is queued to the moment nobody has to act on it any more; providers are called
\* only for open operations; a closed operation stays closed.
THEOREM EngineFulfilsReservations == Spec => FulfilsReservations
<1>1. Init => Contract!Init
  BY ContractInit
<1>2. LocksInv /\ [Next]_vars => [Contract!Next]_(Contract!vars)
  BY ContractStep DEF LocksInv
<1> QED
  BY <1>1, <1>2, LocksInvariant, PTL DEF Spec, FulfilsReservations, Contract!Spec

-----------------------------------------------------------------------------
(* What success means *)

\* The only ways in which the status of a step changes.
StepChange(o, k) ==
    \/ \E w \in Workers : /\ job[w] = o /\ pos[w] = k
                          /\ BeginStep(w) \/ RecordStep(w) \/ CommitStep(w) \/ ExternalStep(w)
    \/ \E c \in Controllers : /\ cop[c] = o /\ Current(c) = k /\ RecordVerdict(c)
                              /\ step[o][k] \in Unresolved /\ step'[o][k] = verdict[c]
    \/ step[o][k] = "failed" /\ step'[o][k] = "pending"
    \/ /\ KindOf[o][k] \in {"external", "credential"}
       /\ step[o][k] \in {"pending", "unknown"} /\ step'[o][k] = "external_reported"
    \/ ~up /\ step[o][k] = "running" /\ step'[o][k] = "unknown"

\* Every change of a recorded step is one of these.
LEMMA StepChanges ==
  ASSUME TypeOK, Placed, Shaped, Certain, [Next]_vars, NEW o \in Ops, NEW k \in Positions,
         step'[o][k] # step[o][k]
  PROVE  StepChange(o, k)
<1> USE DEF TypeOK, TableTypeOK
<1>1. ASSUME NEW w \in Workers, WorkerStep(w) \/ RecordStepFails(w) \/ WorkerFails(w)
      PROVE  StepChange(o, k)
  <2>1. pc[w] \in Busy => job[w] \in Ops
    BY DEF WorkerTypeOK
  <2>2. CASE BeginStep(w) \/ RecordStep(w) \/ CommitStep(w) \/ ExternalStep(w)
    <3>1. job[w] \in Ops
      BY <2>1, <2>2 DEF BeginStep, RecordStep, CommitStep, ExternalStep, At, Busy
    <3>2. \E s : step' = [step EXCEPT ![job[w]][pos[w]] = s]
      <4>1. CASE BeginStep(w)
        <5>1. \/ step' = [step EXCEPT ![job[w]][pos[w]] = "running"]
              \/ step' = [step EXCEPT ![job[w]][pos[w]] =
                            IF step[job[w]][pos[w]] = "absent" THEN "pending"
                                                               ELSE step[job[w]][pos[w]]]
          BY <4>1 DEF BeginStep
        <5> QED
          BY <5>1
      <4>2. CASE RecordStep(w) \/ CommitStep(w) \/ ExternalStep(w)
        BY <4>2 DEF RecordStep, CommitStep, ExternalStep
      <4> QED
        BY <2>2, <4>1, <4>2
    <3>3. job[w] = o /\ pos[w] = k
      BY <3>1, <3>2
    <3> QED
      BY <2>2, <3>3 DEF StepChange
  <2>3. CASE Complete(w)
    <3>1. job[w] \in Ops /\ NoDoubt(job[w])
      BY <2>1, <2>3 DEF Complete, AtEnd, Busy, Certain
    <3>2. UNCHANGED step
      BY <2>3, <3>1 DEF Complete, NoDoubt, Unresolved
    <3> QED
      BY <3>2
  <2>4. CASE /\ ~BeginStep(w) /\ ~RecordStep(w) /\ ~CommitStep(w) /\ ~ExternalStep(w)
             /\ ~Complete(w)
    BY <1>1, <2>4 DEF WorkerStep, Select, Claim, StartExecute, SkipStep, CallProvider,
       RecordStepFails, NoteProcessed, AwaitReports, StopWithError, Finish, WorkerFails,
       tableVars
  <2> QED
    BY <2>2, <2>3, <2>4
<1>2. ASSUME NEW c \in Controllers, ControllerStep(c) PROVE StepChange(o, k)
  <2>1. RecordVerdict(c)
    BY <1>2 DEF ControllerStep, ViewOperation, ListSteps, ReadProvider, FinishReconcile,
       AbandonReconcile, tableVars
  <2>2. cop[c] \in Ops
    BY <2>1 DEF RecordVerdict, ControllerTypeOK
  <2>3. cop[c] = o /\ Current(c) = k
    BY <2>1, <2>2 DEF RecordVerdict
  <2>4. step[o][k] \in Unresolved /\ step'[o][k] = verdict[c]
    BY <2>1, <2>3 DEF RecordVerdict
  <2> QED
    BY <2>1, <2>3, <2>4 DEF StepChange
<1>3. ASSUME NEW p \in Ops, AdministratorStep(p) PROVE StepChange(o, k)
  <2>1. CASE Retry(p)
    BY <2>1 DEF Retry, StepChange
  <2>2. CASE \E j \in Positions : Confirm(p, j)
    BY <2>2 DEF Confirm, StepChange
  <2>3. CASE \E j \in Positions : ReportLostCredentialCleanup(p, j)
    BY <2>3 DEF ReportLostCredentialCleanup, StepChange
  <2>4. CASE QueueOperation(p) \/ Cancel(p) \/ ReconcileLocal(p) \/ ChangePermission(p)
    BY <2>4 DEF QueueOperation, Cancel, ReconcileLocal, ChangePermission, tableVars
  <2> QED
    BY <1>3, <2>1, <2>2, <2>3, <2>4 DEF AdministratorStep
<1>4. CASE StartOperations
  BY <1>4 DEF StartOperations, Interrupted, StepChange
<1>5. CASE Crash \/ Shutdown \/ LateEffect \/ UNCHANGED vars
  BY <1>5 DEF Crash, Shutdown, Down, LateEffect, vars, tableVars
<1> QED
  BY <1>1, <1>2, <1>3, <1>4, <1>5 DEF Next

\* Effects at the providers and in the database are never undone.
LEMMA EffectsStay ==
  ASSUME TypeOK, [Next]_vars
  PROVE  /\ \A o \in Ops, k \in Positions : applied[o][k] > 0 => applied'[o][k] > 0
         /\ mailboxes \subseteq mailboxes'
<1>1. ASSUME NEW o \in Ops, NEW k \in Positions, applied' = [applied EXCEPT ![o][k] = @ + 1]
      PROVE  \A p \in Ops, j \in Positions : applied[p][j] > 0 => applied'[p][j] > 0
  <2>1. \A p \in Ops, j \in Positions :
          applied'[p][j] = IF p = o /\ j = k THEN applied[p][j] + 1 ELSE applied[p][j]
    BY <1>1 DEF TypeOK, ProviderTypeOK
  <2>2. \A p \in Ops, j \in Positions : applied[p][j] \in Nat
    BY DEF TypeOK, ProviderTypeOK
  <2> QED
    BY <2>1, <2>2
<1>2. ASSUME NEW w \in Workers, WorkerStep(w) \/ RecordStepFails(w) \/ WorkerFails(w)
      PROVE  /\ \A o \in Ops, k \in Positions : applied[o][k] > 0 => applied'[o][k] > 0
             /\ mailboxes \subseteq mailboxes'
  <2>1. CASE CallProvider(w)
    <3>1. job[w] \in Ops /\ pos[w] \in Positions
      BY <2>1 DEF CallProvider, TypeOK, WorkerTypeOK, Busy
    <3>2. \/ UNCHANGED applied
          \/ applied' = [applied EXCEPT ![job[w]][pos[w]] = @ + 1]
      BY <2>1 DEF CallProvider
    <3> QED
      BY <1>1, <2>1, <3>1, <3>2 DEF CallProvider, tableVars
  <2>2. CASE ~CallProvider(w)
    BY <1>2, <2>2 DEF WorkerStep, Select, Claim, StartExecute, SkipStep, BeginStep, RecordStep,
       RecordStepFails, CommitStep, ExternalStep, NoteProcessed, AwaitReports, Complete,
       StopWithError, Finish, WorkerFails, tableVars, providerVars
  <2> QED
    BY <2>1, <2>2
<1>3. ASSUME NEW c \in Controllers, ControllerStep(c) PROVE UNCHANGED <<applied, mailboxes>>
  BY <1>3 DEF ControllerStep, ViewOperation, ListSteps, ReadProvider, RecordVerdict,
     FinishReconcile, AbandonReconcile, tableVars, providerVars
<1>4. ASSUME NEW o \in Ops, AdministratorStep(o) PROVE UNCHANGED <<applied, mailboxes>>
  BY <1>4 DEF AdministratorStep, QueueOperation, Cancel, Retry, ReconcileLocal, Confirm,
     ReportLostCredentialCleanup, ChangePermission, tableVars, providerVars
<1>5. CASE LateEffect
  <2>1. PICK x \in inflight : applied' = [applied EXCEPT ![x[1]][x[2]] = @ + 1]
    BY <1>5 DEF LateEffect
  <2>2. PICK o \in Ops, k \in Positions : x = <<o, k>>
    BY <2>1 DEF TypeOK, ProviderTypeOK
  <2>3. applied' = [applied EXCEPT ![o][k] = @ + 1]
    BY <2>1, <2>2
  <2> QED
    BY <1>1, <1>5, <2>3 DEF LateEffect, tableVars
<1>6. CASE Crash \/ Shutdown \/ StartOperations \/ UNCHANGED vars
  BY <1>6 DEF Crash, Shutdown, Down, StartOperations, vars, tableVars, providerVars
<1> QED
  BY <1>2, <1>3, <1>4, <1>5, <1>6 DEF Next

\* Actions of one worker leave the others alone, and those of one controller too.
LEMMA WorkerAlone ==
  ASSUME NEW w \in Workers, WorkerStep(w) \/ RecordStepFails(w) \/ WorkerFails(w), TypeOK,
         NEW v \in Workers \ {w}
  PROVE  pc'[v] = pc[v] /\ job'[v] = job[v] /\ pos'[v] = pos[v] /\ answer'[v] = answer[v]
<1> USE DEF TypeOK, WorkerTypeOK
<1>1. CASE \/ Select(w) \/ Claim(w) \/ StartExecute(w) \/ SkipStep(w) \/ BeginStep(w)
           \/ CallProvider(w)
  BY <1>1 DEF Select, Claim, Leave, StartExecute, SkipStep, NextStep, BeginStep, CallProvider
<1>2. CASE RecordStep(w) \/ RecordStepFails(w) \/ CommitStep(w) \/ ExternalStep(w)
  BY <1>2 DEF RecordStep, RecordStepFails, CommitStep, ExternalStep, NextStep
<1>3. CASE \/ NoteProcessed(w) \/ AwaitReports(w) \/ Complete(w) \/ StopWithError(w) \/ Finish(w)
           \/ WorkerFails(w)
  BY <1>3 DEF NoteProcessed, AwaitReports, Complete, StopWithError, Finish, WorkerFails, Leave,
     workerVars
<1> QED
  BY <1>1, <1>2, <1>3 DEF WorkerStep

\* An administrator who reconciles is only moved by reconciling, or by the end of the process.
LEMMA ControllersIdle ==
  ASSUME [Next]_vars, \A c \in Controllers : ~ControllerStep(c)
  PROVE  UNCHANGED controllerVars \/ \A c \in Controllers : cpc'[c] = "idle"
<1>1. ASSUME NEW w \in Workers, WorkerStep(w) \/ RecordStepFails(w) \/ WorkerFails(w)
      PROVE  UNCHANGED controllerVars
  BY <1>1 DEF WorkerStep, Select, Claim, StartExecute, SkipStep, BeginStep, CallProvider,
     RecordStep, RecordStepFails, CommitStep, ExternalStep, NoteProcessed, AwaitReports,
     Complete, StopWithError, Finish, WorkerFails
<1>2. ASSUME NEW o \in Ops, AdministratorStep(o) PROVE UNCHANGED controllerVars
  BY <1>2 DEF AdministratorStep, QueueOperation, Cancel, Retry, ReconcileLocal, Confirm,
     ReportLostCredentialCleanup, ChangePermission
<1>3. CASE Crash \/ Shutdown
  BY <1>3 DEF Crash, Shutdown, Down
<1>4. CASE StartOperations \/ LateEffect \/ UNCHANGED vars
  BY <1>4 DEF StartOperations, LateEffect, vars
<1> QED
  BY <1>1, <1>2, <1>3, <1>4 DEF Next

\* The workers only change in steps of their own, or the process stops.
LEMMA WorkersIdle ==
  ASSUME TypeOK, [Next]_vars,
         \A w \in Workers : ~(WorkerStep(w) \/ RecordStepFails(w) \/ WorkerFails(w))
  PROVE  \/ UNCHANGED workerVars
         \/ \A w \in Workers : pc'[w] = "idle" /\ pos'[w] = 1
<1>1. CASE (\E c \in Controllers : ControllerStep(c)) \/ (\E o \in Ops : AdministratorStep(o))
  BY <1>1, AdministratorsKeepWorkers
<1>2. CASE Crash \/ Shutdown
  BY <1>2 DEF Crash, Shutdown, Down
<1>3. CASE StartOperations \/ LateEffect \/ UNCHANGED vars
  BY <1>3 DEF StartOperations, LateEffect, vars
<1> QED
  BY <1>1, <1>2, <1>3 DEF Next

\* What is recorded as done, answered or verified has happened.
Truthful ==
    /\ \A o \in Ops, k \in Positions : step[o][k] = "succeeded" =>
         /\ KindOf[o][k] \in Calls => applied[o][k] > 0
         /\ KindOf[o][k] = "commit" => NewMailbox[o] \in mailboxes
    /\ \A w \in Workers : pc[w] = "answered" /\ answer[w] = "ok" => applied[job[w]][pos[w]] > 0
    /\ \A c \in Controllers :
         cpc[c] = "read" /\ verdict[c] = "succeeded" /\ Current(c) \in Positions =>
           applied[cop[c]][Current(c)] > 0

\* A step recorded as done was done.
LEMMA TruthfulSteps ==
  ASSUME TypeOK, Placed, Shaped, Certain, Truthful, [Next]_vars,
         NEW o \in Ops, NEW k \in Positions, step'[o][k] = "succeeded"
  PROVE  /\ KindOf[o][k] \in Calls => applied'[o][k] > 0
         /\ KindOf[o][k] = "commit" => NewMailbox[o] \in mailboxes'
<1>1. CASE step[o][k] = "succeeded"
  BY <1>1, EffectsStay DEF Truthful
<1>2. CASE step[o][k] # "succeeded"
  <2>1. StepChange(o, k)
    BY <1>2, StepChanges
  <2>2. ASSUME NEW w \in Workers, job[w] = o, pos[w] = k,
               BeginStep(w) \/ RecordStep(w) \/ CommitStep(w) \/ ExternalStep(w)
        PROVE  /\ KindOf[o][k] \in Calls => applied'[o][k] > 0
               /\ KindOf[o][k] = "commit" => NewMailbox[o] \in mailboxes'
    <3>1. ~BeginStep(w) /\ ~ExternalStep(w)
      BY <1>2, <2>2 DEF BeginStep, ExternalStep, TypeOK, TableTypeOK
    <3>2. CASE RecordStep(w)
      <4>1. answer[w] = "ok" /\ pc[w] = "answered"
        BY <2>2, <3>2 DEF RecordStep, TypeOK, TableTypeOK, WorkerTypeOK, Answers
      <4>2. KindOf[o][k] \in Calls /\ applied[o][k] > 0
        BY <2>2, <4>1 DEF Truthful, Placed
      <4> QED
        BY <4>2, EffectsStay DEF Calls
    <3>3. CASE CommitStep(w)
      BY <2>2, <3>3 DEF CommitStep, At, Calls
    <3> QED
      BY <2>2, <3>1, <3>2, <3>3
  <2>3. ASSUME NEW c \in Controllers, cop[c] = o, Current(c) = k, RecordVerdict(c),
               step[o][k] \in Unresolved, step'[o][k] = verdict[c]
        PROVE  /\ KindOf[o][k] \in Calls => applied'[o][k] > 0
               /\ KindOf[o][k] = "commit" => NewMailbox[o] \in mailboxes'
    <3>1. applied[o][k] > 0
      BY <2>3 DEF RecordVerdict, Truthful
    <3>2. KindOf[o][k] # "commit"
      BY <2>3 DEF Shaped, Unresolved
    <3> QED
      BY <3>1, <3>2, EffectsStay
  <2> QED
    BY <2>1, <2>2, <2>3 DEF StepChange
<1> QED
  BY <1>1, <1>2

\* An answer that says so is true.
LEMMA TruthfulAnswers ==
  ASSUME TypeOK, Truthful, [Next]_vars, NEW v \in Workers,
         pc'[v] = "answered", answer'[v] = "ok"
  PROVE  applied'[job'[v]][pos'[v]] > 0
<1>1. ASSUME pc[v] = "answered", answer[v] = "ok", job'[v] = job[v], pos'[v] = pos[v]
      PROVE  applied'[job'[v]][pos'[v]] > 0
  <2>1. job[v] \in Ops /\ pos[v] \in Positions /\ applied[job[v]][pos[v]] > 0
    BY <1>1 DEF Truthful, TypeOK, WorkerTypeOK, Busy
  <2> QED
    BY <1>1, <2>1, EffectsStay
<1>2. ASSUME NEW w \in Workers, WorkerStep(w) \/ RecordStepFails(w) \/ WorkerFails(w)
      PROVE  applied'[job'[v]][pos'[v]] > 0
  <2>1. CASE w # v
    BY <1>1, <1>2, <2>1, WorkerAlone
  <2>2. CASE w = v
    <3>1. CallProvider(v)
      BY <1>2, <2>2 DEF TypeOK, WorkerTypeOK, WorkerStep, Select, Claim, Leave, StartExecute,
         SkipStep, At, BeginStep, RecordStep, RecordStepFails, CommitStep, ExternalStep,
         NoteProcessed, AtEnd, AwaitReports, Complete, StopWithError, Finish, WorkerFails,
         workerVars
    <3>2. job[v] \in Ops /\ pos[v] \in Positions
      BY <3>1 DEF CallProvider, TypeOK, WorkerTypeOK, Busy
    <3>3. applied' = [applied EXCEPT ![job[v]][pos[v]] = @ + 1] /\ UNCHANGED <<job, pos>>
      BY <3>1 DEF CallProvider, TypeOK, WorkerTypeOK
    <3>4. applied[job[v]][pos[v]] \in Nat
      BY <3>2 DEF TypeOK, ProviderTypeOK
    <3>5. applied'[job[v]][pos[v]] = applied[job[v]][pos[v]] + 1
      BY <3>2, <3>3 DEF TypeOK, ProviderTypeOK
    <3> QED
      BY <3>3, <3>4, <3>5
  <2> QED
    BY <2>1, <2>2
<1>3. CASE \A w \in Workers : ~(WorkerStep(w) \/ RecordStepFails(w) \/ WorkerFails(w))
  BY <1>1, <1>3, WorkersIdle DEF workerVars
<1> QED
  BY <1>2, <1>3

\* So is a verdict read from the provider.
LEMMA TruthfulVerdicts ==
  ASSUME TypeOK, Truthful, [Next]_vars, NEW c \in Controllers,
         cpc'[c] = "read", verdict'[c] = "succeeded", Current(c)' \in Positions
  PROVE  applied'[cop'[c]][Current(c)'] > 0
<1>1. ASSUME cpc[c] = "read", verdict[c] = "succeeded", cop'[c] = cop[c], todo'[c] = todo[c]
      PROVE  applied'[cop'[c]][Current(c)'] > 0
  <2>1. Current(c)' = Current(c)
    BY <1>1 DEF Current
  <2>2. cop[c] \in Ops /\ applied[cop[c]][Current(c)] > 0
    BY <1>1, <2>1 DEF Truthful, TypeOK, ControllerTypeOK
  <2> QED
    BY <1>1, <2>1, <2>2, EffectsStay
<1>2. ASSUME NEW d \in Controllers, ControllerStep(d)
      PROVE  applied'[cop'[c]][Current(c)'] > 0
  <2>1. CASE d # c
    <3>1. /\ cpc'[c] = cpc[c] /\ cop'[c] = cop[c] /\ todo'[c] = todo[c]
          /\ verdict'[c] = verdict[c]
      BY <1>2, <2>1 DEF ControllerStep, ViewOperation, ListSteps, ReadProvider, RecordVerdict,
         FinishReconcile, AbandonReconcile, Answered, TypeOK, ControllerTypeOK
    <3> QED
      BY <1>1, <3>1
  <2>2. CASE d = c
    <3>1. ReadProvider(c)
      BY <1>2, <2>2 DEF ControllerStep, ViewOperation, ListSteps, RecordVerdict,
         FinishReconcile, AbandonReconcile, Answered, TypeOK, ControllerTypeOK
    <3>2. applied[cop[c]][Current(c)] > 0
      BY <3>1 DEF ReadProvider, TypeOK, ControllerTypeOK
    <3>3. Current(c)' = Current(c) /\ UNCHANGED <<applied, cop>>
      BY <3>1 DEF ReadProvider, Current, providerVars
    <3> QED
      BY <3>2, <3>3
  <2> QED
    BY <2>1, <2>2
<1>3. CASE \A d \in Controllers : ~ControllerStep(d)
  BY <1>1, <1>3, ControllersIdle DEF controllerVars
<1> QED
  BY <1>2, <1>3

\* Every step of the engine keeps the records truthful.
LEMMA TruthfulNext ==
  ASSUME TypeOK, Placed, Shaped, Certain, Truthful, [Next]_vars
  PROVE  Truthful'
  BY TruthfulSteps, TruthfulAnswers, TruthfulVerdicts DEF Truthful

\* A step that an execution has behind it.
Reached(o, k) ==
    IF KindOf[o][k] = "external" THEN step[o][k] \in {"pending", "external_reported"}
                                 ELSE step[o][k] = "succeeded"

ReachedAll(o) == \A k \in Steps(o) : Reached(o, k)

\* A worker goes through the steps in order; an operation noted as processed went through all
\* of them and one that succeeded has no report outstanding.
Progress ==
    /\ \A o \in Ops, k \in Positions :
         KindOf[o][k] = "external" => step[o][k] \in {"absent", "pending", "external_reported"}
    /\ \A w \in Workers : pc[w] \in {"idle", "selected", "claimed", "stopped"} => pos[w] = 1
    /\ \A w \in Workers : pc[w] \in {"between", "marked", "answered"} =>
         \A k \in Steps(job[w]) : k < pos[w] => Reached(job[w], k)
    /\ \A w \in Workers : pc[w] \in {"marked", "answered"} => job[w] \notin processed
    /\ \A o \in processed : ReachedAll(o)
    /\ \A o \in Ops : status[o] = "succeeded" =>
         ReachedAll(o) /\ \A k \in Steps(o) : step[o][k] # "pending"

\* At the beginning there is nothing to be true or passed.
LEMMA SuccessInit == Init => Truthful /\ Progress
  BY DEF Init, Truthful, Progress

\* A step stays reached, and reported, unless a worker is just recording it.
LEMMA ReachedKept ==
  ASSUME TypeOK, Placed, Shaped, Certain, Progress, [Next]_vars,
         NEW o \in Ops, NEW k \in Steps(o), Reached(o, k),
         \A w \in Workers : RecordStep(w) => job[w] # o \/ pos[w] # k
  PROVE  /\ Reached(o, k)'
         /\ step[o][k] # "pending" => step'[o][k] # "pending"
<1>0. k \in Positions
  BY DEF Steps
<1>1. CASE step'[o][k] = step[o][k]
  BY <1>1 DEF Reached
<1>2. CASE step'[o][k] # step[o][k]
  <2>1. StepChange(o, k)
    BY <1>0, <1>2, StepChanges
  <2>2. ASSUME NEW w \in Workers, job[w] = o, pos[w] = k,
               BeginStep(w) \/ CommitStep(w) \/ ExternalStep(w)
        PROVE  FALSE
    BY <2>2 DEF BeginStep, CommitStep, ExternalStep, At, Calls, Reached
  <2>3. step[o][k] \notin Unresolved \cup {"failed"}
    BY DEF Reached, Unresolved
  <2>4. KindOf[o][k] = "external" /\ step'[o][k] = "external_reported"
    BY <2>1, <2>2, <2>3 DEF StepChange, Reached, Unresolved
  <2> QED
    BY <2>4 DEF Reached
<1> QED
  BY <1>1, <1>2

\* At the end of its operation a worker has all steps behind it.
LEMMA EndReached ==
  ASSUME TypeOK, Progress, NEW w \in Workers, AtEnd(w)
  PROVE  ReachedAll(job[w])
<1>1. job[w] \in Ops /\ pc[w] = "between" /\ pos[w] \in 1..MaxSteps + 1
  BY DEF AtEnd, TypeOK, WorkerTypeOK, Busy
<1>2. SUFFICES ASSUME NEW k \in Steps(job[w]) PROVE k < pos[w]
  BY <1>1 DEF Progress, ReachedAll
<1>3. k \in Positions /\ KindOf[job[w]][k] # "none"
  BY DEF Steps
<1>4. CASE pos[w] = k
  BY <1>3, <1>4 DEF AtEnd, Steps
<1>5. CASE pos[w] < k
  <2>1. pos[w] \in Positions
    BY <1>1, <1>3, <1>5, BoundsAssumption DEF Positions
  <2>2. KindOf[job[w]][pos[w]] # "none"
    BY <1>1, <1>3, <1>5, <2>1, OpsAssumption
  <2> QED
    BY <2>1, <2>2 DEF AtEnd, Steps
<1> QED
  BY <1>1, <1>3, <1>4, <1>5, BoundsAssumption DEF Positions

\* An external step is pending or reported, whatever happens.
LEMMA ProgressExternal ==
  ASSUME TypeOK, Placed, Shaped, Certain, Progress, [Next]_vars,
         NEW o \in Ops, NEW k \in Positions, KindOf[o][k] = "external"
  PROVE  step'[o][k] \in {"absent", "pending", "external_reported"}
<1>1. step[o][k] \in {"absent", "pending", "external_reported"}
  BY DEF Progress
<1>2. CASE step'[o][k] # step[o][k]
  <2>1. StepChange(o, k)
    BY <1>2, StepChanges
  <2>2. ASSUME NEW w \in Workers, job[w] = o, pos[w] = k,
               BeginStep(w) \/ RecordStep(w) \/ CommitStep(w) \/ ExternalStep(w)
        PROVE  step'[o][k] = "pending"
    <3>1. ~BeginStep(w) /\ ~RecordStep(w) /\ ~CommitStep(w)
      BY <2>2 DEF BeginStep, RecordStep, CommitStep, At, Calls, Placed
    <3>2. step' = [step EXCEPT ![o][k] = "pending"]
      BY <2>2, <3>1 DEF ExternalStep
    <3> QED
      BY <3>2 DEF TypeOK, TableTypeOK
  <2> QED
    BY <1>1, <2>1, <2>2 DEF StepChange, Unresolved
<1> QED
  BY <1>1, <1>2

\* The steps behind a worker stay reached.
LEMMA BehindKept ==
  ASSUME TypeOK, Placed, Shaped, Certain, Progress, [Next]_vars,
         NEW v \in Workers, pc[v] \in {"between", "marked", "answered"},
         NEW k \in Steps(job[v]), k < pos[v]
  PROVE  Reached(job[v], k) /\ \A o \in Ops : o = job[v] => Reached(o, k)'
<1>1. job[v] \in Ops /\ Reached(job[v], k) /\ pc[v] \in Busy
  BY DEF Progress, TypeOK, WorkerTypeOK, Busy
<1>2. ASSUME NEW w \in Workers, RecordStep(w) PROVE job[w] # job[v] \/ pos[w] # k
  <2>1. pc[w] \in Busy
    BY <1>2 DEF RecordStep, Busy
  <2>2. w # v => job[w] # job[v]
    BY <1>1, <2>1 DEF Placed
  <2>3. pos[v] # k
    BY DEF TypeOK, WorkerTypeOK, Steps, Positions
  <2> QED
    BY <2>2, <2>3
<1> QED
  BY <1>1, <1>2, ReachedKept


\* A worker without an execution stands before the first step.
LEMMA StartsAtOne ==
  ASSUME TypeOK, Progress, [Next]_vars, NEW v \in Workers,
         pc'[v] \in {"idle", "selected", "claimed", "stopped"}
  PROVE  pos'[v] = 1
<1> USE DEF Progress
<1>1. ASSUME NEW w \in Workers, WorkerStep(w) \/ RecordStepFails(w) \/ WorkerFails(w)
      PROVE  pos'[v] = 1
  <2>1. CASE w # v
    BY <1>1, <2>1, WorkerAlone
  <2>2. CASE w = v
    <3> USE <2>2 DEF TypeOK, WorkerTypeOK
    <3>1. CASE Select(v) \/ Claim(v) \/ WorkerFails(v) \/ Finish(v)
      BY <3>1 DEF Select, Claim, WorkerFails, Finish, Leave
    <3>2. CASE ~(Select(v) \/ Claim(v) \/ WorkerFails(v) \/ Finish(v))
      BY <1>1, <3>2 DEF WorkerStep, StartExecute, SkipStep, At, BeginStep, CallProvider,
         RecordStep, RecordStepFails, CommitStep, ExternalStep, NoteProcessed, AtEnd,
         AwaitReports, Complete, StopWithError, workerVars
    <3> QED
      BY <3>1, <3>2
  <2> QED
    BY <2>1, <2>2
<1>2. CASE \A w \in Workers : ~(WorkerStep(w) \/ RecordStepFails(w) \/ WorkerFails(w))
  BY <1>2, WorkersIdle DEF workerVars
<1> QED
  BY <1>1, <1>2

\* What lies behind a worker was reached.
LEMMA BehindNext ==
  ASSUME TypeOK, Placed, Shaped, Certain, Progress, [Next]_vars,
         NEW v \in Workers, pc'[v] \in {"between", "marked", "answered"},
         NEW k \in Steps(job'[v]), k < pos'[v]
  PROVE  Reached(job[v], k)'
<1> USE DEF TypeOK, WorkerTypeOK
<1>0. k \in Positions /\ k \in Nat /\ 1 <= k
  BY DEF Steps, Positions
<1>1. ASSUME pc[v] \in {"between", "marked", "answered"}, job'[v] = job[v], k < pos[v]
      PROVE  Reached(job[v], k)'
  <2>1. PICK o \in Ops : o = job[v]
    BY <1>1 DEF Busy
  <2>2. Reached(o, k)'
    BY <1>1, <2>1, BehindKept
  <2> QED
    BY <1>1, <2>1, <2>2 DEF Reached
<1>2. ASSUME NEW w \in Workers, WorkerStep(w) \/ RecordStepFails(w) \/ WorkerFails(w)
      PROVE  Reached(job[v], k)'
  <2>1. CASE w # v
    BY <1>1, <1>2, <2>1, WorkerAlone
  <2>2. CASE w = v
    <3>1. CASE SkipStep(v) \/ RecordStep(v) \/ CommitStep(v) \/ ExternalStep(v)
      <4>1. /\ pc[v] \in {"between", "answered"} /\ job'[v] = job[v]
            /\ pos'[v] = pos[v] + 1 /\ job[v] \in Ops
        BY <3>1 DEF SkipStep, RecordStep, CommitStep, ExternalStep, At, NextStep, Busy
      <4>2. CASE k < pos[v]
        BY <1>1, <4>1, <4>2
      <4>3. CASE k = pos[v]
        <5>1. CASE SkipStep(v)
          <6>1. step'[job[v]][k] = step[job[v]][k] /\ k \in Steps(job[v])
            BY <4>3, <5>1 DEF SkipStep, At, tableVars
          <6>2. step[job[v]][k] \in StepStatuses
            BY <1>0, <4>1 DEF TableTypeOK
          <6>3. KindOf[job[v]][k] = "external" =>
                  step[job[v]][k] \in {"absent", "pending", "external_reported"}
            BY <1>0, <4>1 DEF Progress
          <6>4. \/ step[job[v]][k] = "succeeded"
                \/ KindOf[job[v]][k] = "external" /\ step[job[v]][k] # "absent"
            BY <4>3, <5>1 DEF SkipStep, At
          <6> QED
            BY <4>1, <6>1, <6>3, <6>4 DEF Reached
        <5>2. CASE RecordStep(v)
          <6>1. answer[v] = "ok" /\ KindOf[job[v]][k] \in Calls
            BY <4>3, <5>2 DEF RecordStep, Placed
          <6>2. step' = [step EXCEPT ![job[v]][k] = "succeeded"]
            BY <4>3, <5>2, <6>1 DEF RecordStep
          <6>3. step'[job[v]][k] = "succeeded"
            BY <1>0, <4>1, <6>2 DEF TableTypeOK
          <6> QED
            BY <4>1, <6>1, <6>3 DEF Reached, Calls
        <5>3. CASE CommitStep(v)
          <6>1. step' = [step EXCEPT ![job[v]][k] = "succeeded"] /\ KindOf[job[v]][k] = "commit"
            BY <4>3, <5>3 DEF CommitStep, At
          <6>2. step'[job[v]][k] = "succeeded"
            BY <1>0, <4>1, <6>1 DEF TableTypeOK
          <6> QED
            BY <4>1, <6>1, <6>2 DEF Reached
        <5>4. CASE ExternalStep(v)
          <6>1. step' = [step EXCEPT ![job[v]][k] = "pending"] /\ KindOf[job[v]][k] = "external"
            BY <4>3, <5>4 DEF ExternalStep, At
          <6>2. step'[job[v]][k] = "pending"
            BY <1>0, <4>1, <6>1 DEF TableTypeOK
          <6> QED
            BY <4>1, <6>1, <6>2 DEF Reached
        <5> QED
          BY <3>1, <5>1, <5>2, <5>3, <5>4
      <4> QED
        BY <1>0, <4>1, <4>2, <4>3
    <3>2. CASE BeginStep(v) \/ CallProvider(v) \/ NoteProcessed(v)
      <4>1. pc[v] \in {"between", "marked"} /\ job'[v] = job[v] /\ pos'[v] = pos[v]
        BY <3>2 DEF BeginStep, CallProvider, NoteProcessed, At, AtEnd, workerVars
      <4> QED
        BY <1>1, <4>1
    <3>3. CASE StartExecute(v)
      <4>1. pos'[v] = 1
        BY <3>3 DEF StartExecute, Progress
      <4> QED
        BY <1>0, <4>1
    <3>4. CASE ~(\/ SkipStep(v) \/ RecordStep(v) \/ CommitStep(v) \/ ExternalStep(v)
                 \/ BeginStep(v) \/ CallProvider(v) \/ NoteProcessed(v) \/ StartExecute(v))
      BY <1>2, <2>2, <3>4 DEF WorkerStep, Select, Claim, Leave, RecordStepFails, AtEnd,
         AwaitReports, Complete, StopWithError, Finish, WorkerFails
    <3> QED
      BY <3>1, <3>2, <3>3, <3>4
  <2> QED
    BY <2>1, <2>2
<1>3. CASE \A w \in Workers : ~(WorkerStep(w) \/ RecordStepFails(w) \/ WorkerFails(w))
  BY <1>1, <1>3, WorkersIdle DEF workerVars
<1> QED
  BY <1>2, <1>3

\* Only a worker at the end of its steps notes an operation as processed.
LEMMA ProcessedGrows ==
  ASSUME [Next]_vars, NEW o \in processed', o \notin processed
  PROVE  \E w \in Workers : NoteProcessed(w) /\ o = job[w]
<1>1. ASSUME NEW w \in Workers, WorkerStep(w) \/ RecordStepFails(w) \/ WorkerFails(w)
      PROVE  NoteProcessed(w) /\ o = job[w]
  <2>1. CASE NoteProcessed(w)
    BY <2>1 DEF NoteProcessed
  <2>2. CASE ~NoteProcessed(w)
    BY <1>1, <2>2 DEF WorkerStep, Select, Claim, StartExecute, SkipStep, BeginStep,
       CallProvider, RecordStep, RecordStepFails, CommitStep, ExternalStep, AwaitReports,
       Complete, StopWithError, Finish, WorkerFails, tableVars
  <2> QED
    BY <2>1, <2>2
<1>2. ASSUME NEW c \in Controllers, ControllerStep(c) PROVE FALSE
  BY <1>2 DEF ControllerStep, ViewOperation, ListSteps, ReadProvider, RecordVerdict,
     FinishReconcile, AbandonReconcile, tableVars
<1>3. ASSUME NEW p \in Ops, AdministratorStep(p) PROVE FALSE
  BY <1>3 DEF AdministratorStep, QueueOperation, Cancel, Retry, ReconcileLocal, Confirm,
     ReportLostCredentialCleanup, ChangePermission, tableVars
<1>4. CASE Crash \/ Shutdown \/ StartOperations \/ LateEffect \/ UNCHANGED vars
  BY <1>4 DEF Crash, Shutdown, Down, StartOperations, LateEffect, vars, tableVars
<1> QED
  BY <1>1, <1>2, <1>3, <1>4 DEF Next

\* No provider is called for an operation that went through all its steps.
LEMMA ProcessedCallsNobody ==
  ASSUME TypeOK, Placed, Progress, [Next]_vars, NEW v \in Workers,
         pc'[v] \in {"marked", "answered"}
  PROVE  job'[v] \notin processed'
<1> USE DEF TypeOK, WorkerTypeOK
<1>1. /\ pc[v] \in Busy /\ job'[v] = job[v] /\ job[v] \notin processed
      /\ ~NoteProcessed(v)
  <2>1. ASSUME pc[v] \in {"marked", "answered"}, job'[v] = job[v]
        PROVE  /\ pc[v] \in Busy /\ job'[v] = job[v] /\ job[v] \notin processed
               /\ ~NoteProcessed(v)
    BY <2>1 DEF Progress, Busy, NoteProcessed, AtEnd
  <2>2. ASSUME NEW w \in Workers, WorkerStep(w) \/ RecordStepFails(w) \/ WorkerFails(w), w # v
        PROVE  pc[v] \in {"marked", "answered"} /\ job'[v] = job[v]
    BY <2>2, WorkerAlone
  <2>3. ASSUME WorkerStep(v) \/ RecordStepFails(v) \/ WorkerFails(v)
        PROVE  /\ pc[v] \in Busy /\ job'[v] = job[v] /\ job[v] \notin processed
               /\ ~NoteProcessed(v)
    <3>1. CASE BeginStep(v)
      <4>1. ~Reached(job[v], pos[v]) /\ pos[v] \in Steps(job[v])
        BY <3>1 DEF BeginStep, At, Reached, Calls
      <4>2. job[v] \notin processed
        BY <4>1 DEF Progress, ReachedAll
      <4>3. pc'[v] = "marked" /\ pc[v] = "between" /\ job'[v] = job[v]
        BY <3>1 DEF BeginStep, At
      <4> QED
        BY <4>2, <4>3 DEF Busy, NoteProcessed, workerVars
    <3>2. CASE CallProvider(v)
      BY <2>1, <3>2 DEF CallProvider
    <3>3. CASE ~BeginStep(v) /\ ~CallProvider(v)
      BY <2>3, <3>3 DEF WorkerStep, Select, Claim, Leave, StartExecute, SkipStep, At,
         RecordStep, RecordStepFails, CommitStep, ExternalStep, NoteProcessed, AtEnd,
         AwaitReports, Complete, StopWithError, Finish, WorkerFails, workerVars
    <3> QED
      BY <3>1, <3>2, <3>3
  <2>4. CASE \A w \in Workers : ~(WorkerStep(w) \/ RecordStepFails(w) \/ WorkerFails(w))
    BY <2>1, <2>4, WorkersIdle DEF workerVars
  <2> QED
    BY <2>1, <2>2, <2>3, <2>4
<1>2. ASSUME NEW w \in Workers, NoteProcessed(w) PROVE job[w] # job[v]
  <2>1. w # v /\ pc[w] \in Busy
    BY <1>1, <1>2 DEF NoteProcessed, AtEnd, Busy
  <2> QED
    BY <1>1, <2>1 DEF Placed
<1> QED
  BY <1>1, <1>2, ProcessedGrows

\* All steps of an operation noted as processed were reached.
LEMMA ProcessedReached ==
  ASSUME TypeOK, Placed, Shaped, Certain, Progress, [Next]_vars, NEW o \in processed'
  PROVE  ReachedAll(o)'
<1>1. CASE o \in processed
  <2>1. o \in Ops /\ ReachedAll(o)
    BY <1>1 DEF Progress, TypeOK, TableTypeOK
  <2>2. \A w \in Workers : RecordStep(w) => job[w] # o
    BY <1>1 DEF Progress, RecordStep
  <2> QED
    BY <2>1, <2>2, ReachedKept DEF ReachedAll
<1>2. CASE o \notin processed
  <2>1. PICK w \in Workers : NoteProcessed(w) /\ o = job[w]
    BY <1>2, ProcessedGrows
  <2>2. ReachedAll(o) /\ UNCHANGED step
    BY <2>1, EndReached DEF NoteProcessed
  <2> QED
    BY <2>2 DEF ReachedAll, Reached
<1> QED
  BY <1>1, <1>2

\* An operation comes to succeed in its completing transaction or by the last report.
LEMMA SucceedsBy ==
  ASSUME TypeOK, [Next]_vars, NEW o \in Ops,
         status'[o] = "succeeded", status[o] # "succeeded"
  PROVE  \/ \E w \in Workers : Complete(w) /\ job[w] = o
         \/ \E k \in Positions : Confirm(o, k)
<1> USE DEF TypeOK, TableTypeOK
<1>1. ASSUME NEW w \in Workers, WorkerStep(w) \/ RecordStepFails(w) \/ WorkerFails(w)
      PROVE  Complete(w) /\ job[w] = o
  <2>1. CASE Complete(w)
    BY <2>1 DEF Complete
  <2>2. CASE Claim(w)
    BY <2>2 DEF Claim
  <2>3. CASE Finish(w)
    BY <2>3 DEF Finish, Outcome
  <2>4. CASE ~Complete(w) /\ ~Claim(w) /\ ~Finish(w)
    BY <1>1, <2>4 DEF WorkerStep, Select, StartExecute, SkipStep, BeginStep, CallProvider,
       RecordStep, RecordStepFails, CommitStep, ExternalStep, NoteProcessed, AwaitReports,
       StopWithError, WorkerFails, tableVars
  <2> QED
    BY <2>1, <2>2, <2>3, <2>4
<1>2. ASSUME NEW c \in Controllers, ControllerStep(c) PROVE FALSE
  BY <1>2 DEF ControllerStep, ViewOperation, ListSteps, ReadProvider, RecordVerdict,
     FinishReconcile, AbandonReconcile, tableVars
<1>3. ASSUME NEW p \in Ops, AdministratorStep(p) PROVE \E k \in Positions : Confirm(o, k)
  <2>1. CASE \E k \in Positions : Confirm(p, k)
    BY <2>1 DEF Confirm
  <2>2. CASE ~\E k \in Positions : Confirm(p, k)
    BY <1>3, <2>2 DEF AdministratorStep, QueueOperation, Cancel, Retry, ReconcileLocal,
       ReportLostCredentialCleanup, ChangePermission, tableVars
  <2> QED
    BY <2>1, <2>2
<1>4. CASE StartOperations
  BY <1>4 DEF StartOperations, Interrupted
<1>5. CASE Crash \/ Shutdown \/ LateEffect \/ UNCHANGED vars
  BY <1>5 DEF Crash, Shutdown, Down, LateEffect, vars, tableVars
<1> QED
  BY <1>1, <1>2, <1>3, <1>4, <1>5 DEF Next

\* So were those of one that succeeded, and none is left to be reported.
LEMMA SucceededReached ==
  ASSUME TypeOK, Placed, Shaped, Certain, Progress, [Next]_vars, NEW o \in Ops,
         status'[o] = "succeeded"
  PROVE  /\ ReachedAll(o)'
         /\ \A k \in Steps(o) : step'[o][k] # "pending"
<1>1. CASE status[o] = "succeeded"
  <2>1. ASSUME NEW w \in Workers, RecordStep(w) PROVE job[w] # o
    BY <1>1, <2>1 DEF RecordStep, Placed, Busy
  <2> QED
    BY <1>1, <2>1, ReachedKept DEF Progress, ReachedAll
<1>2. ASSUME NEW w \in Workers, Complete(w), job[w] = o
      PROVE  /\ ReachedAll(o)'
             /\ \A k \in Steps(o) : step'[o][k] # "pending"
  <2>1. NoDoubt(o) /\ ReachedAll(o)
    BY <1>2, EndReached DEF Complete, AtEnd, Certain
  <2>2. step'[o] = step[o]
    BY <1>2, <2>1 DEF Complete, NoDoubt, Unresolved, TypeOK, TableTypeOK
  <2>3. ASSUME NEW k \in Steps(o), step[o][k] = "pending" PROVE FALSE
    <3>1. KindOf[o][k] = "external"
      BY <2>1, <2>3 DEF ReachedAll, Reached
    <3> QED
      BY <1>2, <2>3, <3>1 DEF Complete, Offboard, Resolved
  <2> QED
    BY <2>1, <2>2, <2>3 DEF ReachedAll, Reached
<1>3. ASSUME status[o] # "succeeded", NEW k \in Positions, Confirm(o, k)
      PROVE  /\ ReachedAll(o)'
             /\ \A j \in Steps(o) : step'[o][j] # "pending"
  <2>1. /\ o \in processed'
        /\ \A j \in Steps(o) : step'[o][j] \in Resolved \cup {"absent"}
    BY <1>3 DEF Confirm
  <2> QED
    BY <2>1, ProcessedReached DEF Resolved
<1> QED
  BY <1>1, <1>2, <1>3, SucceedsBy

\* Every step of the engine keeps the progress.
LEMMA ProgressNext ==
  ASSUME TypeOK, Placed, Shaped, Certain, Progress, [Next]_vars
  PROVE  Progress'
<1>1. ASSUME NEW v \in Workers, pc'[v] \in {"between", "marked", "answered"}
      PROVE  (\A k \in Steps(job[v]) : k < pos[v] => Reached(job[v], k))'
  BY <1>1, BehindNext DEF Steps
<1> QED
  BY <1>1, ProgressExternal, StartsAtOne, ProcessedCallsNobody, ProcessedReached,
     SucceededReached DEF Progress, Steps

\* An operation reported as succeeded did all it was asked to do.
THEOREM SuccessCorrect == Spec => []SuccessIsTruthful
<1>1. Init => Truthful /\ Progress
  BY SuccessInit
<1>2. LocksInv /\ Certain /\ Truthful /\ Progress /\ [Next]_vars => Truthful' /\ Progress'
  BY TruthfulNext, ProgressNext DEF LocksInv
<1>3. TypeOK /\ Truthful /\ Progress => SuccessIsTruthful
  <2>1. SUFFICES ASSUME TypeOK, Truthful, Progress, NEW o \in Ops, status[o] = "succeeded",
                        NEW k \in Steps(o)
                 PROVE  CASE KindOf[o][k] \in Calls    -> applied[o][k] > 0
                          [] KindOf[o][k] = "commit"   -> NewMailbox[o] \in mailboxes
                          [] KindOf[o][k] = "external" -> step[o][k] = "external_reported"
    BY Zenon DEF SuccessIsTruthful
  <2>2. Reached(o, k) /\ step[o][k] # "pending" /\ k \in Positions
    BY <2>1 DEF Progress, ReachedAll, Steps
  <2>3. CASE KindOf[o][k] \in Calls
    <3>1. applied[o][k] > 0
      BY <2>1, <2>2, <2>3 DEF Truthful, Reached, Calls
    <3> QED
      BY <2>3, <3>1 DEF Calls
  <2>4. CASE KindOf[o][k] = "commit"
    <3>1. NewMailbox[o] \in mailboxes
      BY <2>1, <2>2, <2>4 DEF Truthful, Reached
    <3> QED
      BY <2>4, <3>1 DEF Calls
  <2>5. CASE KindOf[o][k] = "external"
    <3>1. step[o][k] = "external_reported"
      BY <2>1, <2>2, <2>5 DEF Progress, Reached
    <3> QED
      BY <2>5, <3>1 DEF Calls
  <2>6. KindOf[o][k] \in Kinds \ {"none"}
    BY <2>2, OpsAssumption DEF Steps
  <2> QED
    BY <2>3, <2>4, <2>5, <2>6 DEF Kinds, Calls
<1>4. Init => Certain
  BY AmbiguityInit
<1>5. LocksInv /\ AmbiguityHeld /\ Certain /\ [Next]_vars => Certain'
  BY CertainNext DEF LocksInv
<1> QED
  BY <1>1, <1>2, <1>3, <1>4, <1>5, LocksInvariant, AmbiguityCorrect, PTL DEF Spec, LocksInv

-----------------------------------------------------------------------------
(* How often a provider performs a step *)

\* How often a step took effect without being answered as rejected, with a call that may still
\* do so.
Effects(o, k) == applied[o][k] - misread[o][k] + IF <<o, k>> \in inflight THEN 1 ELSE 0

\* Only what a call that reads back did can have been answered as rejected, for an operation
\* that has a row.
Accounted ==
    \A o \in Ops : \A k \in Positions :
        /\ misread[o][k] <= applied[o][k]
        /\ misread[o][k] > 0 => KindOf[o][k] = "readback" /\ status[o] # "absent"

\* No call whose client waited for it took effect: every effect is one of a call given up.
Sparing(o, k) == Effects(o, k) <= slow

\* A step that may be begun was not performed, unless by a call that was given up; it is
\* performed once more at most, by the worker that marked it.
Spared ==
    /\ inflight # {} => slow > 0
    /\ \A o \in Ops : \A k \in Positions : Effects(o, k) <= slow + 1
    /\ \A o \in Ops : \A k \in Positions :
         step[o][k] \in {"absent", "pending", "failed"} => Sparing(o, k)
    /\ \A w \in Workers : pc[w] \in {"marked", "answered"} => step[job[w]][pos[w]] = "running"
    /\ \A w \in Workers : pc[w] = "marked" \/ (pc[w] = "answered" /\ answer[w] = "failed") =>
         Sparing(job[w], pos[w])
    /\ \A c \in Controllers :
         cpc[c] = "read" /\ verdict[c] = "failed" /\ Current(c) \in Positions =>
           Sparing(cop[c], Current(c))

\* An operation that is being reconciled is not executed meanwhile.
Reconciled ==
    \A c \in Controllers : cpc[c] # "idle" =>
        ~Local(cop[c]) /\ status[cop[c]] \in {"unknown", "cancelled"}

\* A request has one row, calls are made for operations that have one, and an operation with
\* a lost credential is closed for good.
Requested ==
    /\ \A o, p \in Ops : o # p /\ RequestOf[o] = RequestOf[p] =>
         status[o] = "absent" \/ status[p] = "absent"
    /\ \A o \in Ops : \A k \in Positions : Effects(o, k) > 0 =>
         KindOf[o][k] \in Calls /\ status[o] # "absent"
    /\ \A o \in Ops : \A k \in Positions :
         step[o][k] = "external_reported" /\ KindOf[o][k] \in Calls => status[o] = "cancelled"

\* An operation that failed has no step that succeeded, and a worker is done with its
\* operation for a reason.
FailedUndone ==
    /\ \A w \in Workers : pc[w] = "done" =>
         answer[w] \in {"failed", "unknown"} \/ status[job[w]] = "succeeded"
    /\ \A o \in Ops : status[o] = "failed" => \A k \in Positions : step[o][k] # "succeeded"

\* The only ways in which the status of an operation changes.
StatusChange(o) ==
    \/ status[o] = "absent" /\ status'[o] = "queued" /\ ~Prior(o) /\ UNCHANGED providerVars
    \/ status[o] = "queued" /\ status'[o] = "running"
    \/ \E w \in Workers : /\ job[w] = o /\ status[o] = "running" /\ pc[w] = "done" /\ Finish(w)
                          /\ status'[o] = Outcome(o, answer[w])
    \/ \E w \in Workers : job[w] = o /\ status'[o] = "succeeded" /\ Complete(w)
    \/ status[o] \in {"queued", "failed", "needs_action"} /\ status'[o] = "cancelled"
    \/ status[o] \in {"failed", "needs_action"} /\ status'[o] = "queued"
    \/ Local(o) /\ status[o] = "unknown" /\ status'[o] = "failed"
    \/ \E c \in Controllers : /\ cop[c] = o /\ FinishReconcile(c)
                              /\ status[o] = "unknown" /\ status'[o] = "needs_action"
    \/ status[o] = "needs_action" /\ status'[o] = "succeeded"
    \/ status[o] = "unknown" /\ status'[o] = "cancelled"
    \/ ~up /\ status[o] = "running" /\ status'[o] = "unknown"

\* Every change of a status is one of these.
LEMMA StatusChanges ==
  ASSUME TypeOK, Placed, [Next]_vars, NEW o \in Ops, status'[o] # status[o]
  PROVE  StatusChange(o)
<1> USE DEF TypeOK, TableTypeOK
<1>1. ASSUME NEW w \in Workers, WorkerStep(w) \/ RecordStepFails(w) \/ WorkerFails(w)
      PROVE  StatusChange(o)
  <2>1. pc[w] \in Busy \cup {"selected"} => job[w] \in Ops
    BY DEF WorkerTypeOK
  <2>2. CASE Claim(w)
    <3>1. job[w] = o /\ status[o] = "queued" /\ status'[o] = "running"
      BY <2>1, <2>2 DEF Claim
    <3> QED
      BY <3>1 DEF StatusChange
  <2>3. CASE Complete(w)
    <3>1. job[w] = o /\ status'[o] = "succeeded"
      BY <2>1, <2>3 DEF Complete, AtEnd, Busy
    <3> QED
      BY <2>3, <3>1 DEF StatusChange
  <2>4. CASE Finish(w)
    <3>1. pc[w] = "done" /\ job[w] \in Ops
      BY <2>1, <2>4 DEF Finish, Busy
    <3>2. job[w] = o /\ status[o] # "succeeded" /\ status'[o] = Outcome(o, answer[w])
      BY <2>4, <3>1 DEF Finish
    <3>3. status[o] = "running"
      BY <3>1, <3>2 DEF Placed, Busy
    <3> QED
      BY <2>4, <3>1, <3>2, <3>3 DEF StatusChange
  <2>5. CASE ~Claim(w) /\ ~Complete(w) /\ ~Finish(w)
    BY <1>1, <2>5 DEF WorkerStep, Select, StartExecute, SkipStep, BeginStep, CallProvider,
       RecordStep, RecordStepFails, CommitStep, ExternalStep, NoteProcessed, AwaitReports,
       StopWithError, WorkerFails, tableVars
  <2> QED
    BY <2>2, <2>3, <2>4, <2>5
<1>2. ASSUME NEW c \in Controllers, ControllerStep(c) PROVE StatusChange(o)
  <2>1. FinishReconcile(c)
    BY <1>2 DEF ControllerStep, ViewOperation, ListSteps, ReadProvider, RecordVerdict,
       AbandonReconcile, tableVars
  <2>2. cop[c] = o /\ status[o] = "unknown" /\ status'[o] = "needs_action"
    BY <2>1 DEF FinishReconcile, ControllerTypeOK
  <2> QED
    BY <2>1, <2>2 DEF StatusChange
<1>3. ASSUME NEW p \in Ops, AdministratorStep(p) PROVE StatusChange(o)
  <2>1. CASE QueueOperation(p)
    <3>1. o = p /\ status'[o] = "queued"
      BY <2>1 DEF QueueOperation
    <3>2. ~Prior(o) /\ status[o] = "absent" /\ UNCHANGED providerVars
      BY <2>1, <3>1 DEF QueueOperation, Prior
    <3> QED
      BY <3>1, <3>2 DEF StatusChange
  <2>2. CASE Cancel(p)
    BY <2>2 DEF Cancel, StatusChange
  <2>3. CASE Retry(p)
    BY <2>3 DEF Retry, StatusChange
  <2>4. CASE ReconcileLocal(p)
    BY <2>4 DEF ReconcileLocal, StatusChange
  <2>5. CASE \E k \in Positions : Confirm(p, k)
    BY <2>5 DEF Confirm, StatusChange
  <2>6. CASE \E k \in Positions : ReportLostCredentialCleanup(p, k)
    BY <2>6 DEF ReportLostCredentialCleanup, StatusChange
  <2>7. CASE ChangePermission(p)
    BY <2>7 DEF ChangePermission, tableVars
  <2> QED
    BY <1>3, <2>1, <2>2, <2>3, <2>4, <2>5, <2>6, <2>7 DEF AdministratorStep
<1>4. CASE StartOperations
  BY <1>4 DEF StartOperations, Interrupted, StatusChange
<1>5. CASE Crash \/ Shutdown \/ LateEffect \/ UNCHANGED vars
  BY <1>5 DEF Crash, Shutdown, Down, LateEffect, vars, tableVars
<1> QED
  BY <1>1, <1>2, <1>3, <1>4, <1>5 DEF Next

\* The only ways in which the effects of a step, and the count of late calls, change.
EffectsChange(o, k) ==
    \/ Effects(o, k)' = Effects(o, k) /\ slow' = slow
    \/ \E w \in Workers :
         /\ CallProvider(w)
         /\ \/ Effects(o, k)' = Effects(o, k) /\ slow' \in {slow, slow + 1}
            \/ /\ job[w] = o /\ pos[w] = k
               /\ Effects(o, k)' <= Effects(o, k) + 1 /\ slow' = slow + 1
            \/ /\ job[w] = o /\ pos[w] = k
               /\ Effects(o, k)' = Effects(o, k) + 1 /\ slow' = slow
               /\ answer'[w] # "failed"

\* Effects are counted by numbers.
LEMMA EffectsAreNumbers ==
  ASSUME TypeOK, NEW o \in Ops, NEW k \in Positions
  PROVE  /\ applied[o][k] \in Nat /\ misread[o][k] \in Nat /\ slow \in Nat
         /\ Effects(o, k) \in Int
  BY DEF TypeOK, ProviderTypeOK, Effects

\* What a step does to the effects of an operation is one of these.
LEMMA EffectsChanges ==
  ASSUME TypeOK, [Next]_vars, NEW o \in Ops, NEW k \in Positions
  PROVE  EffectsChange(o, k)
<1>1. ASSUME UNCHANGED <<applied, inflight, slow, misread>> PROVE EffectsChange(o, k)
  BY <1>1 DEF EffectsChange, Effects
<1>2. ASSUME NEW w \in Workers, WorkerStep(w) \/ RecordStepFails(w) \/ WorkerFails(w)
      PROVE  EffectsChange(o, k)
  <2>1. CASE CallProvider(w)
    <3> DEFINE p == job[w]
               j == pos[w]
               Held(S) == IF <<o, k>> \in S THEN 1 ELSE 0
    <3>1. p \in Ops /\ j \in Positions
      BY <2>1 DEF CallProvider, TypeOK, WorkerTypeOK, Busy
    <3>2. applied[o][k] \in Nat /\ misread[o][k] \in Nat /\ slow \in Nat
      BY EffectsAreNumbers
    <3>3. CASE /\ applied' = [applied EXCEPT ![p][j] = @ + 1]
               /\ answer'[w] # "failed" /\ UNCHANGED <<inflight, slow, misread>>
      <4>1. applied'[o][k] = IF o = p /\ k = j THEN applied[o][k] + 1 ELSE applied[o][k]
        BY <3>1, <3>3 DEF TypeOK, ProviderTypeOK
      <4>2. Effects(o, k) = applied[o][k] - misread[o][k] + Held(inflight)
            /\ Effects(o, k)' = applied'[o][k] - misread[o][k] + Held(inflight)
        BY <3>3 DEF Effects
      <4>3. Effects(o, k)' = IF o = p /\ k = j THEN Effects(o, k) + 1 ELSE Effects(o, k)
        BY <3>2, <4>1, <4>2
      <4> QED
        BY <2>1, <3>3, <4>3 DEF EffectsChange
    <3>4. CASE UNCHANGED <<applied, inflight, slow, misread>>
      BY <1>1, <3>4
    <3>8. CASE /\ applied' = [applied EXCEPT ![p][j] = @ + 1]
               /\ misread' = [misread EXCEPT ![p][j] = @ + 1]
               /\ UNCHANGED <<inflight, slow>>
      <4>1. /\ applied'[o][k] = IF o = p /\ k = j THEN applied[o][k] + 1 ELSE applied[o][k]
            /\ misread'[o][k] = IF o = p /\ k = j THEN misread[o][k] + 1 ELSE misread[o][k]
        BY <3>1, <3>8 DEF TypeOK, ProviderTypeOK
      <4>2. Effects(o, k) = applied[o][k] - misread[o][k] + Held(inflight)
            /\ Effects(o, k)' = applied'[o][k] - misread'[o][k] + Held(inflight)
        BY <3>8 DEF Effects
      <4>3. Effects(o, k)' = Effects(o, k)
        BY <3>2, <4>1, <4>2
      <4> QED
        BY <3>8, <4>3 DEF EffectsChange
    <3>5. CASE /\ slow' = slow + 1 /\ inflight' = inflight \cup {<<p, j>>}
               /\ UNCHANGED <<applied, misread>>
      <4>1. Effects(o, k) = applied[o][k] - misread[o][k] + Held(inflight)
            /\ Effects(o, k)' = applied[o][k] - misread[o][k] + Held(inflight')
        BY <3>5 DEF Effects
      <4>2. o = p /\ k = j => Effects(o, k)' <= Effects(o, k) + 1
        BY <3>2, <4>1
      <4>3. ~(o = p /\ k = j) => Effects(o, k)' = Effects(o, k)
        <5>1. ~(o = p /\ k = j) => (<<o, k>> \in inflight' <=> <<o, k>> \in inflight)
          BY <3>5
        <5> QED
          BY <4>1, <5>1
      <4> QED
        BY <2>1, <3>5, <4>2, <4>3 DEF EffectsChange
    <3>6. \/ \E a \in {"ok", "unknown"} :
               /\ applied' = [applied EXCEPT ![p][j] = @ + 1]
               /\ answer' = [answer EXCEPT ![w] = a]
               /\ UNCHANGED <<inflight, slow, misread>>
          \/ UNCHANGED <<applied, inflight, slow, misread>>
          \/ /\ applied' = [applied EXCEPT ![p][j] = @ + 1]
             /\ misread' = [misread EXCEPT ![p][j] = @ + 1]
             /\ UNCHANGED <<inflight, slow>>
          \/ /\ slow' = slow + 1 /\ inflight' = inflight \cup {<<p, j>>}
             /\ UNCHANGED <<applied, misread>>
      BY <2>1 DEF CallProvider
    <3>7. \A a \in {"ok", "unknown"} :
            answer' = [answer EXCEPT ![w] = a] => answer'[w] # "failed"
      BY DEF TypeOK, WorkerTypeOK
    <3> QED
      BY <3>3, <3>4, <3>5, <3>6, <3>7, <3>8
  <2>2. CASE ~CallProvider(w)
    BY <1>1, <1>2, <2>2 DEF WorkerStep, Select, Claim, StartExecute, SkipStep, BeginStep,
       RecordStep, RecordStepFails, CommitStep, ExternalStep, NoteProcessed, AwaitReports,
       Complete, StopWithError, Finish, WorkerFails, providerVars
  <2> QED
    BY <2>1, <2>2
<1>3. ASSUME NEW c \in Controllers, ControllerStep(c) PROVE UNCHANGED providerVars
  BY <1>3 DEF ControllerStep, ViewOperation, ListSteps, ReadProvider, RecordVerdict,
     FinishReconcile, AbandonReconcile
<1>4. ASSUME NEW p \in Ops, AdministratorStep(p) PROVE UNCHANGED providerVars
  BY <1>4 DEF AdministratorStep, QueueOperation, Cancel, Retry, ReconcileLocal, Confirm,
     ReportLostCredentialCleanup, ChangePermission
<1>5. CASE LateEffect
  <2>1. PICK x \in inflight : /\ inflight' = inflight \ {x}
                              /\ applied' = [applied EXCEPT ![x[1]][x[2]] = @ + 1]
    BY <1>5 DEF LateEffect
  <2>2. PICK p \in Ops, j \in Positions : x = <<p, j>>
    BY <2>1 DEF TypeOK, ProviderTypeOK
  <2>3. applied'[o][k] = IF o = p /\ k = j THEN applied[o][k] + 1 ELSE applied[o][k]
    BY <2>1, <2>2 DEF TypeOK, ProviderTypeOK
  <2>4. applied[o][k] \in Nat /\ misread[o][k] \in Nat
    BY EffectsAreNumbers
  <2>5. CASE o = p /\ k = j
    <3>1. <<o, k>> \in inflight /\ <<o, k>> \notin inflight'
      BY <2>1, <2>2, <2>5
    <3> QED
      BY <1>5, <2>3, <2>4, <2>5, <3>1 DEF Effects, EffectsChange, LateEffect
  <2>6. CASE ~(o = p /\ k = j)
    <3>1. <<o, k>> \in inflight' <=> <<o, k>> \in inflight
      BY <2>1, <2>2, <2>6
    <3> QED
      BY <1>5, <2>3, <2>6, <3>1 DEF Effects, EffectsChange, LateEffect
  <2> QED
    BY <2>5, <2>6
<1>6. CASE Crash \/ Shutdown \/ StartOperations \/ UNCHANGED vars
  BY <1>1, <1>6 DEF Crash, Shutdown, Down, StartOperations, vars, providerVars
<1> QED
  BY <1>1, <1>2, <1>3, <1>4, <1>5, <1>6 DEF Next, providerVars

\* They go on being numbers.
LEMMA EffectsStayNumbers ==
  ASSUME TypeOK, [Next]_vars, NEW o \in Ops, NEW k \in Positions
  PROVE  Effects(o, k)' \in Int
<1>1. TypeOK'
  BY TypeNext
<1> QED
  BY <1>1 DEF TypeOK, ProviderTypeOK, Effects

\* What is spared stays so, but for a call that may have taken effect.
LEMMA SparingKept ==
  ASSUME TypeOK, NEW o \in Ops, NEW k \in Positions, Sparing(o, k), [Next]_vars,
         EffectsChange(o, k),
         \A w \in Workers : CallProvider(w) /\ job[w] = o /\ pos[w] = k => answer'[w] = "failed"
  PROVE  Sparing(o, k)'
<1>1. Effects(o, k) \in Int /\ slow \in Nat /\ Effects(o, k) <= slow
  BY EffectsAreNumbers DEF Sparing
<1>2. CASE Effects(o, k)' = Effects(o, k) /\ slow' \in {slow, slow + 1}
  BY <1>1, <1>2 DEF Sparing
<1>3. CASE Effects(o, k)' <= Effects(o, k) + 1 /\ slow' = slow + 1
  <2>1. Effects(o, k)' \in Int
    BY EffectsStayNumbers
  <2> QED
    BY <1>1, <1>3, <2>1 DEF Sparing
<1> QED
  BY <1>2, <1>3 DEF EffectsChange

\* Only a worker in a provider call changes the effects of a step, and it makes the call while
\* its operation runs.
LEMMA CallsAreMarked ==
  ASSUME TypeOK, Placed, Spared, NEW w \in Workers, CallProvider(w)
  PROVE  /\ job[w] \in Ops /\ pos[w] \in Positions
         /\ status[job[w]] = "running" /\ step[job[w]][pos[w]] = "running"
         /\ KindOf[job[w]][pos[w]] \in Calls /\ Sparing(job[w], pos[w])
         /\ UNCHANGED <<status, step>>
<1>1. pc[w] = "marked" /\ UNCHANGED <<status, step>>
  BY DEF CallProvider, tableVars
<1>2. job[w] \in Ops /\ pos[w] \in Positions
  BY <1>1 DEF TypeOK, WorkerTypeOK, Busy
<1> QED
  BY <1>1, <1>2 DEF Placed, Spared, Busy

\* At the beginning nothing has an effect.
LEMMA OnceInit == Init => Accounted /\ Spared /\ Reconciled /\ Requested /\ FailedUndone
<1> SUFFICES ASSUME Init PROVE Accounted /\ Spared /\ Reconciled /\ Requested /\ FailedUndone
  OBVIOUS
<1>1. \A o \in Ops : \A k \in Positions : Effects(o, k) = 0
  BY DEF Init, Effects
<1>2. slow = 0
  BY DEF Init
<1>3. Spared
  BY <1>1, <1>2 DEF Init, Spared, Sparing
<1>4. Requested
  BY <1>1 DEF Init, Requested
<1>5. Reconciled /\ FailedUndone
  BY DEF Init, Reconciled, FailedUndone
<1>6. Accounted
  BY DEF Init, Accounted
<1> QED
  BY <1>3, <1>4, <1>5, <1>6

\* Calls that have not returned were counted when they were given up.
LEMMA LateIsCounted ==
  ASSUME TypeOK, inflight # {} => slow > 0, [Next]_vars
  PROVE  inflight' # {} => slow' > 0
<1>0. slow \in Nat
  BY DEF TypeOK, ProviderTypeOK
<1>1. ASSUME NEW w \in Workers, WorkerStep(w) \/ RecordStepFails(w) \/ WorkerFails(w)
      PROVE  UNCHANGED <<inflight, slow>> \/ slow' = slow + 1
  BY <1>1 DEF WorkerStep, Select, Claim, StartExecute, SkipStep, BeginStep, CallProvider,
     RecordStep, RecordStepFails, CommitStep, ExternalStep, NoteProcessed, AwaitReports,
     Complete, StopWithError, Finish, WorkerFails, providerVars
<1>2. ASSUME NEW c \in Controllers, ControllerStep(c) PROVE UNCHANGED <<inflight, slow>>
  BY <1>2 DEF ControllerStep, ViewOperation, ListSteps, ReadProvider, RecordVerdict,
     FinishReconcile, AbandonReconcile, providerVars
<1>3. ASSUME NEW p \in Ops, AdministratorStep(p) PROVE UNCHANGED <<inflight, slow>>
  BY <1>3 DEF AdministratorStep, QueueOperation, Cancel, Retry, ReconcileLocal, Confirm,
     ReportLostCredentialCleanup, ChangePermission, providerVars
<1>4. CASE LateEffect
  BY <1>4 DEF LateEffect
<1>5. CASE Crash \/ Shutdown \/ StartOperations \/ UNCHANGED vars
  BY <1>5 DEF Crash, Shutdown, Down, StartOperations, vars, providerVars
<1> QED
  BY <1>0, <1>1, <1>2, <1>3, <1>4, <1>5 DEF Next

\* A step is performed once more at most than calls were given up.
LEMMA OnceMore ==
  ASSUME TypeOK, Placed, Spared, [Next]_vars, NEW o \in Ops, NEW k \in Positions
  PROVE  Effects(o, k)' <= slow' + 1
<1>1. Effects(o, k) \in Int /\ slow \in Nat /\ Effects(o, k) <= slow + 1
  BY EffectsAreNumbers DEF Spared
<1>2. ASSUME NEW w \in Workers, CallProvider(w), job[w] = o, pos[w] = k
      PROVE  Effects(o, k) <= slow
  BY <1>2, CallsAreMarked DEF Sparing
<1>3. CASE Effects(o, k)' = Effects(o, k) /\ slow' \in {slow, slow + 1}
  BY <1>1, <1>3
<1>4. CASE Effects(o, k)' <= Effects(o, k) + 1 /\ slow' = slow + 1
  <2>1. Effects(o, k)' \in Int
    BY EffectsStayNumbers
  <2> QED
    BY <1>1, <1>4, <2>1
<1>5. ASSUME NEW w \in Workers, CallProvider(w), job[w] = o, pos[w] = k,
             Effects(o, k)' = Effects(o, k) + 1 /\ slow' = slow
      PROVE  Effects(o, k)' <= slow' + 1
  BY <1>1, <1>2, <1>5
<1> QED
  BY <1>3, <1>4, <1>5, EffectsChanges DEF EffectsChange

\* A step that may be begun after this action is spared.
LEMMA RestingIsSpared ==
  ASSUME TypeOK, Placed, Shaped, Certain, Spared, [Next]_vars,
         NEW o \in Ops, NEW k \in Positions, step'[o][k] \in {"absent", "pending", "failed"}
  PROVE  Sparing(o, k)'
<1>1. ASSUME NEW w \in Workers, CallProvider(w), job[w] = o, pos[w] = k PROVE FALSE
  BY <1>1, CallsAreMarked
<1>2. Sparing(o, k) => Sparing(o, k)'
  BY <1>1, EffectsChanges, SparingKept
<1>3. CASE step'[o][k] = step[o][k]
  BY <1>2, <1>3 DEF Spared
<1>4. CASE step'[o][k] # step[o][k]
  <2>1. StepChange(o, k)
    BY <1>4, StepChanges
  <2>2. ASSUME NEW w \in Workers, job[w] = o, pos[w] = k,
               BeginStep(w) \/ RecordStep(w) \/ CommitStep(w) \/ ExternalStep(w)
        PROVE  Sparing(o, k)
    <3>1. CASE BeginStep(w)
      <4>1. step[o][k] = "absent"
        BY <1>4, <2>2, <3>1 DEF BeginStep, TypeOK, TableTypeOK
      <4> QED
        BY <4>1 DEF Spared
    <3>2. CASE RecordStep(w)
      <4>1. answer[w] = "failed" /\ pc[w] = "answered"
        BY <2>2, <3>2 DEF RecordStep, TypeOK, TableTypeOK, WorkerTypeOK, Answers
      <4> QED
        BY <2>2, <4>1 DEF Spared
    <3>3. CASE CommitStep(w) \/ ExternalStep(w)
      <4>1. step[o][k] = "absent"
        BY <2>2, <3>3 DEF CommitStep, ExternalStep, TypeOK, TableTypeOK
      <4> QED
        BY <4>1 DEF Spared
    <3> QED
      BY <2>2, <3>1, <3>2, <3>3
  <2>3. ASSUME NEW c \in Controllers, cop[c] = o, Current(c) = k, RecordVerdict(c),
               step'[o][k] = verdict[c]
        PROVE  Sparing(o, k)
    <3>1. cpc[c] = "read" /\ verdict[c] = "failed"
      BY <2>3 DEF RecordVerdict, TypeOK, ControllerTypeOK
    <3> QED
      BY <2>3, <3>1 DEF Spared
  <2>4. CASE step[o][k] = "failed"
    BY <1>2, <2>4 DEF Spared
  <2> QED
    BY <1>2, <2>1, <2>2, <2>3, <2>4 DEF StepChange
<1> QED
  BY <1>3, <1>4

\* A marked step stays running until its worker has recorded the outcome.
LEMMA MarkedIsRunning ==
  ASSUME TypeOK, Placed, Shaped, Certain, Spared, Reconciled, [Next]_vars, NEW w \in Workers,
         pc'[w] \in {"marked", "answered"}
  PROVE  step'[job'[w]][pos'[w]] = "running"
<1>1. ASSUME pc[w] \in {"marked", "answered"}, job'[w] = job[w], pos'[w] = pos[w],
             ~WorkerStep(w)
      PROVE  step'[job'[w]][pos'[w]] = "running"
  <2> DEFINE o == job[w]
             k == pos[w]
  <2>1. /\ o \in Ops /\ k \in Positions /\ pc[w] \in Busy
        /\ step[o][k] = "running" /\ status[o] = "running"
    BY <1>1 DEF TypeOK, WorkerTypeOK, Busy, Spared, Placed
  <2>2. up
    BY <2>1 DEF Placed, Busy
  <2>3. ASSUME NEW v \in Workers, job[v] = o,
               BeginStep(v) \/ RecordStep(v) \/ CommitStep(v) \/ ExternalStep(v)
        PROVE  FALSE
    <3>1. pc[v] \in Busy
      BY <2>3 DEF BeginStep, RecordStep, CommitStep, ExternalStep, At, Busy
    <3>2. v = w
      BY <2>1, <2>3, <3>1 DEF Placed
    <3> QED
      BY <1>1, <2>3, <3>2 DEF WorkerStep
  <2>4. ASSUME NEW c \in Controllers, cop[c] = o, RecordVerdict(c) PROVE FALSE
    BY <2>1, <2>4 DEF RecordVerdict, Reconciled
  <2>5. step'[o][k] = step[o][k]
    BY <2>1, <2>2, <2>3, <2>4, StepChanges DEF StepChange
  <2> QED
    BY <1>1, <2>1, <2>5
<1>2. CASE WorkerStep(w)
  <2>1. BeginStep(w) \/ CallProvider(w)
    BY <1>2 DEF TypeOK, WorkerTypeOK, WorkerStep, Select, Claim, Leave, StartExecute, SkipStep,
       At, RecordStep, CommitStep, ExternalStep, NoteProcessed, AtEnd, AwaitReports, Complete,
       StopWithError, Finish, workerVars
  <2>2. CASE BeginStep(w)
    <3>1. job[w] \in Ops /\ pos[w] \in Positions
      BY <2>2 DEF BeginStep, At, TypeOK, WorkerTypeOK, Busy, Steps
    <3>2. step' = [step EXCEPT ![job[w]][pos[w]] = "running"] /\ UNCHANGED <<job, pos>>
      BY <2>2 DEF BeginStep, TypeOK, WorkerTypeOK
    <3> QED
      BY <3>1, <3>2 DEF TypeOK, TableTypeOK
  <2>3. CASE CallProvider(w)
    <3>1. UNCHANGED <<job, pos, step>> /\ step[job[w]][pos[w]] = "running"
      BY <2>3, CallsAreMarked DEF CallProvider
    <3> QED
      BY <3>1
  <2> QED
    BY <2>1, <2>2, <2>3
<1>3. ASSUME NEW v \in Workers, WorkerStep(v) \/ RecordStepFails(v) \/ WorkerFails(v),
             ~WorkerStep(w)
      PROVE  step'[job'[w]][pos'[w]] = "running"
  <2>1. CASE v = w
    BY <1>3, <2>1 DEF RecordStepFails, WorkerFails, Leave, TypeOK, WorkerTypeOK
  <2>2. CASE v # w
    BY <1>1, <1>3, <2>2, WorkerAlone
  <2> QED
    BY <2>1, <2>2
<1>4. CASE \A v \in Workers : ~(WorkerStep(v) \/ RecordStepFails(v) \/ WorkerFails(v))
  BY <1>1, <1>4, WorkersIdle DEF workerVars
<1> QED
  BY <1>2, <1>3, <1>4

\* A worker in a call, or with a rejection, has the step spared.
LEMMA MarkedIsSpared ==
  ASSUME TypeOK, Placed, Shaped, Certain, Spared, Requested, [Next]_vars, NEW w \in Workers,
         pc'[w] = "marked" \/ (pc'[w] = "answered" /\ answer'[w] = "failed")
  PROVE  Sparing(job[w], pos[w])'
<1>1. ASSUME pc[w] = "marked" \/ (pc[w] = "answered" /\ answer[w] = "failed"),
             job'[w] = job[w], pos'[w] = pos[w],
             CallProvider(w) => answer'[w] = "failed"
      PROVE  Sparing(job[w], pos[w])'
  <2>0. job[w] \in Ops /\ pos[w] \in Positions
    BY <1>1 DEF TypeOK, WorkerTypeOK, Busy
  <2>1. PICK o \in Ops, k \in Positions : o = job[w] /\ k = pos[w]
    BY <2>0
  <2>2. ASSUME NEW v \in Workers, CallProvider(v), job[v] = o PROVE v = w
    BY <1>1, <2>1, <2>2 DEF CallProvider, Placed, Busy
  <2>3. Sparing(o, k)
    BY <1>1, <2>1 DEF Spared
  <2>4. Sparing(o, k)'
    BY <1>1, <2>2, <2>3, EffectsChanges, SparingKept
  <2> QED
    BY <1>1, <2>1, <2>4 DEF Sparing, Effects
<1>2. CASE WorkerStep(w)
  <2>1. BeginStep(w) \/ CallProvider(w)
    BY <1>2 DEF TypeOK, WorkerTypeOK, WorkerStep, Select, Claim, Leave, StartExecute, SkipStep,
       At, RecordStep, CommitStep, ExternalStep, NoteProcessed, AtEnd, AwaitReports, Complete,
       StopWithError, Finish, workerVars
  <2>2. CASE BeginStep(w)
    <3>0. job[w] \in Ops /\ pos[w] \in Positions
      BY <2>2 DEF BeginStep, At, TypeOK, WorkerTypeOK, Busy, Steps
    <3>1. PICK o \in Ops, k \in Positions : o = job[w] /\ k = pos[w]
      BY <3>0
    <3>2. /\ KindOf[o][k] \in Calls /\ step[o][k] # "succeeded"
          /\ step[o][k] \notin Unresolved /\ status[o] = "running"
      BY <2>2, <3>1 DEF BeginStep, At, TypeOK, WorkerTypeOK
    <3>3. step[o][k] # "external_reported"
      BY <3>1, <3>2 DEF Requested
    <3>4. Sparing(o, k)
      BY <3>1, <3>2, <3>3 DEF Spared, TypeOK, TableTypeOK, StepStatuses, Unresolved
    <3>5. UNCHANGED <<applied, inflight, slow, misread, job, pos>>
      BY <2>2 DEF BeginStep, providerVars
    <3> QED
      BY <3>1, <3>4, <3>5 DEF Sparing, Effects
  <2>3. CASE CallProvider(w)
    <3>1. /\ pc[w] = "marked" /\ job'[w] = job[w] /\ pos'[w] = pos[w]
          /\ pc'[w] = "answered"
      BY <2>3 DEF CallProvider, TypeOK, WorkerTypeOK
    <3> QED
      BY <1>1, <3>1
  <2> QED
    BY <2>1, <2>2, <2>3
<1>3. ASSUME NEW v \in Workers, WorkerStep(v) \/ RecordStepFails(v) \/ WorkerFails(v),
             ~WorkerStep(w)
      PROVE  Sparing(job[w], pos[w])'
  <2>1. CASE v = w
    BY <1>3, <2>1 DEF RecordStepFails, WorkerFails, Leave, TypeOK, WorkerTypeOK
  <2>2. CASE v # w
    BY <1>1, <1>3, <2>2, WorkerAlone DEF WorkerStep
  <2> QED
    BY <2>1, <2>2
<1>4. CASE \A v \in Workers : ~(WorkerStep(v) \/ RecordStepFails(v) \/ WorkerFails(v))
  <2>1. CASE UNCHANGED workerVars
    BY <1>1, <1>4, <2>1 DEF workerVars, WorkerStep
  <2> QED
    BY <1>4, <2>1, WorkersIdle
<1> QED
  BY <1>2, <1>3, <1>4

\* Rows come into being one at a time.
LEMMA QueuedByRequest ==
  ASSUME TypeOK, Placed, [Next]_vars, NEW o \in Ops, status[o] = "absent", status'[o] # "absent"
  PROVE  \E p \in Ops : QueueOperation(p)
<1> USE DEF TypeOK, TableTypeOK
<1>1. ASSUME NEW w \in Workers, WorkerStep(w) \/ RecordStepFails(w) \/ WorkerFails(w)
      PROVE  FALSE
  <2>1. pc[w] \in Busy \cup {"selected"} => job[w] \in Ops
    BY DEF WorkerTypeOK
  <2>2. CASE Claim(w)
    BY <2>1, <2>2 DEF Claim
  <2>3. CASE Complete(w)
    BY <2>1, <2>3 DEF Complete, AtEnd, Busy
  <2>4. CASE Finish(w)
    <3>1. pc[w] = "done" /\ job[w] \in Ops
      BY <2>1, <2>4 DEF Finish, Busy
    <3>2. status[job[w]] # "absent"
      BY <3>1 DEF Placed, Busy
    <3> QED
      BY <2>4, <3>1, <3>2 DEF Finish
  <2>5. CASE ~Claim(w) /\ ~Complete(w) /\ ~Finish(w)
    BY <1>1, <2>5 DEF WorkerStep, Select, StartExecute, SkipStep, BeginStep, CallProvider,
       RecordStep, RecordStepFails, CommitStep, ExternalStep, NoteProcessed, AwaitReports,
       StopWithError, WorkerFails, tableVars
  <2> QED
    BY <2>2, <2>3, <2>4, <2>5
<1>2. ASSUME NEW c \in Controllers, ControllerStep(c) PROVE FALSE
  BY <1>2 DEF ControllerStep, ViewOperation, ListSteps, ReadProvider, RecordVerdict,
     FinishReconcile, AbandonReconcile, tableVars, ControllerTypeOK
<1>3. ASSUME NEW p \in Ops, AdministratorStep(p), ~QueueOperation(p) PROVE FALSE
  BY <1>3 DEF AdministratorStep, Cancel, Retry, ReconcileLocal, Confirm,
     ReportLostCredentialCleanup, ChangePermission, tableVars
<1>4. CASE StartOperations
  BY <1>4 DEF StartOperations, Interrupted
<1>5. CASE Crash \/ Shutdown \/ LateEffect \/ UNCHANGED vars
  BY <1>5 DEF Crash, Shutdown, Down, LateEffect, vars, tableVars
<1> QED
  BY <1>1, <1>2, <1>3, <1>4, <1>5 DEF Next

\* Only the report of a lost credential settles a provider call without an answer, and it
\* closes the operation.
LEMMA ReportedIsCancelled ==
  ASSUME TypeOK, Placed, Shaped, Certain, [Next]_vars, NEW o \in Ops, NEW k \in Positions,
         KindOf[o][k] \in Calls, step[o][k] # "external_reported",
         step'[o][k] = "external_reported"
  PROVE  status'[o] = "cancelled"
<1> USE DEF TypeOK, TableTypeOK
<1>1. ASSUME NEW w \in Workers, WorkerStep(w) \/ RecordStepFails(w) \/ WorkerFails(w)
      PROVE  FALSE
  <2>1. pc[w] \in Busy => job[w] \in Ops
    BY DEF WorkerTypeOK
  <2>2. CASE BeginStep(w)
    <3>1. job[w] \in Ops
      BY <2>1, <2>2 DEF BeginStep, At, Busy
    <3>2. \/ step' = [step EXCEPT ![job[w]][pos[w]] = "running"]
          \/ step' = [step EXCEPT ![job[w]][pos[w]] =
                        IF step[job[w]][pos[w]] = "absent" THEN "pending"
                                                           ELSE step[job[w]][pos[w]]]
      BY <2>2 DEF BeginStep
    <3> QED
      BY <3>1, <3>2
  <2>3. CASE RecordStep(w)
    BY <2>1, <2>3 DEF RecordStep, WorkerTypeOK, Answers, Busy
  <2>4. CASE CommitStep(w) \/ ExternalStep(w)
    <3>1. job[w] \in Ops
      BY <2>1, <2>4 DEF CommitStep, ExternalStep, At, Busy
    <3>2. \/ step' = [step EXCEPT ![job[w]][pos[w]] = "succeeded"]
          \/ step' = [step EXCEPT ![job[w]][pos[w]] = "pending"]
      BY <2>4 DEF CommitStep, ExternalStep
    <3> QED
      BY <3>1, <3>2
  <2>5. CASE Complete(w)
    BY <2>1, <2>5 DEF Complete, AtEnd, Busy
  <2>6. CASE /\ ~BeginStep(w) /\ ~RecordStep(w) /\ ~CommitStep(w) /\ ~ExternalStep(w)
             /\ ~Complete(w)
    BY <1>1, <2>6 DEF WorkerStep, Select, Claim, StartExecute, SkipStep, CallProvider,
       RecordStepFails, NoteProcessed, AwaitReports, StopWithError, Finish, WorkerFails,
       tableVars
  <2> QED
    BY <2>2, <2>3, <2>4, <2>5, <2>6
<1>2. ASSUME NEW c \in Controllers, ControllerStep(c) PROVE FALSE
  <2>1. RecordVerdict(c)
    BY <1>2 DEF ControllerStep, ViewOperation, ListSteps, ReadProvider, FinishReconcile,
       AbandonReconcile, tableVars
  <2> QED
    BY <2>1 DEF RecordVerdict, ControllerTypeOK
<1>3. ASSUME NEW p \in Ops, AdministratorStep(p) PROVE status'[o] = "cancelled"
  <2>1. CASE Retry(p)
    BY <2>1 DEF Retry
  <2>2. CASE \E j \in Positions : Confirm(p, j)
    BY <2>2 DEF Confirm, Calls
  <2>3. CASE \E j \in Positions : ReportLostCredentialCleanup(p, j)
    BY <2>3 DEF ReportLostCredentialCleanup
  <2>4. CASE QueueOperation(p) \/ Cancel(p) \/ ReconcileLocal(p) \/ ChangePermission(p)
    BY <2>4 DEF QueueOperation, Cancel, ReconcileLocal, ChangePermission, tableVars
  <2> QED
    BY <1>3, <2>1, <2>2, <2>3, <2>4 DEF AdministratorStep
<1>4. CASE StartOperations
  BY <1>4 DEF StartOperations, Interrupted
<1>5. CASE Crash \/ Shutdown \/ LateEffect \/ UNCHANGED vars
  BY <1>5 DEF Crash, Shutdown, Down, LateEffect, vars, tableVars
<1> QED
  BY <1>1, <1>2, <1>3, <1>4, <1>5 DEF Next

\* A step found not to have happened is spared.
LEMMA FailureIsSpared ==
  ASSUME TypeOK, Placed, Accounted, Spared, Reconciled, [Next]_vars, NEW c \in Controllers,
         cpc'[c] = "read", verdict'[c] = "failed", Current(c)' \in Positions
  PROVE  Sparing(cop[c], Current(c))'
<1>1. ASSUME cpc[c] = "read", verdict[c] = "failed", cop'[c] = cop[c], todo'[c] = todo[c]
      PROVE  Sparing(cop[c], Current(c))'
  <2>1. Current(c)' = Current(c)
    BY <1>1 DEF Current
  <2>2. cop[c] \in Ops /\ Current(c) \in Positions
    BY <1>1, <2>1 DEF TypeOK, ControllerTypeOK
  <2>3. PICK o \in Ops, k \in Positions : o = cop[c] /\ k = Current(c)
    BY <2>2
  <2>4. Sparing(o, k)
    BY <1>1, <2>3 DEF Spared
  <2>5. status[o] # "running"
    BY <1>1, <2>3 DEF Reconciled
  <2>6. Sparing(o, k)'
    BY <2>4, <2>5, EffectsChanges, SparingKept, CallsAreMarked
  <2>7. cop'[c] = o /\ Current(c)' = k
    BY <1>1, <2>1, <2>3
  <2> QED
    BY <2>6, <2>7 DEF Sparing, Effects
<1>2. ASSUME NEW d \in Controllers, ControllerStep(d)
      PROVE  Sparing(cop[c], Current(c))'
  <2>1. CASE d # c
    <3>1. /\ cpc'[c] = cpc[c] /\ cop'[c] = cop[c] /\ todo'[c] = todo[c]
          /\ verdict'[c] = verdict[c]
      BY <1>2, <2>1 DEF ControllerStep, ViewOperation, ListSteps, ReadProvider, RecordVerdict,
         FinishReconcile, AbandonReconcile, Answered, TypeOK, ControllerTypeOK
    <3> QED
      BY <1>1, <3>1
  <2>2. CASE d = c
    <3>1. ReadProvider(c)
      BY <1>2, <2>2 DEF ControllerStep, ViewOperation, ListSteps, RecordVerdict,
         FinishReconcile, AbandonReconcile, Answered, TypeOK, ControllerTypeOK
    <3>2. Current(c)' = Current(c) /\ UNCHANGED <<applied, inflight, slow, misread, cop>>
      BY <3>1 DEF ReadProvider, Current, providerVars
    <3>3. cop[c] \in Ops /\ Current(c) \in Positions
      BY <3>1, <3>2 DEF ReadProvider, TypeOK, ControllerTypeOK
    <3>4. PICK o \in Ops, k \in Positions : o = cop[c] /\ k = Current(c)
      BY <3>3
    <3>5. ~(applied[o][k] > 0)
      BY <3>1, <3>4 DEF ReadProvider, TypeOK, ControllerTypeOK
    <3>6. /\ applied[o][k] \in Nat /\ misread[o][k] \in Nat /\ slow \in Nat
          /\ (inflight # {} => slow > 0) /\ misread[o][k] <= applied[o][k]
      BY EffectsAreNumbers DEF Spared, Accounted
    <3>7. Sparing(o, k)
      BY <3>5, <3>6 DEF Sparing, Effects
    <3>8. cop'[c] = o /\ Current(c)' = k
      BY <3>2, <3>4
    <3> QED
      BY <3>2, <3>7, <3>8 DEF Sparing, Effects
  <2> QED
    BY <2>1, <2>2
<1>3. CASE \A d \in Controllers : ~ControllerStep(d)
  BY <1>1, <1>3, ControllersIdle DEF controllerVars
<1> QED
  BY <1>2, <1>3

\* No step of the engine lets a step be begun that took effect in time.
LEMMA SparedNext ==
  ASSUME TypeOK, Placed, Shaped, Certain, Accounted, Spared, Reconciled, Requested, [Next]_vars
  PROVE  Spared'
<1>1. inflight' # {} => slow' > 0
  BY LateIsCounted DEF Spared
<1>2. \A o \in Ops : \A k \in Positions : Effects(o, k)' <= slow' + 1
  BY OnceMore
<1>3. \A o \in Ops : \A k \in Positions :
        step'[o][k] \in {"absent", "pending", "failed"} => Sparing(o, k)'
  BY RestingIsSpared
<1>4. \A w \in Workers :
        pc'[w] \in {"marked", "answered"} => step'[job'[w]][pos'[w]] = "running"
  BY MarkedIsRunning
<1>5. \A w \in Workers : pc'[w] = "marked" \/ (pc'[w] = "answered" /\ answer'[w] = "failed") =>
        Sparing(job[w], pos[w])'
  BY MarkedIsSpared
<1>6. \A c \in Controllers :
        cpc'[c] = "read" /\ verdict'[c] = "failed" /\ Current(c)' \in Positions =>
          Sparing(cop[c], Current(c))'
  BY FailureIsSpared
<1> QED
  BY <1>1, <1>2, <1>3, <1>4, <1>5, <1>6 DEF Spared

\* Nobody else takes an operation away from the administrator who reconciles it, because nobody
\* else reconciles and only reconciling makes it ready to be retried.
LEMMA ReconciledNext ==
  ASSUME \A c, d \in Controllers : c = d, TypeOK, Placed, Reconciled, [Next]_vars
  PROVE  Reconciled'
<1> SUFFICES ASSUME NEW c \in Controllers, cpc'[c] # "idle"
             PROVE  ~Local(cop'[c]) /\ status'[cop'[c]] \in {"unknown", "cancelled"}
  BY DEF Reconciled, Local, Steps
<1>1. ASSUME cpc[c] # "idle", cop'[c] = cop[c]
      PROVE  ~Local(cop'[c]) /\ status'[cop'[c]] \in {"unknown", "cancelled"}
  <2>1. PICK o \in Ops : o = cop[c]
    BY <1>1 DEF TypeOK, ControllerTypeOK
  <2>2. ~Local(o) /\ status[o] \in {"unknown", "cancelled"}
    BY <1>1, <2>1 DEF Reconciled
  <2>3. ASSUME NEW d \in Controllers, FinishReconcile(d) PROVE FALSE
    <3>1. d = c
      BY <2>3
    <3> QED
      BY <2>3, <3>1 DEF FinishReconcile, Answered, TypeOK, ControllerTypeOK
  <2>4. ASSUME NEW w \in Workers, Complete(w) PROVE status[job[w]] = "running"
    BY <2>4 DEF Complete
  <2>5. status'[o] \in {"unknown", "cancelled"}
    BY <2>2, <2>3, <2>4, StatusChanges DEF StatusChange
  <2> QED
    BY <1>1, <2>1, <2>2, <2>5
<1>2. ASSUME NEW d \in Controllers, ControllerStep(d)
      PROVE  ~Local(cop'[c]) /\ status'[cop'[c]] \in {"unknown", "cancelled"}
  <2>1. d = c
    OBVIOUS
  <2>2. CASE \E o \in Ops : ViewOperation(c, o)
    <3>1. PICK o \in Ops : ViewOperation(c, o)
      BY <2>2
    <3>2. cop'[c] = o /\ status' = status /\ status[o] = "unknown" /\ ~Local(o)
      BY <3>1 DEF ViewOperation, TypeOK, ControllerTypeOK, tableVars
    <3> QED
      BY <3>2
  <2>3. CASE ~\E o \in Ops : ViewOperation(c, o)
    <3>1. ListSteps(c) \/ ReadProvider(c) \/ RecordVerdict(c)
      BY <1>2, <2>1, <2>3 DEF ControllerStep, FinishReconcile, AbandonReconcile, Answered,
         TypeOK, ControllerTypeOK
    <3>2. cpc[c] # "idle" /\ UNCHANGED cop
      BY <3>1 DEF ListSteps, ReadProvider, RecordVerdict
    <3> QED
      BY <1>1, <3>2
  <2> QED
    BY <2>2, <2>3
<1>3. CASE \A d \in Controllers : ~ControllerStep(d)
  BY <1>1, <1>3, ControllersIdle DEF controllerVars
<1> QED
  BY <1>2, <1>3

\* A row, once there, stays; a cancelled operation stays cancelled.
LEMMA RowsStay ==
  ASSUME TypeOK, Placed, [Next]_vars, NEW o \in Ops
  PROVE  /\ status[o] # "absent" => status'[o] # "absent"
         /\ status[o] = "cancelled" => status'[o] = "cancelled"
<1>1. ASSUME NEW w \in Workers, Complete(w) PROVE status[job[w]] = "running"
  BY <1>1 DEF Complete
<1>2. \A a : Outcome(o, a) \in {"unknown", "needs_action", "failed"}
  BY DEF Outcome
<1> QED
  BY <1>1, <1>2, StatusChanges DEF StatusChange

\* What is answered as rejected is counted with what took effect.
LEMMA AccountedNext ==
  ASSUME TypeOK, Placed, Accounted, Spared, [Next]_vars
  PROVE  Accounted'
<1> SUFFICES ASSUME NEW o \in Ops, NEW k \in Positions
             PROVE  /\ misread'[o][k] <= applied'[o][k]
                    /\ misread'[o][k] > 0 => KindOf[o][k] = "readback" /\ status'[o] # "absent"
  BY DEF Accounted
<1>1. /\ applied[o][k] \in Nat /\ misread[o][k] \in Nat /\ misread[o][k] <= applied[o][k]
      /\ misread[o][k] > 0 => KindOf[o][k] = "readback" /\ status[o] # "absent"
      /\ status[o] # "absent" => status'[o] # "absent"
  BY EffectsAreNumbers, RowsStay DEF Accounted
<1>2. ASSUME UNCHANGED misread, applied'[o][k] \in {applied[o][k], applied[o][k] + 1}
      PROVE  /\ misread'[o][k] <= applied'[o][k]
             /\ misread'[o][k] > 0 => KindOf[o][k] = "readback" /\ status'[o] # "absent"
  BY <1>1, <1>2
<1>3. ASSUME NEW w \in Workers, WorkerStep(w) \/ RecordStepFails(w) \/ WorkerFails(w)
      PROVE  /\ misread'[o][k] <= applied'[o][k]
             /\ misread'[o][k] > 0 => KindOf[o][k] = "readback" /\ status'[o] # "absent"
  <2>1. CASE CallProvider(w)
    <3> DEFINE p == job[w]
               j == pos[w]
    <3>1. p \in Ops /\ j \in Positions /\ status[p] = "running" /\ UNCHANGED status
      BY <2>1, CallsAreMarked
    <3>2. CASE applied' = [applied EXCEPT ![p][j] = @ + 1] /\ UNCHANGED misread
      <4>1. applied'[o][k] = IF o = p /\ k = j THEN applied[o][k] + 1 ELSE applied[o][k]
        BY <3>1, <3>2 DEF TypeOK, ProviderTypeOK
      <4> QED
        BY <1>2, <3>2, <4>1
    <3>3. CASE UNCHANGED <<applied, misread>>
      BY <1>2, <3>3
    <3>4. CASE /\ KindOf[p][j] = "readback"
               /\ applied' = [applied EXCEPT ![p][j] = @ + 1]
               /\ misread' = [misread EXCEPT ![p][j] = @ + 1]
      <4>1. /\ applied'[o][k] = IF o = p /\ k = j THEN applied[o][k] + 1 ELSE applied[o][k]
            /\ misread'[o][k] = IF o = p /\ k = j THEN misread[o][k] + 1 ELSE misread[o][k]
        BY <3>1, <3>4 DEF TypeOK, ProviderTypeOK
      <4>2. CASE o = p /\ k = j
        BY <1>1, <3>1, <3>4, <4>1, <4>2
      <4>3. CASE ~(o = p /\ k = j)
        BY <1>1, <4>1, <4>3
      <4> QED
        BY <4>2, <4>3
    <3> QED
      BY <2>1, <3>2, <3>3, <3>4 DEF CallProvider
  <2>2. CASE ~CallProvider(w)
    BY <1>2, <1>3, <2>2 DEF WorkerStep, Select, Claim, StartExecute, SkipStep, BeginStep,
       RecordStep, RecordStepFails, CommitStep, ExternalStep, NoteProcessed, AwaitReports,
       Complete, StopWithError, Finish, WorkerFails, providerVars
  <2> QED
    BY <2>1, <2>2
<1>4. ASSUME NEW c \in Controllers, ControllerStep(c) PROVE UNCHANGED providerVars
  BY <1>4 DEF ControllerStep, ViewOperation, ListSteps, ReadProvider, RecordVerdict,
     FinishReconcile, AbandonReconcile
<1>5. ASSUME NEW p \in Ops, AdministratorStep(p) PROVE UNCHANGED providerVars
  BY <1>5 DEF AdministratorStep, QueueOperation, Cancel, Retry, ReconcileLocal, Confirm,
     ReportLostCredentialCleanup, ChangePermission
<1>6. CASE LateEffect
  <2>1. PICK x \in inflight : applied' = [applied EXCEPT ![x[1]][x[2]] = @ + 1]
    BY <1>6 DEF LateEffect
  <2>2. PICK p \in Ops, j \in Positions : x = <<p, j>>
    BY <2>1 DEF TypeOK, ProviderTypeOK
  <2>3. applied'[o][k] = IF o = p /\ k = j THEN applied[o][k] + 1 ELSE applied[o][k]
    BY <2>1, <2>2 DEF TypeOK, ProviderTypeOK
  <2> QED
    BY <1>2, <1>6, <2>3 DEF LateEffect
<1>7. CASE Crash \/ Shutdown \/ StartOperations \/ UNCHANGED vars
  BY <1>2, <1>7 DEF Crash, Shutdown, Down, StartOperations, vars, providerVars
<1> QED
  BY <1>2, <1>3, <1>4, <1>5, <1>6, <1>7 DEF Next, providerVars

\* Nothing takes effect that was not asked for.
LEMMA RequestedNext ==
  ASSUME TypeOK, Placed, Shaped, Certain, Spared, Requested, [Next]_vars
  PROVE  Requested'
<1>1. ASSUME NEW o \in Ops, NEW p \in Ops, o # p, RequestOf[o] = RequestOf[p]
      PROVE  status'[o] = "absent" \/ status'[p] = "absent"
  <2>1. ASSUME NEW q \in Ops, NEW r \in Ops, RequestOf[q] = RequestOf[r], q # r,
               status[q] = "absent", status'[q] # "absent", status'[r] # "absent"
        PROVE  FALSE
    <3>1. ~Prior(q)
      <4>1. \A w \in Workers : Complete(w) => status[job[w]] = "running"
        BY DEF Complete
      <4> QED
        BY <2>1, <4>1, StatusChanges DEF StatusChange
    <3>2. status[r] = "absent"
      BY <2>1, <3>1 DEF Prior
    <3>3. status'[q] = "queued" /\ status'[r] = "queued"
      <4>1. \A w \in Workers : Complete(w) => status[job[w]] = "running"
        BY DEF Complete
      <4> QED
        BY <2>1, <3>2, <4>1, StatusChanges DEF StatusChange
    <3>4. \E s \in Ops : QueueOperation(s)
      BY <2>1, <3>2, <3>3, QueuedByRequest
    <3> QED
      BY <2>1, <3>2, <3>3, <3>4 DEF QueueOperation, TypeOK, TableTypeOK
  <2> QED
    BY <1>1, <2>1 DEF Requested
<1>2. ASSUME NEW o \in Ops, NEW k \in Positions, Effects(o, k)' > 0
      PROVE  KindOf[o][k] \in Calls /\ status'[o] # "absent"
  <2>1. CASE Effects(o, k)' = Effects(o, k)
    BY <1>2, <2>1, RowsStay DEF Requested
  <2>2. CASE Effects(o, k)' # Effects(o, k)
    <3>1. PICK w \in Workers : CallProvider(w) /\ job[w] = o /\ pos[w] = k
      BY <2>2, EffectsChanges DEF EffectsChange
    <3> QED
      BY <3>1, CallsAreMarked
  <2> QED
    BY <2>1, <2>2
<1>3. ASSUME NEW o \in Ops, NEW k \in Positions, step'[o][k] = "external_reported",
             KindOf[o][k] \in Calls
      PROVE  status'[o] = "cancelled"
  <2>1. CASE step[o][k] = "external_reported"
    BY <1>3, <2>1, RowsStay DEF Requested
  <2>2. CASE step[o][k] # "external_reported"
    BY <1>3, <2>2, ReportedIsCancelled
  <2> QED
    BY <2>1, <2>2
<1> QED
  BY <1>1, <1>2, <1>3 DEF Requested

\* Steps succeed only while their operation runs or is unknown, or has been closed.
LEMMA SucceedsLive ==
  ASSUME TypeOK, Placed, Shaped, Certain, Reconciled, [Next]_vars, NEW o \in Ops,
         NEW k \in Positions, step[o][k] # "succeeded", step'[o][k] = "succeeded"
  PROVE  status[o] \in {"running", "unknown", "cancelled"} /\ status'[o] = status[o]
<1>1. StepChange(o, k)
  BY StepChanges
<1>2. ASSUME NEW w \in Workers, job[w] = o,
             BeginStep(w) \/ RecordStep(w) \/ CommitStep(w) \/ ExternalStep(w)
      PROVE  status[o] = "running" /\ status'[o] = status[o]
  <2>1. pc[w] \in Busy \ {"done"} /\ UNCHANGED status
    BY <1>2 DEF BeginStep, RecordStep, CommitStep, ExternalStep, At, Busy
  <2> QED
    BY <1>2, <2>1 DEF Placed
<1>3. ASSUME NEW c \in Controllers, cop[c] = o, RecordVerdict(c)
      PROVE  status[o] \in {"unknown", "cancelled"} /\ status'[o] = status[o]
  BY <1>3 DEF RecordVerdict, Reconciled
<1> QED
  BY <1>1, <1>2, <1>3 DEF StepChange

\* A worker that is done has a reason.
LEMMA DoneForReason ==
  ASSUME TypeOK, Placed, FailedUndone, [Next]_vars, NEW w \in Workers, pc'[w] = "done"
  PROVE  answer'[w] \in {"failed", "unknown"} \/ status'[job'[w]] = "succeeded"
<1>1. ASSUME pc[w] = "done", job'[w] = job[w], answer'[w] = answer[w], ~Finish(w)
      PROVE  answer'[w] \in {"failed", "unknown"} \/ status'[job'[w]] = "succeeded"
  <2>1. job[w] \in Ops
    BY <1>1 DEF TypeOK, WorkerTypeOK, Busy
  <2>2. CASE status[job[w]] = "succeeded"
    <3>1. status'[job[w]] = "succeeded"
      BY <2>1, <2>2, StatusChanges DEF StatusChange
    <3> QED
      BY <1>1, <3>1
  <2>3. CASE answer[w] \in {"failed", "unknown"}
    BY <1>1, <2>3
  <2> QED
    BY <1>1, <2>2, <2>3 DEF FailedUndone
<1>2. CASE WorkerStep(w) \/ RecordStepFails(w) \/ WorkerFails(w)
  <2>1. \/ StartExecute(w) \/ BeginStep(w) \/ RecordStep(w) \/ RecordStepFails(w)
        \/ AwaitReports(w) \/ Complete(w) \/ StopWithError(w)
    BY <1>2 DEF TypeOK, WorkerTypeOK, WorkerStep, Select, Claim, Leave, SkipStep, At,
       CallProvider, CommitStep, ExternalStep, NoteProcessed, AtEnd, Finish, WorkerFails,
       workerVars
  <2>2. CASE Complete(w)
    <3>1. job[w] \in Ops
      BY <2>2 DEF Complete, AtEnd, TypeOK, WorkerTypeOK, Busy
    <3>2. status' = [status EXCEPT ![job[w]] = "succeeded"] /\ UNCHANGED job
      BY <2>2 DEF Complete
    <3> QED
      BY <3>1, <3>2 DEF TypeOK, TableTypeOK
  <2>3. CASE StartExecute(w) \/ AwaitReports(w) \/ StopWithError(w)
    BY <2>3 DEF StartExecute, AwaitReports, StopWithError, TypeOK, WorkerTypeOK
  <2>4. CASE BeginStep(w) \/ RecordStepFails(w)
    BY <2>4 DEF BeginStep, RecordStepFails, TypeOK, WorkerTypeOK
  <2>5. CASE RecordStep(w)
    BY <2>5 DEF RecordStep, TypeOK, WorkerTypeOK, Answers
  <2> QED
    BY <2>1, <2>2, <2>3, <2>4, <2>5
<1>3. ASSUME NEW v \in Workers, WorkerStep(v) \/ RecordStepFails(v) \/ WorkerFails(v), v # w,
             ~(WorkerStep(w) \/ RecordStepFails(w) \/ WorkerFails(w))
      PROVE  answer'[w] \in {"failed", "unknown"} \/ status'[job'[w]] = "succeeded"
  BY <1>1, <1>3, WorkerAlone DEF WorkerStep
<1>4. CASE \A v \in Workers : ~(WorkerStep(v) \/ RecordStepFails(v) \/ WorkerFails(v))
  <2>1. CASE UNCHANGED workerVars
    BY <1>1, <1>4, <2>1 DEF workerVars, WorkerStep
  <2> QED
    BY <1>4, <2>1, WorkersIdle
<1> QED
  BY <1>2, <1>3, <1>4

\* No operation is failed while one of its steps is recorded as done.
LEMMA FailedUndoneNext ==
  ASSUME TypeOK, Placed, Shaped, Certain, Reconciled, FailedUndone, [Next]_vars
  PROVE  FailedUndone'
<1>1. ASSUME NEW o \in Ops, status'[o] = "failed", NEW k \in Positions
      PROVE  step'[o][k] # "succeeded"
  <2>1. CASE status[o] = "failed"
    <3>1. step[o][k] # "succeeded"
      BY <2>1 DEF FailedUndone
    <3> QED
      BY <2>1, <3>1, SucceedsLive
  <2>2. CASE status[o] # "failed"
    <3>1. StatusChange(o)
      BY <1>1, <2>2, StatusChanges
    <3>2. step[o][k] # "succeeded"
      <4>1. ASSUME NEW w \in Workers, job[w] = o, status[o] = "running", pc[w] = "done",
                   Outcome(o, answer[w]) = "failed"
            PROVE  step[o][k] # "succeeded"
        <5>1. answer[w] = "failed"
          BY <4>1 DEF FailedUndone, Outcome
        <5>2. ~HasEffects(o)
          BY <4>1, <5>1 DEF Outcome
        <5>3. k \notin Steps(o) => step[o][k] = "absent"
          BY DEF Shaped, Steps
        <5> QED
          BY <5>2, <5>3 DEF HasEffects
      <4>2. CASE Local(o)
        <5>1. step[o][k] = "absent"
          BY <4>2 DEF Local, Shaped, Steps
        <5> QED
          BY <5>1
      <4> QED
        BY <1>1, <3>1, <4>1, <4>2 DEF StatusChange
    <3> QED
      BY <1>1, <2>2, <3>2, SucceedsLive
  <2> QED
    BY <2>1, <2>2
<1>2. \A w \in Workers : pc'[w] = "done" =>
        answer'[w] \in {"failed", "unknown"} \/ status'[job'[w]] = "succeeded"
  BY DoneForReason
<1> QED
  BY <1>1, <1>2 DEF FailedUndone

\* The inductive invariant about effects, while one administrator reconciles at a time.
OnceInv == Accounted /\ Spared /\ Reconciled /\ Requested /\ FailedUndone

\* With one administrator at a time, the invariant about effects holds throughout.
LEMMA OnceInvariant ==
  ASSUME \A c, d \in Controllers : c = d
  PROVE  Spec => [](LocksInv /\ AmbiguityHeld /\ Certain /\ OnceInv)
<1>1. Init => OnceInv
  BY OnceInit DEF OnceInv
<1>2. LocksInv /\ Certain /\ OnceInv /\ [Next]_vars => OnceInv'
  BY AccountedNext, SparedNext, ReconciledNext, RequestedNext, FailedUndoneNext DEF LocksInv, OnceInv
<1>3. Init => Certain
  BY AmbiguityInit
<1>4. LocksInv /\ AmbiguityHeld /\ Certain /\ [Next]_vars => Certain'
  BY CertainNext DEF LocksInv
<1> QED
  BY <1>1, <1>2, <1>3, <1>4, LocksInvariant, AmbiguityCorrect, PTL DEF Spec

\* For one request a provider performs a step at most once, but for calls that took effect
\* after they had been given up and for changes of a domain that were answered as rejected,
\* provided that one administrator reconciles at a time: a step is begun again only when it was
\* found not to have happened, or was answered as rejected (remoteOperationStep,
\* reconcileRemoteSteps).
THEOREM PerformedOnce ==
  ASSUME \A c, d \in Controllers : c = d
  PROVE  Spec => []StepAppliedOnce
<1>1. TypeOK /\ OnceInv => StepAppliedOnce
  <2> SUFFICES ASSUME TypeOK, OnceInv, NEW o \in Ops, NEW k \in Positions
               PROVE  /\ applied[o][k] <= 1 + slow + Overlooked(o, k)
                      /\ applied[o][k] > 0 =>
                           \A p \in Ops \ {o} : RequestOf[p] = RequestOf[o] => applied[p][k] = 0
    BY DEF StepAppliedOnce
  <2>1. \A p \in Ops : /\ applied[p][k] \in Nat /\ misread[p][k] \in Nat
                       /\ Effects(p, k) \in Int
                       /\ Effects(p, k) >= applied[p][k] - misread[p][k]
    BY DEF TypeOK, ProviderTypeOK, Effects
  <2>2. Effects(o, k) <= slow + 1 /\ slow \in Nat
    BY EffectsAreNumbers DEF OnceInv, Spared
  <2>3. ASSUME NEW p \in Ops, applied[p][k] > 0 PROVE status[p] # "absent"
    <3>1. Effects(p, k) > 0 \/ misread[p][k] > 0
      BY <2>1, <2>3
    <3> QED
      BY <3>1 DEF OnceInv, Requested, Accounted
  <2>4. ASSUME applied[o][k] > 0, NEW p \in Ops \ {o}, RequestOf[p] = RequestOf[o]
        PROVE  applied[p][k] = 0
    <3>1. status[o] # "absent"
      BY <2>3, <2>4
    <3>2. status[p] = "absent"
      BY <2>4, <3>1 DEF OnceInv, Requested
    <3> QED
      BY <2>1, <2>3, <2>4, <3>2
  <2>5. misread[o][k] = Overlooked(o, k)
    BY <2>1 DEF OnceInv, Accounted, Overlooked
  <2> QED
    BY <2>1, <2>2, <2>4, <2>5
<1> QED
  BY <1>1, OnceInvariant, PTL DEF LocksInv

\* An operation reported as failed left nothing behind but changes of a domain that were
\* answered as rejected, provided that one administrator reconciles at a time and no provider
\* completed a call that was given up (executeOperation, which reports "needs_action" whenever
\* a step is recorded as done).
THEOREM FailureIsAccounted ==
  ASSUME \A c, d \in Controllers : c = d
  PROVE  Spec => []FailedLeavesOverlooked
<1>1. TypeOK /\ AmbiguityHeld /\ OnceInv => FailedLeavesOverlooked
  <2> SUFFICES ASSUME TypeOK, AmbiguityHeld, OnceInv, NEW o \in Ops, status[o] = "failed",
                      slow = 0, NEW k \in Steps(o)
               PROVE  applied[o][k] = Overlooked(o, k) /\ step[o][k] # "succeeded"
    BY DEF FailedLeavesOverlooked
  <2>1. k \in Positions /\ step[o][k] # "succeeded"
    BY DEF Steps, OnceInv, FailedUndone
  <2>2. /\ applied[o][k] \in Nat /\ misread[o][k] \in Nat /\ Effects(o, k) \in Int
        /\ Effects(o, k) >= applied[o][k] - misread[o][k]
        /\ misread[o][k] <= applied[o][k]
    BY <2>1 DEF TypeOK, ProviderTypeOK, Effects, OnceInv, Accounted
  <2>3. step[o][k] \notin Unresolved
    BY <2>1 DEF AmbiguityHeld, Unresolved
  <2>4. misread[o][k] = Overlooked(o, k)
    BY <2>1, <2>2 DEF OnceInv, Accounted, Overlooked
  <2>5. ~(Effects(o, k) > 0)
    <3>1. CASE step[o][k] = "external_reported"
      <4>1. KindOf[o][k] \notin Calls
        BY <2>1, <3>1 DEF OnceInv, Requested
      <4> QED
        BY <2>1, <4>1 DEF OnceInv, Requested
    <3>2. CASE step[o][k] # "external_reported"
      <4>1. step[o][k] \in {"absent", "pending", "failed"}
        BY <2>1, <2>3, <3>2 DEF TypeOK, TableTypeOK, StepStatuses, Unresolved
      <4>2. Effects(o, k) <= 0
        BY <2>1, <4>1 DEF OnceInv, Spared, Sparing
      <4> QED
        BY <2>2, <4>2
    <3> QED
      BY <3>1, <3>2
  <2> QED
    BY <2>1, <2>2, <2>4, <2>5
<1> QED
  BY <1>1, OnceInvariant, PTL DEF LocksInv

================================================================================
