--------------------------- MODULE SubmissionsProofs ---------------------------
(***************************************************************************)
(* Proofs about Submissions, for every set of attempts, mailboxes, members *)
(* and sessions and for every value of the bounds.                         *)
(***************************************************************************)
EXTENDS Submissions, FiniteSetTheorems, TLAPS

-----------------------------------------------------------------------------
(* Type correctness *)

\* Steps of a worker leave the tables of the organisation and the process flags alone.
LEMMA ExecFrame ==
  ASSUME TypeOK, UNCHANGED unchangedByExec
  PROVE  OrgTypeOK'
  BY DEF TypeOK, OrgTypeOK, unchangedByExec, orgVars

\* A step that leaves the mail servers alone keeps their types.
LEMMA MailFrame ==
  ASSUME TypeOK, UNCHANGED mailVars
  PROVE  MailTypeOK'
  BY DEF TypeOK, MailTypeOK, mailVars

\* The initial state has the declared types.
LEMMA TypeInit == Init => TypeOK
<1> SUFFICES ASSUME Init PROVE TypeOK
  OBVIOUS
<1>1. RowTypeOK
  BY ConstantsAssumption DEF Init, RowTypeOK, Statuses, SmtpStatuses, SentStatuses
<1>2. OrgTypeOK
  BY ConstantsAssumption DEF Init, OrgTypeOK
<1>3. MailTypeOK
  BY DEF Init, MailTypeOK
<1>4. ProcessTypeOK
  BY DEF Init, ProcessTypeOK, HttpStates, ExecStates, SmtpStatuses, SentStatuses
<1> QED
  BY <1>1, <1>2, <1>3, <1>4 DEF TypeOK

\* The end of a goroutine keeps the types of the process.
LEMMA FinishTypes ==
  ASSUME ProcessTypeOK, NEW a \in Attempts, Finish(a), UNCHANGED unchangedByExec
  PROVE  ProcessTypeOK'
  BY DEF ProcessTypeOK, Finish, ExecStates, SmtpStatuses, SentStatuses, unchangedByExec

\* So does its progress to the next step.
LEMMA GotoTypes ==
  ASSUME ProcessTypeOK, NEW a \in Attempts, NEW pc \in ExecStates, Goto(a, pc),
         UNCHANGED unchangedByExec
  PROVE  ProcessTypeOK'
  BY DEF ProcessTypeOK, Goto, Advance, unchangedByExec

\* Writing a result keeps the types of the row.
LEMMA PersistTypes ==
  ASSUME RowTypeOK, NEW a \in Attempts,
         NEW st \in Statuses, NEW sm \in SmtpStatuses, NEW se \in SentStatuses,
         Persist(a, st, sm, se), UNCHANGED cleanupError, UNCHANGED unchangedByExec
  PROVE  RowTypeOK'
  BY DEF RowTypeOK, Persist, unchangedByExec

\* The closure fail keeps the types of the row and of the process.
LEMMA FailTypes ==
  ASSUME TypeOK, NEW a \in Attempts, Fail(a),
         UNCHANGED cleanupError, UNCHANGED unchangedByExec
  PROVE  RowTypeOK' /\ ProcessTypeOK'
<1> USE DEF TypeOK
<1>1. ProcessTypeOK'
  BY FinishTypes DEF Fail
<1>2. CASE wSmtp[a] = "accepted"
  <2> DEFINE se == IF wSent[a] \in {"saving", "unknown"} THEN "unknown" ELSE "failed"
  <2>1. se \in SentStatuses /\ "sent_copy_failed" \in Statuses /\ "accepted" \in SmtpStatuses
    BY DEF Statuses, SmtpStatuses, SentStatuses
  <2>2. Persist(a, "sent_copy_failed", "accepted", se)
    BY <1>2 DEF Fail
  <2> QED
    BY <1>1, <2>1, <2>2, PersistTypes
<1>3. CASE wSmtp[a] # "accepted"
  <2>1. "failed" \in Statuses /\ wSmtp[a] \in SmtpStatuses /\ wSent[a] \in SentStatuses
    BY DEF Statuses, ProcessTypeOK
  <2>2. Persist(a, "failed", wSmtp[a], wSent[a])
    BY <1>3 DEF Fail
  <2> QED
    BY <1>1, <2>1, <2>2, PersistTypes
<1> QED
  BY <1>2, <1>3

\* The handler and the dispatcher keep the types.
LEMMA TypeHandler ==
  ASSUME TypeOK, NEW a \in Attempts,
         \/ Handler(a) \/ StagingWriteFails(a) \/ Dispatch(a)
  PROVE  TypeOK'
<1> USE DEF TypeOK, RowTypeOK, OrgTypeOK, MailTypeOK, ProcessTypeOK
<1>1. CASE Compose(a)
  <2>3. accessRev[MailboxOf[a]] \in Nat /\ configRev[MailboxOf[a]] \in Nat
    BY ConstantsAssumption
  <2>1. access' \in [Attempts -> Nat] /\ config' \in [Attempts -> Nat]
    BY <1>1, <2>3 DEF Compose
  <2>2. http' \in [Attempts -> HttpStates]
    BY <1>1 DEF Compose, PriorAnswer, HttpStates
  <2> QED
    BY <1>1, <2>1, <2>2 DEF Compose, orgVars, mailVars
<1>2. CASE ReserveSubmission(a)
  BY <1>2 DEF ReserveSubmission, PriorAnswer, HttpStates, Statuses, orgVars, mailVars
<1>3. CASE AppendDraft(a)
  BY <1>3 DEF AppendDraft, HttpStates, rowVars, orgVars
<1>4. CASE CompleteSubmissionStaging(a)
  BY <1>4 DEF CompleteSubmissionStaging, HttpStates, Statuses, orgVars, mailVars
<1>5. CASE StagingWriteFails(a)
  BY <1>5 DEF StagingWriteFails, HttpStates, rowVars, orgVars, mailVars
<1>6. CASE Dispatch(a)
  <2>1. MailboxOf[a] \in Mailboxes /\ "start" \in ExecStates
    BY ConstantsAssumption DEF ExecStates
  <2>2. exec' \in [Attempts -> ExecStates] /\ active' \subseteq Mailboxes
    BY <1>6, <2>1 DEF Dispatch
  <2>3. RowTypeOK' /\ OrgTypeOK' /\ MailTypeOK'
    BY <1>6 DEF Dispatch, rowVars, orgVars, mailVars
  <2>4. ProcessTypeOK'
    BY <1>6, <2>2 DEF Dispatch
  <2> QED
    BY <2>3, <2>4
<1> QED
  BY <1>1, <1>2, <1>3, <1>4, <1>5, <1>6 DEF Handler

\* So does every step of a worker.
LEMMA TypeWorker ==
  ASSUME TypeOK, NEW a \in Attempts, Worker(a) \/ WorkerFailure(a)
  PROVE  TypeOK'
<1>1. CASE Begin(a)
  <2>1. RowTypeOK'
    BY <1>1 DEF Begin, TypeOK, RowTypeOK, Statuses, unchangedByExec
  <2>2. ProcessTypeOK'
    BY <1>1 DEF Begin, TypeOK, RowTypeOK, ProcessTypeOK, Advance, Finish, ExecStates,
       SmtpStatuses, SentStatuses, unchangedByExec
  <2> QED
    BY <1>1, <2>1, <2>2, ExecFrame, MailFrame DEF Begin, TypeOK
<1>2. CASE Authorise(a)
  <2>1. OrgTypeOK' /\ MailTypeOK'
    BY <1>2, ExecFrame, MailFrame DEF Authorise
  <2>2. CASE Fail(a)
    BY <1>2, <2>1, <2>2, FailTypes DEF Authorise, TypeOK
  <2>3. CASE Goto(a, "authorised") /\ UNCHANGED <<status, smtp, sent>>
    BY <1>2, <2>1, <2>3, GotoTypes
       DEF Authorise, TypeOK, RowTypeOK, ExecStates, unchangedByExec
  <2> QED
    BY <1>2, <2>2, <2>3 DEF Authorise
<1>3. CASE ReadDraft(a)
  <2>1. OrgTypeOK' /\ MailTypeOK'
    BY <1>3, ExecFrame, MailFrame DEF ReadDraft
  <2>2. CASE Fail(a)
    BY <1>3, <2>1, <2>2, FailTypes DEF ReadDraft, TypeOK
  <2>3. CASE (Goto(a, "accepted") \/ Goto(a, "ready")) /\ UNCHANGED <<status, smtp, sent>>
    BY <1>3, <2>1, <2>3, GotoTypes
       DEF ReadDraft, TypeOK, RowTypeOK, ExecStates, unchangedByExec
  <2> QED
    BY <1>3, <2>2, <2>3 DEF ReadDraft
<1>4. CASE MarkSMTPSubmitting(a)
  <2>1. OrgTypeOK' /\ MailTypeOK'
    BY <1>4, ExecFrame, MailFrame DEF MarkSMTPSubmitting
  <2>2. CASE Fail(a)
    BY <1>4, <2>1, <2>2, FailTypes DEF MarkSMTPSubmitting, TypeOK
  <2>3. CASE /\ Goto(a, "marked")
             /\ smtp' = [smtp EXCEPT ![a] = "submitting"]
             /\ UNCHANGED <<status, sent>>
    BY <1>4, <2>1, <2>3, GotoTypes
       DEF MarkSMTPSubmitting, TypeOK, RowTypeOK, ExecStates, SmtpStatuses, unchangedByExec
  <2> QED
    BY <1>4, <2>2, <2>3 DEF MarkSMTPSubmitting
<1>5. CASE SubmitSMTP(a)
  <2>1. RowTypeOK'
    BY <1>5 DEF SubmitSMTP, TypeOK, RowTypeOK, unchangedByExec
  <2>2. MailTypeOK'
    BY <1>5 DEF SubmitSMTP, TypeOK, MailTypeOK
  <2>3. ProcessTypeOK'
    BY <1>5 DEF SubmitSMTP, TypeOK, ProcessTypeOK, Advance, ExecStates, SmtpStatuses,
       unchangedByExec
  <2> QED
    BY <1>5, <2>1, <2>2, <2>3, ExecFrame DEF SubmitSMTP, TypeOK
<1>6. CASE RecordSMTP(a)
  <2>1. OrgTypeOK' /\ MailTypeOK'
    BY <1>6, ExecFrame, MailFrame DEF RecordSMTP
  <2>2. wSmtp[a] \in SmtpStatuses
    BY DEF TypeOK, ProcessTypeOK
  <2>3. RowTypeOK'
    BY <1>6, <2>2, PersistTypes DEF RecordSMTP, TypeOK, Statuses, SmtpStatuses, SentStatuses
  <2>4. ProcessTypeOK'
    BY <1>6, GotoTypes, FinishTypes DEF RecordSMTP, TypeOK, ExecStates
  <2> QED
    BY <2>1, <2>3, <2>4 DEF TypeOK
<1>7. CASE FileSentCopy(a)
  <2>1. OrgTypeOK' /\ MailTypeOK'
    BY <1>7, ExecFrame, MailFrame DEF FileSentCopy
  <2>2. CASE Fail(a)
    BY <1>7, <2>1, <2>2, FailTypes DEF FileSentCopy, TypeOK
  <2>3. CASE Persist(a, "sent", "accepted", "server_managed") /\ Goto(a, "recorded")
    BY <1>7, <2>1, <2>3, PersistTypes, GotoTypes
       DEF FileSentCopy, TypeOK, Statuses, SmtpStatuses, SentStatuses, ExecStates
  <2>4. CASE Goto(a, "appended") /\ UNCHANGED <<status, smtp, sent>>
    BY <1>7, <2>1, <2>4, GotoTypes
       DEF FileSentCopy, TypeOK, RowTypeOK, ExecStates, unchangedByExec
  <2>5. CASE /\ Persist(a, "running", "accepted", "saving")
             /\ wSent' = [wSent EXCEPT ![a] = "saving"]
             /\ UNCHANGED wSmtp
             /\ Advance(a, "saving")
    <3>1. RowTypeOK'
      BY <1>7, <2>5, PersistTypes
         DEF FileSentCopy, TypeOK, Statuses, SmtpStatuses, SentStatuses
    <3>2. ProcessTypeOK'
      BY <1>7, <2>5 DEF FileSentCopy, TypeOK, ProcessTypeOK, Advance, ExecStates, SentStatuses,
         unchangedByExec
    <3> QED
      BY <2>1, <3>1, <3>2 DEF TypeOK
  <2> QED
    BY <1>7, <2>2, <2>3, <2>4, <2>5 DEF FileSentCopy
<1>8. CASE AppendSent(a)
  <2>1. RowTypeOK'
    BY <1>8 DEF AppendSent, TypeOK, RowTypeOK, unchangedByExec
  <2>2. MailTypeOK'
    BY <1>8 DEF AppendSent, TypeOK, MailTypeOK
  <2>3. ProcessTypeOK'
    BY <1>8, GotoTypes DEF AppendSent, TypeOK, ExecStates
  <2> QED
    BY <1>8, <2>1, <2>2, <2>3, ExecFrame DEF AppendSent, TypeOK
<1>9. CASE AppendFailed(a)
  BY <1>9, FailTypes, ExecFrame, MailFrame DEF AppendFailed, TypeOK
<1>10. CASE RecordSaved(a)
  BY <1>10, PersistTypes, GotoTypes, ExecFrame, MailFrame
     DEF RecordSaved, TypeOK, Statuses, SmtpStatuses, SentStatuses, ExecStates
<1>11. CASE DeleteStaged(a) \/ DeleteOriginal(a)
  <2>1. RowTypeOK'
    BY <1>11 DEF DeleteStaged, DeleteOriginal, TypeOK, RowTypeOK, unchangedByExec
  <2>2. MailTypeOK'
    BY <1>11 DEF DeleteStaged, DeleteOriginal, TypeOK, MailTypeOK
  <2> QED
    BY <1>11, <2>1, <2>2, GotoTypes, ExecFrame DEF DeleteStaged, DeleteOriginal, TypeOK,
       ExecStates
<1>13. CASE RecordCleanup(a)
  <2>1. RowTypeOK'
    BY <1>13 DEF RecordCleanup, TypeOK, RowTypeOK, unchangedByExec
  <2> QED
    BY <1>13, <2>1, FinishTypes, ExecFrame, MailFrame DEF RecordCleanup, TypeOK
<1>12. CASE WorkerFailure(a)
  <2>1. RowTypeOK' /\ OrgTypeOK' /\ MailTypeOK'
    BY <1>12 DEF WorkerFailure, TypeOK, RowTypeOK, OrgTypeOK, MailTypeOK, rowVars, orgVars,
       mailVars
  <2>2. ProcessTypeOK'
    BY <1>12 DEF WorkerFailure, TypeOK, ProcessTypeOK, Finish, ExecStates, SmtpStatuses,
       SentStatuses
  <2> QED
    BY <2>1, <2>2 DEF TypeOK
<1> QED
  BY <1>1, <1>2, <1>3, <1>4, <1>5, <1>6, <1>7, <1>8, <1>9, <1>10, <1>11, <1>12, <1>13
  DEF Worker

\* Retries, stops, restarts, reconciliation and the rest of the system keep them too.
LEMMA TypeRest ==
  ASSUME TypeOK,
         \/ ListQueued \/ DispatcherFailure
         \/ \E a \in Attempts, s \in Sessions : RetrySubmissionSentCopy(a, s)
         \/ Stop \/ StartSubmissions
         \/ \E a \in Attempts : ReconcileStaging(a)
         \/ Others
         \/ UNCHANGED vars
  PROVE  TypeOK'
<1> USE DEF TypeOK, RowTypeOK, OrgTypeOK, MailTypeOK, ProcessTypeOK
<1>1. CASE ListQueued
  BY <1>1 DEF ListQueued, rowVars, orgVars, mailVars
<1>8. CASE DispatcherFailure
  <2>1. RowTypeOK' /\ OrgTypeOK' /\ MailTypeOK'
    BY <1>8 DEF DispatcherFailure, rowVars, orgVars, mailVars
  <2>2. interruptions' \in Nat /\ failing' = TRUE /\ dispatching' = FALSE
    BY <1>8 DEF DispatcherFailure
  <2>3. ProcessTypeOK'
    BY <1>8, <2>2 DEF DispatcherFailure
  <2> QED
    BY <2>1, <2>3
<1>2. CASE \E a \in Attempts, s \in Sessions : RetrySubmissionSentCopy(a, s)
  <2>1. PICK a \in Attempts, s \in Sessions : RetrySubmissionSentCopy(a, s)
    BY <1>2
  <2>2. accessRev[MailboxOf[a]] \in Nat
    BY ConstantsAssumption
  <2>3. RowTypeOK'
    BY <2>1, <2>2 DEF RetrySubmissionSentCopy, Statuses
  <2>4. ProcessTypeOK'
    BY <2>1 DEF RetrySubmissionSentCopy
  <2> QED
    BY <2>1, <2>3, <2>4 DEF RetrySubmissionSentCopy, orgVars, mailVars
<1>3. CASE Stop
  <2>1. http' \in [Attempts -> HttpStates]
    BY <1>3 DEF Stop, HttpStates
  <2>2. exec' \in [Attempts -> ExecStates]
    BY <1>3 DEF Stop, ExecStates
  <2>3. wSmtp' \in [Attempts -> SmtpStatuses]
    BY <1>3 DEF Stop, SmtpStatuses
  <2>4. wSent' \in [Attempts -> SentStatuses]
    BY <1>3 DEF Stop, SentStatuses
  <2>5. up' \in BOOLEAN /\ failing' \in BOOLEAN /\ dispatching' \in BOOLEAN
    BY <1>3, Zenon DEF Stop
  <2>8. interruptions' \in Nat
    <3>1. interruptions' = interruptions \/ interruptions' = interruptions + 1
      BY <1>3, Zenon DEF Stop
    <3> QED
      BY <3>1
  <2>6. /\ active' \subseteq Mailboxes /\ pending' \subseteq Attempts
        /\ toReconcile' \subseteq Attempts /\ retries' \in [Attempts -> Nat]
    BY <1>3 DEF Stop
  <2>7. ProcessTypeOK'
    BY <2>1, <2>2, <2>3, <2>4, <2>5, <2>6, <2>8
  <2> QED
    BY <1>3, <2>7 DEF Stop, rowVars, orgVars, mailVars
<1>4. CASE StartSubmissions
  <2>1. \A a \in Attempts : /\ AfterRestart(a).status \in Statuses
                            /\ AfterRestart(a).smtp \in SmtpStatuses
                            /\ AfterRestart(a).sent \in SentStatuses
    BY DEF AfterRestart, Statuses, SmtpStatuses, SentStatuses
  <2>2. RowTypeOK'
    BY <1>4, <2>1 DEF StartSubmissions
  <2>3. ProcessTypeOK'
    BY <1>4 DEF StartSubmissions
  <2> QED
    BY <1>4, <2>2, <2>3 DEF StartSubmissions, orgVars, mailVars
<1>5. CASE \E a \in Attempts : ReconcileStaging(a)
  <2>0. PICK a \in Attempts : ReconcileStaging(a)
    BY <1>5
  <2>3. CASE Persist(a, "unknown", "not_started", "not_started") /\ UNCHANGED locator
    BY <2>0, <2>3 DEF ReconcileStaging, Persist, Statuses, SmtpStatuses, SentStatuses,
       orgVars, mailVars
  <2>4. CASE ~(Persist(a, "unknown", "not_started", "not_started") /\ UNCHANGED locator)
    BY <2>0, <2>4 DEF ReconcileStaging, Statuses, orgVars, mailVars
  <2> QED
    BY <2>3, <2>4
<1>6. CASE Others
  <2> USE DEF unchangedByOthers, rowVars, processVars, mailVars, orgVars
  <2>1. ASSUME NEW b \in Mailboxes, ChangeAccess(b)
        PROVE  TypeOK'
    <3>1. PICK m \in Members, l \in Levels : level' = [level EXCEPT ![b][m] = l]
      BY <2>1 DEF ChangeAccess
    <3>2. [level[b] EXCEPT ![m] = l] \in [Members -> Levels]
      BY <3>1
    <3>3. level' = [level EXCEPT ![b] = [level[b] EXCEPT ![m] = l]]
      BY <3>1
    <3>4. level' \in [Mailboxes -> [Members -> Levels]]
      BY <3>2, <3>3
    <3> QED
      BY <2>1, <3>4 DEF ChangeAccess
  <2>2. ASSUME NEW b \in Mailboxes, ChangeConfig(b)
        PROVE  TypeOK'
    BY <2>2 DEF ChangeConfig
  <2>3. ASSUME NEW s \in Sessions, EndSession(s)
        PROVE  TypeOK'
    BY <2>3 DEF EndSession
  <2>4. ASSUME NEW a \in Attempts, UserDeletesDraft(a) \/ SlowAppendArrives(a)
        PROVE  TypeOK'
    BY <2>4 DEF UserDeletesDraft, SlowAppendArrives
  <2> QED
    BY <1>6, <2>1, <2>2, <2>3, <2>4 DEF Others
<1>7. CASE UNCHANGED vars
  BY <1>7 DEF vars, rowVars, orgVars, mailVars, processVars
<1> QED
  BY <1>1, <1>2, <1>3, <1>4, <1>5, <1>6, <1>7, <1>8

\* Every state of the pipeline has the declared types, whatever the constants.
THEOREM TypeCorrect == Spec => []TypeOK
<1>1. TypeOK /\ [Next]_vars => TypeOK'
  BY TypeHandler, TypeWorker, TypeRest DEF Next
<1> QED
  BY TypeInit, <1>1, PTL DEF Spec

-----------------------------------------------------------------------------
(* The inductive invariant *)

\* What each column of a row says about the others and about the SMTP server.
RowInv(a) ==
    /\ status[a] \in {"absent", "preparing"} => smtp[a] = "not_started"
    /\ status[a] = "queued" => smtp[a] \in {"not_started", "accepted"}
    /\ status[a] = "running" => smtp[a] \in {"not_started", "submitting", "accepted"}
    /\ status[a] = "sent" => smtp[a] = "accepted" /\ Filed(a)
    /\ status[a] = "sent_copy_failed" => smtp[a] = "accepted"
    /\ status[a] = "failed" => smtp[a] \in {"not_started", "rejected"}
    /\ status[a] = "unknown" => smtp[a] \in {"not_started", "unknown"}
    /\ smtp[a] \in {"not_started", "rejected"} => taken[a] = 0
    /\ smtp[a] = "accepted" => taken[a] = 1
    /\ taken[a] \in {0, 1}

\* What a worker at each of its steps knows about its row.
WorkerInv(a) ==
    /\ exec[a] # "none" => up
    /\ exec[a] \notin {"none", "start"} \cup Cleaning => status[a] = "running"
    /\ exec[a] \in Cleaning => status[a] = "sent"
    /\ exec[a] \in {"loaded", "authorised"} =>
          smtp[a] = wSmtp[a] /\ smtp[a] \in {"not_started", "accepted"}
    /\ exec[a] = "ready" => smtp[a] = wSmtp[a] /\ smtp[a] = "not_started"
    /\ exec[a] = "marked" => smtp[a] = "submitting" /\ taken[a] = 0
    /\ exec[a] = "answered" =>
          /\ smtp[a] = "submitting"
          /\ wSmtp[a] \in {"accepted", "rejected", "unknown"}
          /\ wSmtp[a] = "accepted" => taken[a] = 1
          /\ wSmtp[a] = "rejected" => taken[a] = 0
    /\ exec[a] \in {"accepted", "saving", "appendError", "appended"} =>
          smtp[a] = wSmtp[a] /\ smtp[a] = "accepted"
    /\ exec[a] = "appended" => copies[a] > 0

\* A row that waits for reconciliation was staged but never handed over.
ReconcileInv(a) == a \in toReconcile => status[a] = "unknown" /\ smtp[a] = "not_started"

AttemptInv(a) == RowInv(a) /\ WorkerInv(a) /\ ReconcileInv(a)

\* One row per request.
KeyInv == \A a, b \in Attempts :
    a # b /\ Key[a] = Key[b] => status[a] = "absent" \/ status[b] = "absent"

DeliveryInv == KeyInv /\ \A a \in Attempts : AttemptInv(a)

\* The invariant holds before anything was sent.
LEMMA DeliveryInit == Init => DeliveryInv
  BY ConstantsAssumption
     DEF Init, DeliveryInv, KeyInv, AttemptInv, RowInv, WorkerInv, Cleaning, ReconcileInv

\* A step that does not work on attempt x; it may add copies to its Sent folder.
Untouched(x) ==
    /\ status'[x] = status[x]
    /\ smtp'[x] = smtp[x]
    /\ taken'[x] = taken[x]
    /\ copies'[x] \in Nat /\ copies'[x] >= copies[x]
    /\ exec'[x] = exec[x]
    /\ wSmtp'[x] = wSmtp[x]
    /\ x \in toReconcile' => x \in toReconcile
    /\ exec[x] # "none" => up' = up

\* Such a step keeps what the invariant says of x.
LEMMA UntouchedKeeps ==
  ASSUME TypeOK, NEW x \in Attempts, AttemptInv(x), Untouched(x)
  PROVE  AttemptInv(x)'
<1>1. copies[x] \in Nat /\ (copies[x] > 0 => copies'[x] > 0)
  BY DEF TypeOK, MailTypeOK, Untouched
<1>2. RowInv(x)'
  BY <1>1 DEF AttemptInv, RowInv, Untouched, Filed
<1>3. WorkerInv(x)'
  BY <1>1 DEF AttemptInv, WorkerInv, Cleaning, Untouched
<1>4. ReconcileInv(x)'
  BY DEF AttemptInv, ReconcileInv, Untouched
<1> QED
  BY <1>2, <1>3, <1>4 DEF AttemptInv

\* A step on attempt a that re-establishes what the invariant says of a, leaves the
\* other attempts alone and inserts no row keeps the whole invariant.
LEMMA OneAttemptStep ==
  ASSUME TypeOK, DeliveryInv, NEW a \in Attempts, AttemptInv(a)',
         \A x \in Attempts \ {a} : Untouched(x),
         status'[a] = "absent" \/ status[a] # "absent"
  PROVE  DeliveryInv'
<1>1. \A x \in Attempts : AttemptInv(x)'
  BY UntouchedKeeps DEF DeliveryInv
<1>2. KeyInv'
  BY DEF DeliveryInv, KeyInv, Key, Untouched
<1> QED
  BY <1>1, <1>2 DEF DeliveryInv

\* A step that touches no attempt keeps the invariant.
LEMMA NoAttemptStep ==
  ASSUME TypeOK, DeliveryInv, \A x \in Attempts : Untouched(x)
  PROVE  DeliveryInv'
<1>1. \A x \in Attempts : AttemptInv(x)'
  BY UntouchedKeeps DEF DeliveryInv
<1>2. KeyInv'
  BY DEF DeliveryInv, KeyInv, Key, Untouched
<1> QED
  BY <1>1, <1>2 DEF DeliveryInv

\* The handler and the dispatcher: a row is inserted only when its request has none.
LEMMA DeliveryHandler ==
  ASSUME TypeOK, DeliveryInv, NEW a \in Attempts,
         Handler(a) \/ StagingWriteFails(a) \/ Dispatch(a)
  PROVE  DeliveryInv'
<1> USE DEF TypeOK, RowTypeOK, MailTypeOK, ProcessTypeOK
<1>0. AttemptInv(a)
  BY DEF DeliveryInv
<1>1. CASE Compose(a) \/ AppendDraft(a) \/ StagingWriteFails(a)
  <2>1. \A x \in Attempts : Untouched(x)
    BY <1>1 DEF Compose, AppendDraft, StagingWriteFails, Untouched, mailVars, rowVars
  <2> QED
    BY <2>1, NoAttemptStep
<1>2. CASE ReserveSubmission(a)
  <2>1. \A x \in Attempts \ {a} : Untouched(x)
    BY <1>2 DEF ReserveSubmission, Untouched, mailVars
  <2>2. CASE Prior(a) = {} /\ ValidNow(a)
    <3>1. \A b \in Attempts : Key[b] = Key[a] => status[b] = "absent"
      BY <2>2 DEF Prior
    <3>2. status[a] = "absent" /\ status' = [status EXCEPT ![a] = "preparing"]
      BY <1>2, <2>2, <3>1 DEF ReserveSubmission
    <3>3. AttemptInv(a)'
      BY <1>0, <1>2, <3>2 DEF ReserveSubmission, AttemptInv, RowInv, WorkerInv, Cleaning,
         ReconcileInv,
         mailVars
    <3>4. \A x \in Attempts : AttemptInv(x)'
      BY <2>1, <3>3, UntouchedKeeps DEF DeliveryInv
    <3>5. KeyInv'
      BY <3>1, <3>2 DEF KeyInv, DeliveryInv, Key
    <3> QED
      BY <3>4, <3>5 DEF DeliveryInv
  <2>3. CASE ~(Prior(a) = {} /\ ValidNow(a))
    <3>1. \A x \in Attempts : Untouched(x)
      BY <1>2, <2>3 DEF ReserveSubmission, Untouched, mailVars
    <3> QED
      BY <3>1, NoAttemptStep
  <2> QED
    BY <2>2, <2>3
<1>3. CASE CompleteSubmissionStaging(a)
  <2>1. \A x \in Attempts \ {a} : Untouched(x)
    BY <1>3 DEF CompleteSubmissionStaging, Untouched, mailVars
  <2>2. AttemptInv(a)' /\ (status'[a] = "absent" \/ status[a] # "absent")
    BY <1>0, <1>3 DEF CompleteSubmissionStaging, AttemptInv, RowInv, WorkerInv, Cleaning,
       ReconcileInv,
       mailVars, Filed
  <2> QED
    BY <2>1, <2>2, OneAttemptStep
<1>4. CASE Dispatch(a)
  <2>1. CASE UNCHANGED exec
    <3>1. \A x \in Attempts : Untouched(x)
      BY <1>4, <2>1 DEF Dispatch, Untouched, mailVars, rowVars
    <3> QED
      BY <3>1, NoAttemptStep
  <2>2. CASE exec' = [exec EXCEPT ![a] = "start"]
    <3>1. \A x \in Attempts \ {a} : Untouched(x)
      BY <1>4, <2>2 DEF Dispatch, Untouched, mailVars, rowVars
    <3>2. AttemptInv(a)' /\ (status'[a] = "absent" \/ status[a] # "absent")
      BY <1>0, <1>4, <2>2 DEF Dispatch, AttemptInv, RowInv, WorkerInv, Cleaning, ReconcileInv,
         mailVars, rowVars, Filed
    <3> QED
      BY <3>1, <3>2, OneAttemptStep
  <2> QED
    BY <1>4, <2>1, <2>2 DEF Dispatch
<1> QED
  BY <1>1, <1>2, <1>3, <1>4 DEF Handler

\* The closure fail keeps the invariant where the worker calls it: its copy of the SMTP
\* status is that of the row, and is not 'submitting'.
LEMMA DeliveryFail ==
  ASSUME TypeOK, DeliveryInv, NEW a \in Attempts, Fail(a),
         status[a] = "running", wSmtp[a] = smtp[a], smtp[a] \in {"not_started", "accepted"},
         UNCHANGED <<cleanupError, mailVars, unchangedByExec>>
  PROVE  DeliveryInv'
<1> USE DEF TypeOK, RowTypeOK, MailTypeOK, ProcessTypeOK
<1>1. \A x \in Attempts \ {a} : Untouched(x)
  BY DEF Fail, Persist, Finish, Untouched, mailVars, unchangedByExec
<1>2. AttemptInv(a)
  BY DEF DeliveryInv
<1>3. status'[a] = IF smtp[a] = "accepted" THEN "sent_copy_failed" ELSE "failed"
  BY DEF Fail, Persist
<1>4. smtp'[a] = smtp[a] /\ exec'[a] = "none"
  BY DEF Fail, Persist, Finish
<1>5. RowInv(a)'
  BY <1>2, <1>3, <1>4 DEF AttemptInv, RowInv, mailVars, Filed
<1>6. WorkerInv(a)'
  BY <1>4 DEF WorkerInv, Cleaning
<1>7. ReconcileInv(a)'
  BY <1>2 DEF AttemptInv, ReconcileInv, unchangedByExec
<1> QED
  BY <1>1, <1>3, <1>5, <1>6, <1>7, OneAttemptStep DEF AttemptInv

\* Every step of a worker keeps the invariant.
LEMMA DeliveryWorker ==
  ASSUME TypeOK, DeliveryInv, NEW a \in Attempts, Worker(a) \/ WorkerFailure(a)
  PROVE  DeliveryInv'
<1> DEFINE Kept == status'[a] = "absent" \/ status[a] # "absent"
<1>0. AttemptInv(a)
  BY DEF DeliveryInv
<1> USE DEF TypeOK, RowTypeOK, MailTypeOK, ProcessTypeOK
<1>1. CASE Begin(a)
  <2>1. \A x \in Attempts \ {a} : Untouched(x)
    BY <1>1 DEF Begin, Finish, Advance, Untouched, mailVars, unchangedByExec
  <2>2. AttemptInv(a)' /\ Kept
    BY <1>0, <1>1 DEF Begin, Finish, Advance, AttemptInv, RowInv, WorkerInv, Cleaning,
       ReconcileInv, Filed,
       mailVars, unchangedByExec
  <2> QED
    BY <2>1, <2>2, OneAttemptStep
<1>2. CASE Authorise(a)
  <2>1. CASE Fail(a)
    BY <1>0, <1>2, <2>1, DeliveryFail DEF Authorise, AttemptInv, WorkerInv, Cleaning
  <2>2. CASE Goto(a, "authorised") /\ UNCHANGED <<status, smtp, sent>>
    <3>1. \A x \in Attempts \ {a} : Untouched(x)
      BY <1>2, <2>2 DEF Authorise, Goto, Advance, Untouched, mailVars, unchangedByExec
    <3>2. AttemptInv(a)' /\ Kept
      BY <1>0, <1>2, <2>2 DEF Authorise, Goto, Advance, AttemptInv, RowInv, WorkerInv, Cleaning,
         ReconcileInv, Filed, mailVars, unchangedByExec
    <3> QED
      BY <3>1, <3>2, OneAttemptStep
  <2> QED
    BY <1>2, <2>1, <2>2 DEF Authorise
<1>3. CASE ReadDraft(a)
  <2>1. CASE Fail(a)
    BY <1>0, <1>3, <2>1, DeliveryFail DEF ReadDraft, AttemptInv, WorkerInv, Cleaning
  <2>2. CASE /\ UNCHANGED <<status, smtp, sent>>
             /\ \/ wSmtp[a] = "accepted" /\ Goto(a, "accepted")
                \/ wSmtp[a] = "not_started" /\ Goto(a, "ready")
    <3>1. \A x \in Attempts \ {a} : Untouched(x)
      BY <1>3, <2>2 DEF ReadDraft, Goto, Advance, Untouched, mailVars, unchangedByExec
    <3>2. AttemptInv(a)' /\ Kept
      BY <1>0, <1>3, <2>2 DEF ReadDraft, Goto, Advance, AttemptInv, RowInv, WorkerInv, Cleaning,
         ReconcileInv, Filed, mailVars, unchangedByExec
    <3> QED
      BY <3>1, <3>2, OneAttemptStep
  <2> QED
    BY <1>3, <2>1, <2>2 DEF ReadDraft
<1>4. CASE MarkSMTPSubmitting(a)
  <2>1. CASE Fail(a)
    BY <1>0, <1>4, <2>1, DeliveryFail DEF MarkSMTPSubmitting, AttemptInv, WorkerInv, Cleaning
  <2>2. CASE /\ smtp' = [smtp EXCEPT ![a] = "submitting"]
             /\ Goto(a, "marked")
             /\ UNCHANGED <<status, sent>>
    <3>1. \A x \in Attempts \ {a} : Untouched(x)
      BY <1>4, <2>2 DEF MarkSMTPSubmitting, Goto, Advance, Untouched, mailVars, unchangedByExec
    <3>2. AttemptInv(a)' /\ Kept
      BY <1>0, <1>4, <2>2 DEF MarkSMTPSubmitting, Goto, Advance, AttemptInv, RowInv, WorkerInv,
         Cleaning,
         ReconcileInv, Filed, mailVars, unchangedByExec
    <3> QED
      BY <3>1, <3>2, OneAttemptStep
  <2> QED
    BY <1>4, <2>1, <2>2 DEF MarkSMTPSubmitting
<1>5. CASE SubmitSMTP(a)
  <2>1. \A x \in Attempts \ {a} : Untouched(x)
    BY <1>5 DEF SubmitSMTP, Advance, Untouched, unchangedByExec
  <2>2. /\ status[a] = "running" /\ smtp[a] = "submitting" /\ taken[a] = 0
        /\ up /\ a \notin toReconcile
    BY <1>0, <1>5 DEF SubmitSMTP, AttemptInv, WorkerInv, Cleaning, ReconcileInv
  <2>3. /\ wSmtp'[a] \in {"accepted", "rejected", "unknown"} /\ taken'[a] \in {0, 1}
        /\ wSmtp'[a] = "accepted" => taken'[a] = 1
        /\ wSmtp'[a] = "rejected" => taken'[a] = 0
    BY <1>5, <2>2 DEF SubmitSMTP
  <2>4. /\ status'[a] = "running" /\ smtp'[a] = "submitting" /\ exec'[a] = "answered"
        /\ up' /\ toReconcile' = toReconcile
    BY <1>5, <2>2 DEF SubmitSMTP, Advance, unchangedByExec
  <2>5. AttemptInv(a)' /\ Kept
    BY <2>2, <2>3, <2>4 DEF AttemptInv, RowInv, WorkerInv, Cleaning, ReconcileInv
  <2> QED
    BY <2>1, <2>5, OneAttemptStep
<1>6. CASE RecordSMTP(a)
  <2>1. \A x \in Attempts \ {a} : Untouched(x)
    BY <1>6 DEF RecordSMTP, Persist, Goto, Finish, Advance, Untouched, mailVars, unchangedByExec
  <2>2. AttemptInv(a)' /\ Kept
    BY <1>0, <1>6 DEF RecordSMTP, Persist, Goto, Finish, Advance, AttemptInv, RowInv,
       WorkerInv, Cleaning,
       ReconcileInv, mailVars, unchangedByExec
  <2> QED
    BY <2>1, <2>2, OneAttemptStep
<1>7. CASE FileSentCopy(a)
  <2>0. status[a] = "running" /\ smtp[a] = "accepted" /\ wSmtp[a] = "accepted" /\ taken[a] = 1
        /\ up /\ a \notin toReconcile
    BY <1>0, <1>7 DEF FileSentCopy, AttemptInv, RowInv, WorkerInv, Cleaning, ReconcileInv
  <2>1. CASE Fail(a)
    BY <1>7, <2>0, <2>1, DeliveryFail DEF FileSentCopy
  <2>2. CASE /\ ModeOf[MailboxOf[a]] = "server"
             /\ Persist(a, "sent", "accepted", "server_managed")
             /\ Goto(a, "recorded")
    <3>1. \A x \in Attempts \ {a} : Untouched(x)
      BY <1>7, <2>2 DEF FileSentCopy, Persist, Goto, Advance, Untouched, mailVars,
         unchangedByExec
    <3>2. AttemptInv(a)' /\ Kept
      BY <2>0, <1>7, <2>2 DEF FileSentCopy, Persist, Goto, Advance, AttemptInv, RowInv,
         WorkerInv, Cleaning, ReconcileInv, Filed, mailVars, unchangedByExec
    <3> QED
      BY <3>1, <3>2, OneAttemptStep
  <2>3. CASE copies[a] = 1 /\ Goto(a, "appended") /\ UNCHANGED <<status, smtp, sent>>
    <3>1. \A x \in Attempts \ {a} : Untouched(x)
      BY <1>7, <2>3 DEF FileSentCopy, Goto, Advance, Untouched, mailVars, unchangedByExec
    <3>2. AttemptInv(a)' /\ Kept
      BY <2>0, <1>7, <2>3 DEF FileSentCopy, Goto, Advance, AttemptInv, RowInv, WorkerInv,
         Cleaning,
         ReconcileInv, mailVars, unchangedByExec
    <3> QED
      BY <3>1, <3>2, OneAttemptStep
  <2>4. CASE /\ Persist(a, "running", "accepted", "saving")
             /\ UNCHANGED wSmtp
             /\ Advance(a, "saving")
    <3>1. \A x \in Attempts \ {a} : Untouched(x)
      BY <1>7, <2>4 DEF FileSentCopy, Persist, Advance, Untouched, mailVars, unchangedByExec
    <3>2. AttemptInv(a)' /\ Kept
      BY <2>0, <1>7, <2>4 DEF FileSentCopy, Persist, Advance, AttemptInv, RowInv, WorkerInv,
         Cleaning,
         ReconcileInv, mailVars, unchangedByExec
    <3> QED
      BY <3>1, <3>2, OneAttemptStep
  <2> QED
    BY <1>7, <2>1, <2>2, <2>3, <2>4 DEF FileSentCopy
<1>8. CASE AppendSent(a)
  <2>0. status[a] = "running" /\ smtp[a] = "accepted" /\ wSmtp[a] = "accepted" /\ taken[a] = 1
        /\ up /\ a \notin toReconcile
    BY <1>0, <1>8 DEF AppendSent, AttemptInv, RowInv, WorkerInv, Cleaning, ReconcileInv
  <2>1. \A x \in Attempts \ {a} : Untouched(x)
    BY <1>8 DEF AppendSent, Goto, Advance, Untouched, unchangedByExec
  <2>2. /\ exec'[a] \in {"appended", "appendError"}
        /\ exec'[a] = "appended" => copies'[a] > 0
    BY <1>8 DEF AppendSent, Goto, Advance
  <2>3. AttemptInv(a)' /\ Kept
    BY <2>0, <1>8, <2>2 DEF AppendSent, Goto, Advance, AttemptInv, RowInv, WorkerInv, Cleaning,
       ReconcileInv, unchangedByExec
  <2> QED
    BY <2>1, <2>3, OneAttemptStep
<1>9. CASE AppendFailed(a)
  BY <1>0, <1>9, DeliveryFail DEF AppendFailed, AttemptInv, WorkerInv, Cleaning
<1>10. CASE RecordSaved(a)
  <2>1. \A x \in Attempts \ {a} : Untouched(x)
    BY <1>10 DEF RecordSaved, Persist, Goto, Advance, Untouched, mailVars, unchangedByExec
  <2>2. AttemptInv(a)' /\ Kept
    BY <1>0, <1>10 DEF RecordSaved, Persist, Goto, Advance, AttemptInv, RowInv, WorkerInv,
       Cleaning,
       ReconcileInv, Filed, mailVars, unchangedByExec
  <2> QED
    BY <2>1, <2>2, OneAttemptStep
<1>11. CASE DeleteStaged(a) \/ DeleteOriginal(a)
  <2>1. \A x \in Attempts \ {a} : Untouched(x)
    BY <1>11 DEF DeleteStaged, DeleteOriginal, Goto, Advance, Untouched, unchangedByExec
  <2>2. AttemptInv(a)' /\ Kept
    BY <1>0, <1>11 DEF DeleteStaged, DeleteOriginal, Goto, Advance, AttemptInv, RowInv,
       WorkerInv, Cleaning,
       ReconcileInv, Filed, unchangedByExec
  <2> QED
    BY <2>1, <2>2, OneAttemptStep
<1>13. CASE RecordCleanup(a)
  <2>1. \A x \in Attempts \ {a} : Untouched(x)
    BY <1>13 DEF RecordCleanup, Finish, Untouched, mailVars, unchangedByExec
  <2>2. AttemptInv(a)' /\ Kept
    BY <1>0, <1>13 DEF RecordCleanup, Finish, AttemptInv, RowInv, WorkerInv, Cleaning,
       ReconcileInv,
       Filed, mailVars, unchangedByExec
  <2> QED
    BY <2>1, <2>2, OneAttemptStep
<1>12. CASE WorkerFailure(a)
  <2>1. \A x \in Attempts \ {a} : Untouched(x)
    BY <1>12 DEF WorkerFailure, Finish, Untouched, rowVars, mailVars
  <2>2. AttemptInv(a)' /\ Kept
    BY <1>0, <1>12 DEF WorkerFailure, Finish, AttemptInv, RowInv, WorkerInv, Cleaning,
       ReconcileInv,
       Filed, rowVars, mailVars
  <2> QED
    BY <2>1, <2>2, OneAttemptStep
<1> QED
  BY <1>1, <1>2, <1>3, <1>4, <1>5, <1>6, <1>7, <1>8, <1>9, <1>10, <1>11, <1>12, <1>13
  DEF Worker

\* Retries, stops, restarts, reconciliation and the rest of the system keep it too.
LEMMA DeliveryRest ==
  ASSUME TypeOK, DeliveryInv,
         \/ ListQueued \/ DispatcherFailure
         \/ \E a \in Attempts, s \in Sessions : RetrySubmissionSentCopy(a, s)
         \/ Stop \/ StartSubmissions
         \/ \E a \in Attempts : ReconcileStaging(a)
         \/ Others
         \/ UNCHANGED vars
  PROVE  DeliveryInv'
<1> USE DEF TypeOK, RowTypeOK, MailTypeOK, ProcessTypeOK
<1>1. CASE ListQueued \/ DispatcherFailure \/ UNCHANGED vars
  <2>1. \A x \in Attempts : Untouched(x)
    BY <1>1 DEF ListQueued, DispatcherFailure, Untouched, vars, rowVars, mailVars, processVars
  <2> QED
    BY <2>1, NoAttemptStep
<1>2. CASE \E a \in Attempts, s \in Sessions : RetrySubmissionSentCopy(a, s)
  <2>1. PICK a \in Attempts, s \in Sessions : RetrySubmissionSentCopy(a, s)
    BY <1>2
  <2>2. \A x \in Attempts \ {a} : Untouched(x)
    BY <2>1 DEF RetrySubmissionSentCopy, Untouched, mailVars
  <2>3. AttemptInv(a)
    BY DEF DeliveryInv
  <2>4. AttemptInv(a)' /\ status[a] # "absent"
    BY <2>1, <2>3 DEF RetrySubmissionSentCopy, AttemptInv, RowInv, WorkerInv, Cleaning,
       ReconcileInv, mailVars
  <2> QED
    BY <2>2, <2>4, OneAttemptStep
<1>3. CASE Stop
  <2>1. KeyInv'
    BY <1>3 DEF Stop, DeliveryInv, KeyInv, Key, rowVars
  <2>2. ASSUME NEW x \in Attempts PROVE AttemptInv(x)'
    <3>1. RowInv(x)
      BY DEF DeliveryInv, AttemptInv
    <3>2. RowInv(x)'
      BY <1>3, <3>1 DEF Stop, RowInv, Filed, rowVars, mailVars
    <3>3. WorkerInv(x)' /\ ReconcileInv(x)'
      BY <1>3 DEF Stop, WorkerInv, Cleaning, ReconcileInv
    <3> QED
      BY <3>2, <3>3 DEF AttemptInv
  <2> QED
    BY <2>1, <2>2 DEF DeliveryInv
<1>4. CASE StartSubmissions
  <2>0. ASSUME NEW x \in Attempts
        PROVE  /\ status'[x] = AfterRestart(x).status
               /\ smtp'[x] = AfterRestart(x).smtp
    BY <1>4 DEF StartSubmissions
  <2>1. ASSUME NEW x \in Attempts PROVE status[x] # "absent" \/ status'[x] = "absent"
    <3>1. RowInv(x)
      BY DEF DeliveryInv, AttemptInv
    <3> QED
      BY <2>0, <3>1 DEF AfterRestart, RowInv
  <2>2. KeyInv'
    BY <2>1 DEF DeliveryInv, KeyInv, Key
  <2>3. ASSUME NEW x \in Attempts PROVE AttemptInv(x)'
    <3>1. RowInv(x) /\ WorkerInv(x)
      BY DEF DeliveryInv, AttemptInv
    <3>2. RowInv(x)'
      BY <1>4, <2>0, <3>1 DEF StartSubmissions, AfterRestart, RowInv, Filed, mailVars
    <3>3. WorkerInv(x)'
      BY <1>4, <3>1 DEF StartSubmissions, WorkerInv, Cleaning
    <3>4. ReconcileInv(x)'
      BY <1>4, <2>0, <3>1 DEF StartSubmissions, AfterRestart, RowInv, ReconcileInv
    <3> QED
      BY <3>2, <3>3, <3>4 DEF AttemptInv
  <2> QED
    BY <2>2, <2>3 DEF DeliveryInv
<1>5. CASE \E a \in Attempts : ReconcileStaging(a)
  <2>1. PICK a \in Attempts : ReconcileStaging(a)
    BY <1>5
  <2>2. AttemptInv(a) /\ status[a] = "unknown" /\ smtp[a] = "not_started"
    BY <2>1 DEF DeliveryInv, AttemptInv, ReconcileInv, ReconcileStaging
  <2>3. \A x \in Attempts \ {a} : Untouched(x)
    BY <2>1 DEF ReconcileStaging, Persist, Untouched, mailVars
  <2>4. /\ status'[a] \in {"queued", "unknown"} /\ smtp'[a] = "not_started"
        /\ a \notin toReconcile'
    BY <2>1, <2>2 DEF ReconcileStaging, Persist
  <2>5. AttemptInv(a)'
    BY <2>1, <2>2, <2>4 DEF ReconcileStaging, AttemptInv, RowInv, WorkerInv, Cleaning,
       ReconcileInv, mailVars
  <2> QED
    BY <2>2, <2>3, <2>5, OneAttemptStep
<1>6. CASE Others
  <2>1. \A x \in Attempts : Untouched(x)
    BY <1>6 DEF Others, ChangeAccess, ChangeConfig, EndSession, UserDeletesDraft,
       SlowAppendArrives, unchangedByOthers, Untouched, mailVars, rowVars, processVars
  <2> QED
    BY <2>1, NoAttemptStep
<1> QED
  BY <1>1, <1>2, <1>3, <1>4, <1>5, <1>6

\* The columns of a row, the worker's locals and the SMTP server always agree as
\* DeliveryInv says.
THEOREM DeliveryCorrect == Spec => []DeliveryInv
<1>1. TypeOK /\ DeliveryInv /\ [Next]_vars => DeliveryInv'
  BY DeliveryHandler, DeliveryWorker, DeliveryRest DEF Next
<1> QED
  BY DeliveryInit, <1>1, TypeCorrect, PTL DEF Spec

-----------------------------------------------------------------------------
(* What follows from it *)

\* However browsers repeat a request and wherever the process stops, the SMTP server
\* takes at most one message for it.
THEOREM AtMostOnce == Spec => []RequestTakenAtMostOnce
<1>1. TypeOK /\ DeliveryInv => RequestTakenAtMostOnce
  <2> SUFFICES ASSUME TypeOK, DeliveryInv, NEW a \in Attempts, NEW b \in Attempts,
                      Key[a] = Key[b]
               PROVE  IF a = b THEN taken[a] <= 1 ELSE taken[a] + taken[b] <= 1
    BY DEF RequestTakenAtMostOnce
  <2>1. taken[a] \in {0, 1} /\ taken[b] \in {0, 1}
    BY DEF DeliveryInv, AttemptInv, RowInv
  <2>2. \A x \in Attempts : status[x] = "absent" => taken[x] = 0
    BY DEF DeliveryInv, AttemptInv, RowInv
  <2>3. a # b => taken[a] = 0 \/ taken[b] = 0
    BY <2>2 DEF DeliveryInv, KeyInv
  <2> QED
    BY <2>1, <2>3
<1> QED
  BY <1>1, TypeCorrect, DeliveryCorrect, PTL

\* What a row reports about delivery is what the SMTP server did.
THEOREM TrueReports == Spec => []ReportsAreTrue
<1>1. DeliveryInv => ReportsAreTrue
  BY DEF DeliveryInv, AttemptInv, RowInv, ReportsAreTrue
<1> QED
  BY <1>1, DeliveryCorrect, PTL

-----------------------------------------------------------------------------
(* The steps that matter to the delivery contract *)

\* A step that neither changes what is reported about delivery nor reaches the SMTP server.
Quiet ==
    /\ UNCHANGED <<smtp, taken>>
    /\ \A x \in Attempts : status'[x] = "absent" <=> status[x] = "absent"

Loud ==
    \/ \E a \in Attempts :
          \/ ReserveSubmission(a) /\ Prior(a) = {} /\ ValidNow(a)
          \/ MarkSMTPSubmitting(a) /\ smtp' = [smtp EXCEPT ![a] = "submitting"]
                                   /\ UNCHANGED status
          \/ SubmitSMTP(a)
          \/ RecordSMTP(a)
    \/ StartSubmissions

\* The closure fail rewrites the SMTP status the row already has.
LEMMA FailIsQuiet ==
  ASSUME TypeOK, NEW a \in Attempts, Fail(a), UNCHANGED mailVars,
         status[a] = "running", wSmtp[a] = smtp[a]
  PROVE  Quiet
<1> USE DEF TypeOK, RowTypeOK, ProcessTypeOK
<1>1. smtp' = smtp
  BY DEF Fail, Persist
<1>2. \A x \in Attempts : status'[x] = "absent" <=> status[x] = "absent"
  BY DEF Fail, Persist
<1> QED
  BY <1>1, <1>2 DEF Quiet, mailVars

\* Every step of the handlers and workers is quiet or one of the named steps.
LEMMA AttemptSteps ==
  ASSUME TypeOK, DeliveryInv, NEW a \in Attempts,
         Handler(a) \/ StagingWriteFails(a) \/ Dispatch(a) \/ Worker(a) \/ WorkerFailure(a)
  PROVE  Quiet \/ Loud
<1> USE DEF TypeOK, RowTypeOK, MailTypeOK, ProcessTypeOK
<1>0. RowInv(a) /\ WorkerInv(a)
  BY DEF DeliveryInv, AttemptInv
<1>1. CASE Compose(a) \/ AppendDraft(a) \/ StagingWriteFails(a) \/ Dispatch(a)
  BY <1>1 DEF Compose, AppendDraft, StagingWriteFails, Dispatch, Quiet, mailVars, rowVars
<1>2. CASE ReserveSubmission(a)
  BY <1>2 DEF ReserveSubmission, Quiet, Loud, mailVars
<1>3. CASE CompleteSubmissionStaging(a)
  BY <1>3 DEF CompleteSubmissionStaging, Quiet, mailVars
<1>4. CASE Begin(a)
  BY <1>4 DEF Begin, Quiet, mailVars
<1>5. CASE Authorise(a) \/ ReadDraft(a) \/ MarkSMTPSubmitting(a) \/ FileSentCopy(a) \/ AppendFailed(a)
  <2>1. status[a] = "running" /\ wSmtp[a] = smtp[a]
    BY <1>0, <1>5 DEF Authorise, ReadDraft, MarkSMTPSubmitting, FileSentCopy, AppendFailed,
       WorkerInv, Cleaning
  <2>2. CASE Fail(a)
    BY <1>5, <2>1, <2>2, FailIsQuiet
       DEF Authorise, ReadDraft, MarkSMTPSubmitting, FileSentCopy, AppendFailed
  <2>3. CASE ~Fail(a) /\ (Authorise(a) \/ ReadDraft(a))
    BY <2>3 DEF Authorise, ReadDraft, Quiet, mailVars
  <2>4. CASE ~Fail(a) /\ MarkSMTPSubmitting(a)
    BY <2>4 DEF MarkSMTPSubmitting, Loud
  <2>5. CASE ~Fail(a) /\ FileSentCopy(a)
    <3>1. smtp[a] = "accepted"
      BY <1>0, <2>5 DEF FileSentCopy, WorkerInv, Cleaning
    <3> QED
      BY <2>1, <2>5, <3>1 DEF FileSentCopy, Persist, Quiet, mailVars
  <2> QED
    BY <1>5, <2>2, <2>3, <2>4, <2>5 DEF AppendFailed
<1>6. CASE SubmitSMTP(a) \/ RecordSMTP(a)
  BY <1>6 DEF Loud
<1>7. CASE AppendSent(a)
  BY <1>7 DEF AppendSent, Quiet
<1>8. CASE RecordSaved(a)
  <2>1. status[a] = "running" /\ smtp[a] = "accepted"
    BY <1>0, <1>8 DEF RecordSaved, WorkerInv, Cleaning
  <2> QED
    BY <1>8, <2>1 DEF RecordSaved, Persist, Quiet, mailVars
<1>9. CASE DeleteStaged(a) \/ DeleteOriginal(a) \/ RecordCleanup(a) \/ WorkerFailure(a)
  BY <1>9 DEF DeleteStaged, DeleteOriginal, RecordCleanup, WorkerFailure, Quiet, mailVars,
     rowVars
<1> QED
  BY <1>1, <1>2, <1>3, <1>4, <1>5, <1>6, <1>7, <1>8, <1>9 DEF Handler, Worker

\* So is every other step of the system.
LEMMA Steps ==
  ASSUME TypeOK, DeliveryInv, [Next]_vars
  PROVE  Quiet \/ Loud
<1> USE DEF TypeOK, RowTypeOK, MailTypeOK, ProcessTypeOK
<1>1. CASE \E a \in Attempts : \/ Handler(a) \/ StagingWriteFails(a) \/ Dispatch(a)
                               \/ Worker(a) \/ WorkerFailure(a)
  BY <1>1, AttemptSteps
<1>2. CASE ListQueued \/ DispatcherFailure \/ UNCHANGED vars
  BY <1>2 DEF ListQueued, DispatcherFailure, Quiet, vars, rowVars, mailVars
<1>3. CASE \E a \in Attempts, s \in Sessions : RetrySubmissionSentCopy(a, s)
  <2>1. PICK a \in Attempts, s \in Sessions : RetrySubmissionSentCopy(a, s)
    BY <1>3
  <2> QED
    BY <2>1 DEF RetrySubmissionSentCopy, Quiet, mailVars
<1>4. CASE Stop
  BY <1>4 DEF Stop, Quiet, rowVars, mailVars
<1>5. CASE StartSubmissions
  BY <1>5 DEF Loud
<1>6. CASE \E a \in Attempts : ReconcileStaging(a)
  <2>1. PICK a \in Attempts : ReconcileStaging(a)
    BY <1>6
  <2>2. smtp[a] = "not_started" /\ status[a] = "unknown"
    BY <2>1 DEF DeliveryInv, AttemptInv, ReconcileInv, ReconcileStaging
  <2> QED
    BY <2>1, <2>2 DEF ReconcileStaging, Persist, Quiet, mailVars
<1>7. CASE Others
  BY <1>7 DEF Others, ChangeAccess, ChangeConfig, EndSession, UserDeletesDraft,
     SlowAppendArrives, unchangedByOthers, Quiet, rowVars, mailVars
<1> QED
  BY <1>1, <1>2, <1>3, <1>4, <1>5, <1>6, <1>7 DEF Next

\* Nothing that runs after the SMTP server answered changes the recorded answer.
THEOREM ResultFinal == Spec => SMTPResultFinal
<1>1. TypeOK /\ DeliveryInv /\ [Next]_vars =>
        \A a \in Attempts : smtp[a] \in {"accepted", "rejected", "unknown"} => smtp'[a] = smtp[a]
  <2> SUFFICES ASSUME TypeOK, DeliveryInv, [Next]_vars, NEW a \in Attempts,
                      smtp[a] \in {"accepted", "rejected", "unknown"}
               PROVE  smtp'[a] = smtp[a]
    OBVIOUS
  <2>1. CASE Quiet
    BY <2>1 DEF Quiet
  <2>2. CASE Loud
    <3>1. CASE StartSubmissions
      BY <3>1 DEF StartSubmissions, AfterRestart
    <3>2. ASSUME NEW b \in Attempts,
                 \/ ReserveSubmission(b)
                 \/ MarkSMTPSubmitting(b) /\ smtp' = [smtp EXCEPT ![b] = "submitting"]
                 \/ SubmitSMTP(b)
                 \/ RecordSMTP(b)
          PROVE  smtp'[a] = smtp[a]
      <4>1. WorkerInv(b) /\ smtp \in [Attempts -> SmtpStatuses]
        BY DEF DeliveryInv, AttemptInv, TypeOK, RowTypeOK
      <4> QED
        BY <3>2, <4>1 DEF WorkerInv, Cleaning, ReserveSubmission, MarkSMTPSubmitting,
           SubmitSMTP, RecordSMTP,
           Persist
    <3> QED
      BY <2>2, <3>1, <3>2 DEF Loud
  <2> QED
    BY <2>1, <2>2, Steps
<1> QED
  BY <1>1, TypeCorrect, DeliveryCorrect, PTL DEF Spec, SMTPResultFinal

-----------------------------------------------------------------------------
(* The pipeline implements the delivery contract *)

\* A step that changes the phase of attempt a only.
LEMMA PhaseStep ==
  ASSUME NEW a \in Attempts, NEW p, Phase'[a] = p,
         \A x \in Attempts \ {a} : Phase'[x] = Phase[x]
  PROVE  Phase' = [Phase EXCEPT ![a] = p]
  BY DEF Phase

\* What is reported about an attempt depends on two columns of its row.
LEMMA PhaseSame ==
  ASSUME NEW x \in Attempts, smtp'[x] = smtp[x], status'[x] = "absent" <=> status[x] = "absent"
  PROVE  Phase'[x] = Phase[x]
<1>1. CASE status[x] = "absent"
  BY <1>1 DEF Phase, PhaseOf
<1>2. CASE status[x] # "absent"
  <2>1. PhaseOf(x)' = PhaseOf(x)
    BY <1>2 DEF PhaseOf
  <2> QED
    BY <2>1 DEF Phase
<1> QED
  BY <1>1, <1>2

\* A quiet step is a stuttering step of the contract.
LEMMA QuietStutters ==
  ASSUME Quiet PROVE UNCHANGED <<Phase, taken>>
<1>1. \A x \in Attempts : Phase'[x] = Phase[x]
  BY PhaseSame DEF Quiet
<1>2. Phase' = Phase
  BY <1>1 DEF Phase
<1> QED
  BY <1>2 DEF Quiet

\* Every other step is a step of the contract, or stutters.
LEMMA LoudImplements ==
  ASSUME TypeOK, DeliveryInv, Loud
  PROVE  Contract!Next \/ UNCHANGED <<Phase, taken>>
<1> USE DEF TypeOK, RowTypeOK, MailTypeOK, ProcessTypeOK
<1>1. CASE \E a \in Attempts : ReserveSubmission(a) /\ Prior(a) = {} /\ ValidNow(a)
  <2>1. PICK a \in Attempts : ReserveSubmission(a) /\ Prior(a) = {} /\ ValidNow(a)
    BY <1>1
  <2>2. \A b \in Attempts : Key[b] = Key[a] => status[b] = "absent"
    BY <2>1 DEF Prior
  <2>3. \A b \in Attempts : Key[b] = Key[a] => Phase[b] = "absent"
    BY <2>2 DEF Phase, PhaseOf
  <2>4. smtp[a] = "not_started"
    BY <2>2 DEF DeliveryInv, AttemptInv, RowInv
  <2>5. status' = [status EXCEPT ![a] = "preparing"] /\ UNCHANGED <<smtp, taken>>
    BY <2>1 DEF ReserveSubmission, mailVars
  <2>6. Phase'[a] = "open"
    BY <2>4, <2>5 DEF Phase, PhaseOf
  <2>7. \A x \in Attempts \ {a} : Phase'[x] = Phase[x]
    BY <2>5, PhaseSame
  <2>8. Contract!Open(a)
    BY <2>3, <2>5, <2>6, <2>7, PhaseStep DEF Contract!Open
  <2> QED
    BY <2>8 DEF Contract!Next
<1>2. CASE \E a \in Attempts : /\ MarkSMTPSubmitting(a)
                               /\ smtp' = [smtp EXCEPT ![a] = "submitting"]
                               /\ UNCHANGED status
  <2>1. PICK a \in Attempts : /\ MarkSMTPSubmitting(a)
                              /\ smtp' = [smtp EXCEPT ![a] = "submitting"]
                              /\ UNCHANGED status
    BY <1>2
  <2>2. status[a] = "running" /\ smtp[a] = "not_started" /\ taken' = taken
    BY <2>1 DEF MarkSMTPSubmitting, mailVars, DeliveryInv, AttemptInv, WorkerInv, Cleaning
  <2>3. Phase[a] = "open" /\ Phase'[a] = "handing"
    BY <2>1, <2>2 DEF Phase, PhaseOf
  <2>4. \A x \in Attempts \ {a} : Phase'[x] = Phase[x]
    BY <2>1, PhaseSame
  <2>5. Contract!Hand(a)
    BY <2>2, <2>3, <2>4, PhaseStep DEF Contract!Hand
  <2> QED
    BY <2>5 DEF Contract!Next
<1>3. CASE \E a \in Attempts : SubmitSMTP(a)
  <2>1. PICK a \in Attempts : SubmitSMTP(a)
    BY <1>3
  <2>2. status[a] = "running" /\ smtp[a] = "submitting" /\ taken[a] = 0
    BY <2>1 DEF SubmitSMTP, DeliveryInv, AttemptInv, WorkerInv, Cleaning
  <2>3. UNCHANGED <<status, smtp>>
    BY <2>1 DEF SubmitSMTP
  <2>4. Phase' = Phase
    BY <2>3 DEF Phase, PhaseOf
  <2>5. Phase[a] = "handing"
    BY <2>2 DEF Phase, PhaseOf
  <2>6. taken' = taken \/ taken' = [taken EXCEPT ![a] = 1]
    BY <2>1, <2>2 DEF SubmitSMTP
  <2>7. Contract!Take(a) \/ UNCHANGED <<Phase, taken>>
    BY <2>2, <2>4, <2>5, <2>6 DEF Contract!Take
  <2> QED
    BY <2>7 DEF Contract!Next
<1>4. CASE \E a \in Attempts : RecordSMTP(a)
  <2>1. PICK a \in Attempts : RecordSMTP(a)
    BY <1>4
  <2>2. /\ status[a] = "running" /\ smtp[a] = "submitting"
        /\ wSmtp[a] \in {"accepted", "rejected", "unknown"}
        /\ wSmtp[a] = "accepted" => taken[a] = 1
        /\ wSmtp[a] = "rejected" => taken[a] = 0
    BY <2>1 DEF RecordSMTP, DeliveryInv, AttemptInv, WorkerInv, Cleaning
  <2>3. /\ smtp' = [smtp EXCEPT ![a] = wSmtp[a]]
        /\ \A x \in Attempts \ {a} : status'[x] = status[x]
        /\ status'[a] # "absent"
        /\ taken' = taken
    BY <2>1 DEF RecordSMTP, Persist, mailVars
  <2>4. \A x \in Attempts \ {a} : Phase'[x] = Phase[x]
    BY <2>3, PhaseSame
  <2>5. Phase[a] = "handing"
    BY <2>2 DEF Phase, PhaseOf
  <2>6. CASE wSmtp[a] = "accepted"
    <3>1. Phase'[a] = "accepted"
      BY <2>3, <2>6 DEF Phase, PhaseOf
    <3> QED
      BY <2>2, <2>3, <2>4, <2>5, <2>6, <3>1, PhaseStep DEF Contract!Report, Contract!Next
  <2>7. CASE wSmtp[a] = "rejected"
    <3>1. Phase'[a] = "refused"
      BY <2>3, <2>7 DEF Phase, PhaseOf
    <3> QED
      BY <2>2, <2>3, <2>4, <2>5, <2>7, <3>1, PhaseStep DEF Contract!Report, Contract!Next
  <2>8. CASE wSmtp[a] = "unknown"
    <3>1. Phase'[a] = "doubtful"
      BY <2>3, <2>8 DEF Phase, PhaseOf
    <3> QED
      BY <2>3, <2>4, <2>5, <3>1, PhaseStep DEF Contract!Report, Contract!Next
  <2> QED
    BY <2>2, <2>6, <2>7, <2>8
<1>5. CASE StartSubmissions
  <2>1. /\ status' = [x \in Attempts |-> AfterRestart(x).status]
        /\ smtp' = [x \in Attempts |-> AfterRestart(x).smtp]
        /\ taken' = taken
    BY <1>5 DEF StartSubmissions, mailVars
  <2>2. ASSUME NEW x \in Attempts
        PROVE  Phase'[x] = IF Phase[x] = "handing" THEN "doubtful" ELSE Phase[x]
    <3>1. RowInv(x)
      BY DEF DeliveryInv, AttemptInv
    <3>2. status'[x] = "absent" <=> status[x] = "absent"
      BY <2>1, <3>1 DEF AfterRestart, RowInv
    <3>3. CASE smtp[x] = "submitting"
      <4>1. smtp'[x] = "unknown" /\ status[x] # "absent"
        BY <2>1, <3>1, <3>3 DEF AfterRestart, RowInv
      <4> QED
        BY <3>2, <3>3, <4>1 DEF Phase, PhaseOf
    <3>4. CASE smtp[x] # "submitting"
      <4>1. smtp'[x] = smtp[x]
        BY <2>1, <3>4 DEF AfterRestart
      <4>2. smtp[x] \in {"not_started", "accepted", "rejected", "unknown"}
        BY <3>4 DEF SmtpStatuses
      <4>3. Phase[x] # "handing"
        BY <4>2 DEF Phase, PhaseOf
      <4> QED
        BY <3>2, <4>1, <4>3, PhaseSame
    <3> QED
      BY <3>3, <3>4
  <2>3. Phase' = [m \in Attempts |-> IF Phase[m] = "handing" THEN "doubtful" ELSE Phase[m]]
    BY <2>2 DEF Phase
  <2> QED
    BY <2>1, <2>3 DEF Contract!Interrupt, Contract!Next
<1> QED
  BY <1>1, <1>2, <1>3, <1>4, <1>5 DEF Loud

\* The pipeline keeps the promises of Outbox: a request opens at most one message, the
\* message is handed over at most once, and the report never contradicts the server.
THEOREM PipelineFulfilsOutbox == Spec => FulfilsOutbox
<1>1. Init => Contract!Init
  BY DEF Init, Contract!Init, Phase, PhaseOf
<1>2. TypeOK /\ DeliveryInv /\ [Next]_vars => [Contract!Next]_(Contract!vars)
  BY Steps, QuietStutters, LoudImplements DEF Contract!vars
<1> QED
  BY <1>1, <1>2, TypeCorrect, DeliveryCorrect, PTL DEF Spec, FulfilsOutbox, Contract!Spec

-----------------------------------------------------------------------------
(* The hand-off is authorised *)

\* Until the SMTP server has answered, a submission runs under the session that asked for
\* it: only a retry of the Sent copy replaces that session.
RunnerInv == \A a \in Attempts : smtp[a] = "not_started" => runner[a] = SessionOf[a]

\* No step makes a submission look as if it had not been handed over.
LEMMA NeverUnstarted ==
  ASSUME TypeOK, DeliveryInv, [Next]_vars, NEW a \in Attempts, smtp'[a] = "not_started"
  PROVE  smtp[a] = "not_started"
<1>1. CASE Quiet
  BY <1>1 DEF Quiet
<1>2. CASE StartSubmissions
  BY <1>2 DEF StartSubmissions, AfterRestart
<1>3. ASSUME NEW b \in Attempts,
             \/ ReserveSubmission(b)
             \/ MarkSMTPSubmitting(b) /\ smtp' = [smtp EXCEPT ![b] = "submitting"]
             \/ SubmitSMTP(b)
             \/ RecordSMTP(b)
      PROVE  smtp[a] = "not_started"
  <2>1. WorkerInv(b) /\ smtp \in [Attempts -> SmtpStatuses]
    BY DEF DeliveryInv, AttemptInv, TypeOK, RowTypeOK
  <2> QED
    BY <1>3, <2>1 DEF WorkerInv, Cleaning, ReserveSubmission, MarkSMTPSubmitting, SubmitSMTP,
       RecordSMTP,
       Persist
<1> QED
  BY <1>1, <1>2, <1>3, Steps DEF Loud

\* Only a retry of the Sent copy changes the session of a row.
LEMMA RunnerKept ==
  ASSUME [Next]_vars
  PROVE  \/ UNCHANGED runner
         \/ \E a \in Attempts, s \in Sessions : RetrySubmissionSentCopy(a, s)
<1>1. CASE \E a \in Attempts : Handler(a) \/ StagingWriteFails(a) \/ Dispatch(a)
  BY <1>1 DEF Handler, Compose, ReserveSubmission, AppendDraft, CompleteSubmissionStaging,
     StagingWriteFails, Dispatch, rowVars
<1>2. CASE \E a \in Attempts : Worker(a) \/ WorkerFailure(a)
  BY <1>2 DEF Worker, Begin, Authorise, ReadDraft, MarkSMTPSubmitting, SubmitSMTP, RecordSMTP,
     FileSentCopy, AppendSent, AppendFailed, RecordSaved, DeleteStaged, DeleteOriginal, RecordCleanup,
     WorkerFailure,
     unchangedByExec, rowVars
<1>3. CASE \/ ListQueued \/ DispatcherFailure \/ Stop \/ StartSubmissions \/ Others \/ UNCHANGED vars
           \/ \E a \in Attempts : ReconcileStaging(a)
  BY <1>3 DEF ListQueued, DispatcherFailure, Stop, StartSubmissions, ReconcileStaging, Others,
     ChangeAccess,
     ChangeConfig, EndSession, UserDeletesDraft, SlowAppendArrives, unchangedByOthers, rowVars, vars
<1> QED
  BY <1>1, <1>2, <1>3 DEF Next

\* A retry has an accepted message.
LEMMA RetryIsAccepted ==
  ASSUME TypeOK, NEW a \in Attempts, NEW s \in Sessions, RetrySubmissionSentCopy(a, s)
  PROVE  /\ smtp[a] = "accepted"
         /\ runner' = [runner EXCEPT ![a] = s]
  BY DEF RetrySubmissionSentCopy

\* A message is handed to the SMTP server only while the session that composed it is
\* active, its member may send, and every revision captured at that time is current.
THEOREM HandOffIsAuthorised == Spec => HandOffAuthorised
<1>1. Init => RunnerInv
  BY DEF Init, RunnerInv
<1>2. TypeOK /\ DeliveryInv /\ RunnerInv /\ [Next]_vars => RunnerInv'
  <2> SUFFICES ASSUME TypeOK, DeliveryInv, RunnerInv, [Next]_vars,
                      NEW a \in Attempts, smtp'[a] = "not_started"
               PROVE  runner'[a] = SessionOf[a]
    BY DEF RunnerInv
  <2>1. smtp[a] = "not_started" /\ runner[a] = SessionOf[a]
    BY NeverUnstarted DEF RunnerInv
  <2>2. CASE \E b \in Attempts, s \in Sessions : RetrySubmissionSentCopy(b, s)
    <3>1. PICK b \in Attempts, s \in Sessions : RetrySubmissionSentCopy(b, s)
      BY <2>2
    <3>2. b # a
      BY <2>1, <3>1, RetryIsAccepted
    <3> QED
      BY <2>1, <3>1, <3>2, RetryIsAccepted DEF TypeOK, RowTypeOK
  <2> QED
    BY <2>1, <2>2, RunnerKept
<1>3. TypeOK /\ DeliveryInv /\ RunnerInv /\ [Next]_vars =>
        \A a \in Attempts :
          smtp[a] # "submitting" /\ smtp'[a] = "submitting"
          => /\ MaySend(SessionOf[a], MailboxOf[a])
             /\ access[a] = accessRev[MailboxOf[a]]
             /\ config[a] = configRev[MailboxOf[a]]
  <2> SUFFICES ASSUME TypeOK, DeliveryInv, RunnerInv, [Next]_vars,
                      NEW a \in Attempts, smtp[a] # "submitting", smtp'[a] = "submitting"
               PROVE  ValidNow(a) /\ runner[a] = SessionOf[a]
    BY DEF ValidNow
  <2>1. CASE Quiet \/ StartSubmissions
    BY <2>1 DEF Quiet, StartSubmissions, AfterRestart
  <2>2. ASSUME NEW b \in Attempts,
               \/ ReserveSubmission(b)
               \/ SubmitSMTP(b)
               \/ RecordSMTP(b)
        PROVE  smtp'[a] # "submitting"
    <3>1. WorkerInv(b) /\ smtp \in [Attempts -> SmtpStatuses]
      BY DEF DeliveryInv, AttemptInv, TypeOK, RowTypeOK
    <3> QED
      BY <2>2, <3>1 DEF WorkerInv, Cleaning, ReserveSubmission, SubmitSMTP, RecordSMTP, Persist
  <2>3. ASSUME NEW b \in Attempts, MarkSMTPSubmitting(b),
               smtp' = [smtp EXCEPT ![b] = "submitting"]
        PROVE  ValidNow(a) /\ runner[a] = SessionOf[a]
    <3>1. a = b
      BY <2>3 DEF TypeOK, RowTypeOK
    <3>2. smtp[b] = "not_started" /\ wSmtp[b] = "not_started"
      BY <2>3 DEF MarkSMTPSubmitting, DeliveryInv, AttemptInv, WorkerInv, Cleaning
    <3>3. ~Fail(b)
      BY <2>3, <3>2 DEF Fail, Persist, TypeOK, RowTypeOK
    <3> QED
      BY <2>3, <3>1, <3>2, <3>3 DEF MarkSMTPSubmitting, RunnerInv
  <2> QED
    BY <2>1, <2>2, <2>3, Steps DEF Loud
<1> QED
  BY <1>1, <1>2, <1>3, TypeCorrect, DeliveryCorrect, PTL DEF Spec, HandOffAuthorised

-----------------------------------------------------------------------------
(* Workers and the rows they work on *)

\* While nothing has failed, a row in progress has the worker that will finish it.
RowWorker(a) ==
    /\ status[a] = "running" => exec[a] \notin {"none", "start"} \cup Cleaning
    /\ smtp[a] = "submitting" => exec[a] \in {"marked", "answered"}

WorkersInv == /\ IsFiniteSet(active) /\ WorkerExclusion
              /\ up /\ ~failing => \A a \in Attempts : RowWorker(a)

\* What a step may do to the workers: nothing, start one on a free mailbox, end one, or
\* end all of them.
SameWorkers == active' = active /\ \A x \in Attempts : exec'[x] = "none" <=> exec[x] = "none"
StartsWorker(a) == /\ MailboxOf[a] \notin active /\ ~(Cardinality(active) >= MaxActive)
                   /\ active' = active \cup {MailboxOf[a]} /\ exec' = [exec EXCEPT ![a] = "start"]
EndsWorker(a) == exec[a] # "none" /\ exec' = [exec EXCEPT ![a] = "none"] /\ active' = active \ {MailboxOf[a]}
EndsAll == active' = {} /\ \A x \in Attempts : exec'[x] = "none"

\* A worker's step goes on or ends it.
LEMMA WorkerSteps ==
  ASSUME TypeOK, NEW a \in Attempts, Worker(a) \/ WorkerFailure(a)
  PROVE  SameWorkers \/ EndsWorker(a)
<1> USE DEF TypeOK, ProcessTypeOK
<1>1. ASSUME NEW pc \in ExecStates \ {"none"}, Advance(a, pc), exec[a] # "none" PROVE SameWorkers
  BY <1>1 DEF Advance, SameWorkers
<1>2. ASSUME Finish(a), exec[a] # "none" PROVE EndsWorker(a)
  BY <1>2 DEF Finish, EndsWorker
<1>3. CASE Begin(a)
  <2>1. exec[a] # "none" /\ (Advance(a, "loaded") \/ Finish(a))
    BY <1>3 DEF Begin
  <2> QED
    BY <1>1, <1>2, <2>1 DEF ExecStates
<1>4. CASE Authorise(a) \/ ReadDraft(a) \/ MarkSMTPSubmitting(a) \/ FileSentCopy(a) \/ AppendFailed(a)
  <2>1. /\ exec[a] # "none"
        /\ Finish(a) \/ \E pc \in {"authorised", "accepted", "ready", "marked", "recorded", "appended", "saving"} : Advance(a, pc)
    BY <1>4 DEF Authorise, ReadDraft, MarkSMTPSubmitting, FileSentCopy, AppendFailed, Fail, Goto
  <2> QED
    BY <1>1, <1>2, <2>1 DEF ExecStates
<1>5. CASE SubmitSMTP(a) \/ RecordSMTP(a) \/ AppendSent(a) \/ RecordSaved(a)
  <2>1. /\ exec[a] # "none"
        /\ Finish(a) \/ \E pc \in {"answered", "accepted", "appended", "appendError", "recorded"} : Advance(a, pc)
    BY <1>5 DEF SubmitSMTP, RecordSMTP, AppendSent, RecordSaved, Goto
  <2> QED
    BY <1>1, <1>2, <2>1 DEF ExecStates
<1>6. CASE DeleteStaged(a) \/ DeleteOriginal(a) \/ RecordCleanup(a) \/ WorkerFailure(a)
  <2>1. exec[a] # "none" /\ (Finish(a) \/ \E pc \in {"draftRemoved", "cleaned", "cleanupFailed"} : Advance(a, pc))
    BY <1>6 DEF DeleteStaged, DeleteOriginal, RecordCleanup, WorkerFailure, Goto
  <2> QED
    BY <1>1, <1>2, <2>1 DEF ExecStates
<1> QED
  BY <1>3, <1>4, <1>5, <1>6 DEF Worker

\* So does every step of the system.
LEMMA WorkersMove ==
  ASSUME TypeOK, [Next]_vars
  PROVE  SameWorkers \/ EndsAll \/ \E a \in Attempts : StartsWorker(a) \/ EndsWorker(a)
<1>1. CASE \E a \in Attempts : Worker(a) \/ WorkerFailure(a)
  BY <1>1, WorkerSteps
<1>2. CASE \E a \in Attempts : Dispatch(a)
  BY <1>2 DEF Dispatch, SameWorkers, StartsWorker
<1>3. CASE Stop
  BY <1>3 DEF Stop, EndsAll
<1>4. CASE \/ \E a \in Attempts : Handler(a) \/ StagingWriteFails(a) \/ ReconcileStaging(a)
           \/ \E a \in Attempts, s \in Sessions : RetrySubmissionSentCopy(a, s)
  BY <1>4 DEF Handler, Compose, ReserveSubmission, AppendDraft, CompleteSubmissionStaging, StagingWriteFails,
     ReconcileStaging, RetrySubmissionSentCopy, SameWorkers
<1>5. CASE ListQueued \/ DispatcherFailure \/ StartSubmissions \/ Others \/ UNCHANGED vars
  BY <1>5 DEF ListQueued, DispatcherFailure, StartSubmissions, Others, ChangeAccess, ChangeConfig, EndSession,
     UserDeletesDraft, SlowAppendArrives, unchangedByOthers, processVars, vars, SameWorkers
<1> QED
  BY <1>1, <1>2, <1>3, <1>4, <1>5 DEF Next

\* No step starts a second worker of a mailbox, or one too many.
LEMMA ExclusionStep ==
  ASSUME TypeOK, IsFiniteSet(active), WorkerExclusion, [Next]_vars
  PROVE  IsFiniteSet(active') /\ WorkerExclusion'
<1> USE ConstantsAssumption, BoundsAssumption
<1>0. Cardinality(active) \in Nat
  BY FS_CardinalityType
<1>1. CASE SameWorkers
  BY <1>1 DEF WorkerExclusion, SameWorkers
<1>2. CASE EndsAll
  BY <1>2, FS_EmptySet DEF WorkerExclusion, EndsAll
<1>3. ASSUME NEW a \in Attempts, StartsWorker(a) PROVE IsFiniteSet(active') /\ WorkerExclusion'
  <2>1. IsFiniteSet(active') /\ Cardinality(active') = Cardinality(active) + 1
    BY <1>3, FS_AddElement DEF StartsWorker
  <2>2. Cardinality(active') <= MaxActive
    BY <1>0, <1>3, <2>1 DEF StartsWorker
  <2>3. \A x \in Attempts : exec'[x] # "none" <=> x = a \/ exec[x] # "none"
    BY <1>3 DEF StartsWorker, TypeOK, ProcessTypeOK
  <2>4. active' = {MailboxOf[x] : x \in {x \in Attempts : exec'[x] # "none"}}
    BY <1>3, <2>3 DEF StartsWorker, WorkerExclusion
  <2>5. \A x \in Attempts : exec[x] # "none" => MailboxOf[x] # MailboxOf[a]
    BY <1>3 DEF StartsWorker, WorkerExclusion
  <2> QED
    BY <2>1, <2>2, <2>3, <2>4, <2>5 DEF WorkerExclusion
<1>4. ASSUME NEW a \in Attempts, EndsWorker(a) PROVE IsFiniteSet(active') /\ WorkerExclusion'
  <2>1. IsFiniteSet(active') /\ Cardinality(active') <= Cardinality(active)
    <3>1. active' \subseteq active
      BY <1>4 DEF EndsWorker
    <3> QED
      BY <3>1, FS_Subset
  <2>2. Cardinality(active') \in Nat
    BY <2>1, FS_CardinalityType
  <2>3. \A x \in Attempts : exec'[x] # "none" <=> x # a /\ exec[x] # "none"
    BY <1>4 DEF EndsWorker, TypeOK, ProcessTypeOK
  <2>4. \A x \in Attempts : exec'[x] # "none" => MailboxOf[x] # MailboxOf[a]
    BY <1>4, <2>3 DEF EndsWorker, WorkerExclusion
  <2>5. active' = {MailboxOf[x] : x \in {x \in Attempts : exec'[x] # "none"}}
    BY <1>4, <2>3, <2>4 DEF EndsWorker, WorkerExclusion
  <2> QED
    BY <1>0, <2>1, <2>2, <2>3, <2>5 DEF WorkerExclusion
<1> QED
  BY <1>1, <1>2, <1>3, <1>4, WorkersMove

\* Only failures, stops and starts change the flags of the process.
LEMMA FlagsKept ==
  ASSUME [Next]_vars, up', ~failing', ~StartSubmissions
  PROVE  up /\ ~failing
<1>1. ASSUME NEW a \in Attempts, Handler(a) \/ StagingWriteFails(a) \/ Dispatch(a) \/ ReconcileStaging(a)
      PROVE  UNCHANGED <<up, failing>>
  BY <1>1 DEF Handler, Compose, ReserveSubmission, AppendDraft, CompleteSubmissionStaging, StagingWriteFails, Dispatch,
     ReconcileStaging
<1>2. ASSUME NEW a \in Attempts, Worker(a) PROVE UNCHANGED <<up, failing>>
  BY <1>2 DEF Worker, Begin, Authorise, ReadDraft, MarkSMTPSubmitting, SubmitSMTP, RecordSMTP, FileSentCopy, AppendSent,
     AppendFailed, RecordSaved, DeleteStaged, DeleteOriginal, RecordCleanup, unchangedByExec
<1>3. ASSUME ListQueued \/ Others \/ UNCHANGED vars \/ \E a \in Attempts, s \in Sessions : RetrySubmissionSentCopy(a, s)
      PROVE  UNCHANGED <<up, failing>>
  BY <1>3 DEF ListQueued, RetrySubmissionSentCopy, Others, ChangeAccess, ChangeConfig, EndSession, UserDeletesDraft,
     SlowAppendArrives, unchangedByOthers, processVars, vars
<1>4. ASSUME Stop \/ DispatcherFailure \/ \E a \in Attempts : WorkerFailure(a) PROVE FALSE
  BY <1>4, Zenon DEF Stop, DispatcherFailure, WorkerFailure
<1>5. UNCHANGED <<up, failing>>
  BY <1>1, <1>2, <1>3, <1>4, Zenon DEF Next
<1> QED
  BY <1>5, Zenon

\* A row that a worker has in progress is one that the worker will finish, and it is given
\* up only when main is about to stop.
LEMMA RowWorkerStep ==
  ASSUME TypeOK, DeliveryInv, WorkersInv, [Next]_vars, up', ~failing', NEW x \in Attempts
  PROVE  RowWorker(x)'
<1> USE DEF TypeOK, RowTypeOK, ProcessTypeOK
<1>1. CASE StartSubmissions
  BY <1>1 DEF StartSubmissions, AfterRestart, RowWorker
<1>2. CASE ~StartSubmissions
  <2>1. up /\ ~failing
    BY <1>2, FlagsKept
  <2>2. RowWorker(x) /\ RowInv(x) /\ WorkerInv(x) /\ ReconcileInv(x)
    BY <2>1 DEF WorkersInv, DeliveryInv, AttemptInv
  <2>3. ASSUME NEW a \in Attempts, Handler(a) \/ StagingWriteFails(a) PROVE RowWorker(x)'
    <3>1. UNCHANGED <<smtp, exec>>
      BY <2>3 DEF Handler, Compose, ReserveSubmission, AppendDraft, CompleteSubmissionStaging, StagingWriteFails, rowVars
    <3>2. status' = status \/ \E s \in {"preparing", "queued", "unknown"} : status' = [status EXCEPT ![a] = s]
      BY <2>3 DEF Handler, Compose, ReserveSubmission, AppendDraft, CompleteSubmissionStaging, StagingWriteFails, rowVars
    <3> QED
      BY <2>2, <3>1, <3>2 DEF RowWorker
  <2>4. ASSUME NEW a \in Attempts, Dispatch(a) PROVE RowWorker(x)'
    <3>1. CASE StartsWorker(a)
      <4>1. exec[a] = "none"
        BY <3>1 DEF WorkersInv, WorkerExclusion, StartsWorker
      <4> QED
        BY <2>2, <2>4, <3>1, <4>1 DEF RowWorker, StartsWorker, Dispatch, rowVars
    <3>2. CASE ~StartsWorker(a)
      BY <2>2, <2>4, <3>2 DEF RowWorker, StartsWorker, Dispatch, rowVars
    <3> QED
      BY <3>1, <3>2
  <2>5. ASSUME NEW a \in Attempts, Fail(a), status[a] = "running", wSmtp[a] = smtp[a],
               smtp[a] \in {"not_started", "accepted"}
        PROVE  RowWorker(x)'
    <3>1. status'[a] # "running" /\ smtp'[a] = smtp[a]
      BY <2>5 DEF Fail, Persist
    <3>2. x # a => status'[x] = status[x] /\ smtp'[x] = smtp[x] /\ exec'[x] = exec[x]
      BY <2>5 DEF Fail, Persist, Finish
    <3> QED
      BY <2>2, <2>5, <3>1, <3>2 DEF RowWorker
  <2>6. ASSUME NEW a \in Attempts, Begin(a) PROVE RowWorker(x)'
    BY <2>2, <2>6 DEF RowWorker, RowInv, Begin, Advance, Finish, Cleaning
  <2>7. ASSUME NEW a \in Attempts, Authorise(a) \/ ReadDraft(a) \/ MarkSMTPSubmitting(a) \/ FileSentCopy(a) \/ AppendFailed(a)
        PROVE  RowWorker(x)'
    <3>1. WorkerInv(a)
      BY DEF DeliveryInv, AttemptInv
    <3>2. status[a] = "running" /\ wSmtp[a] = smtp[a] /\ smtp[a] \in {"not_started", "accepted"}
      BY <2>7, <3>1 DEF WorkerInv, Cleaning, Authorise, ReadDraft, MarkSMTPSubmitting, FileSentCopy, AppendFailed
    <3>3. CASE ~Fail(a) /\ (Authorise(a) \/ ReadDraft(a))
      BY <2>2, <3>2, <3>3 DEF RowWorker, Authorise, ReadDraft, Goto, Advance, Cleaning
    <3>4. CASE ~Fail(a) /\ MarkSMTPSubmitting(a)
      BY <2>2, <3>2, <3>4 DEF RowWorker, MarkSMTPSubmitting, Goto, Advance, Cleaning
    <3>5. CASE ~Fail(a) /\ FileSentCopy(a)
      BY <2>2, <3>2, <3>5 DEF RowWorker, FileSentCopy, Persist, Goto, Advance, Cleaning
    <3> QED
      BY <2>5, <2>7, <3>2, <3>3, <3>4, <3>5 DEF AppendFailed
  <2>8. ASSUME NEW a \in Attempts, SubmitSMTP(a) \/ RecordSMTP(a) \/ AppendSent(a) \/ RecordSaved(a) PROVE RowWorker(x)'
    <3>1. WorkerInv(a)
      BY DEF DeliveryInv, AttemptInv
    <3>2. CASE SubmitSMTP(a)
      BY <2>2, <3>1, <3>2 DEF RowWorker, WorkerInv, SubmitSMTP, Advance, Cleaning
    <3>3. CASE RecordSMTP(a)
      BY <2>2, <3>1, <3>3 DEF RowWorker, WorkerInv, RecordSMTP, Persist, Goto, Advance, Finish, Cleaning
    <3>4. CASE AppendSent(a)
      BY <2>2, <3>1, <3>4 DEF RowWorker, WorkerInv, AppendSent, Goto, Advance, Cleaning
    <3>5. CASE RecordSaved(a)
      BY <2>2, <3>1, <3>5 DEF RowWorker, WorkerInv, RecordSaved, Persist, Goto, Advance, Cleaning
    <3> QED
      BY <2>8, <3>2, <3>3, <3>4, <3>5
  <2>9. ASSUME NEW a \in Attempts, DeleteStaged(a) \/ DeleteOriginal(a) \/ RecordCleanup(a) PROVE RowWorker(x)'
    <3>1. WorkerInv(a) /\ RowInv(a)
      BY DEF DeliveryInv, AttemptInv
    <3> QED
      BY <2>2, <2>9, <3>1 DEF RowWorker, WorkerInv, RowInv, DeleteStaged, DeleteOriginal, RecordCleanup, Goto, Advance, Finish,
         Cleaning
  <2>10. ASSUME NEW a \in Attempts, NEW s \in Sessions, RetrySubmissionSentCopy(a, s) PROVE RowWorker(x)'
    BY <2>2, <2>10 DEF RowWorker, RetrySubmissionSentCopy
  <2>11. ASSUME NEW a \in Attempts, ReconcileStaging(a) PROVE RowWorker(x)'
    BY <2>2, <2>11 DEF RowWorker, ReconcileStaging, Persist
  <2>12. CASE ListQueued \/ Others \/ UNCHANGED vars
    BY <2>2, <2>12 DEF RowWorker, ListQueued, Others, ChangeAccess, ChangeConfig, EndSession, UserDeletesDraft, SlowAppendArrives,
       unchangedByOthers, rowVars, processVars, vars
  <2>13. CASE DispatcherFailure \/ Stop \/ \E a \in Attempts : WorkerFailure(a)
    BY <2>13 DEF DispatcherFailure, Stop, WorkerFailure
  <2> QED
    BY <1>2, <2>3, <2>4, <2>6, <2>7, <2>8, <2>9, <2>10, <2>11, <2>12, <2>13 DEF Next, Worker
<1> QED
  BY <1>1, <1>2

\* The workers exclude each other and have the rows in progress between them.
THEOREM WorkersCorrect == Spec => []WorkersInv
<1>1. Init => WorkersInv
  BY FS_EmptySet, BoundsAssumption DEF Init, WorkersInv, WorkerExclusion, RowWorker
<1>2. TypeOK /\ DeliveryInv /\ WorkersInv /\ [Next]_vars => WorkersInv'
  BY ExclusionStep, RowWorkerStep DEF WorkersInv
<1> QED
  BY <1>1, <1>2, TypeCorrect, DeliveryCorrect, PTL DEF Spec

\* The mailboxes taken are those of the workers, and there is one worker for each: the list
\* of the dispatcher may be stale and still starts no second one.
THEOREM RowsAreWorkedOn == Spec => []RowsHaveWorkers
<1>1. WorkersInv => RowsHaveWorkers
  BY DEF WorkersInv, RowsHaveWorkers, RowWorker
<1> QED
  BY <1>1, WorkersCorrect, PTL

-----------------------------------------------------------------------------
(* Folders *)

\* An append that is still under way counts as the copy it may become, and a worker that is
\* about to append has found the Sent folder without a copy of its own.
CopyInv(a) == /\ a \in inflight => slow[a] >= 1
              /\ copies[a] + (IF a \in inflight THEN 1 ELSE 0) <= 1 + slow[a]
              /\ exec[a] = "saving" => copies[a] + (IF a \in inflight THEN 1 ELSE 0) <= slow[a]

\* What is known of a draft while nothing has been interrupted: it is only added before its
\* row is queued, and it is gone when its row says sent and nobody works on it any more,
\* unless an error says that it is not.
DraftInv(a) == /\ http[a] \in {"reserved", "staged", "stageError"} => status[a] = "preparing"
               /\ exec[a] \in {"draftRemoved", "cleaned"} => a \notin drafts
               /\ a \in drafts /\ status[a] = "sent" /\ exec[a] \in {"none", "start"} => a \in cleanupError

FolderInv == /\ \A a \in Attempts : CopyInv(a)
             /\ interruptions = 0 => up /\ ~failing /\ \A a \in Attempts : DraftInv(a)

\* A step that neither appends a copy nor lets a worker get ready to.
LEMMA CopyFrame ==
  ASSUME NEW x \in Attempts, CopyInv(x), UNCHANGED <<copies, inflight, slow>>, exec'[x] = "saving" => exec[x] = "saving"
  PROVE  CopyInv(x)'
  BY DEF CopyInv

\* The Sent folder: however often the copy is retried, one append counts.
LEMMA CopyStep ==
  ASSUME TypeOK, \A a \in Attempts : CopyInv(a), [Next]_vars, NEW x \in Attempts
  PROVE  CopyInv(x)'
<1> USE DEF TypeOK, MailTypeOK, ProcessTypeOK
<1>0. CopyInv(x) /\ copies[x] \in Nat /\ slow[x] \in Nat
  OBVIOUS
<1>1. ASSUME NEW a \in Attempts, Handler(a) \/ StagingWriteFails(a) \/ Dispatch(a) \/ ReconcileStaging(a) PROVE CopyInv(x)'
  BY <1>0, <1>1, CopyFrame DEF Handler, Compose, ReserveSubmission, AppendDraft, CompleteSubmissionStaging, StagingWriteFails,
     Dispatch, ReconcileStaging, mailVars
<1>2. ASSUME NEW a \in Attempts, FileSentCopy(a) PROVE CopyInv(x)'
  <2>1. UNCHANGED <<copies, inflight, slow>>
    BY <1>2 DEF FileSentCopy, mailVars
  <2>2. CASE x = a /\ exec'[a] = "saving"
    <3>1. copies[a] = 0
      BY <1>2, <2>2 DEF FileSentCopy, Goto, Advance, Fail, Finish
    <3> QED
      BY <1>0, <2>1, <2>2, <3>1 DEF CopyInv
  <2>3. CASE ~(x = a /\ exec'[a] = "saving")
    <3>1. exec'[x] = "saving" => exec[x] = "saving"
      BY <1>2, <2>3 DEF FileSentCopy, Goto, Advance, Fail, Finish
    <3> QED
      BY <1>0, <2>1, <3>1, CopyFrame
  <2> QED
    BY <2>2, <2>3
<1>3. ASSUME NEW a \in Attempts, AppendSent(a) PROVE CopyInv(x)'
  <2>1. exec[a] = "saving" /\ exec'[a] # "saving" /\ (x # a => exec'[x] = exec[x])
    BY <1>3 DEF AppendSent, Goto, Advance
  <2>2. CASE x # a
    <3>1. copies'[x] = copies[x] /\ slow'[x] = slow[x] /\ (x \in inflight' <=> x \in inflight)
      BY <1>3, <2>2 DEF AppendSent
    <3> QED
      BY <1>0, <2>1, <2>2, <3>1 DEF CopyInv
  <2>3. CASE x = a
    <3>1. \/ copies[a] = 0 /\ copies'[a] = 1 /\ UNCHANGED <<inflight, slow>>
          \/ copies'[a] \in {copies[a], copies[a] + 1} /\ UNCHANGED <<inflight, slow>>
          \/ a \notin inflight /\ a \in inflight' /\ slow'[a] = slow[a] + 1 /\ UNCHANGED copies
      BY <1>3 DEF AppendSent
    <3> QED
      BY <1>0, <2>1, <2>3, <3>1 DEF CopyInv
  <2> QED
    BY <2>2, <2>3
<1>4. ASSUME NEW a \in Attempts, Begin(a) \/ Authorise(a) \/ ReadDraft(a) \/ MarkSMTPSubmitting(a) \/ SubmitSMTP(a) \/ RecordSMTP(a)
      PROVE  CopyInv(x)'
  <2>1. UNCHANGED <<copies, inflight, slow>>
    BY <1>4 DEF Begin, Authorise, ReadDraft, MarkSMTPSubmitting, SubmitSMTP, RecordSMTP, mailVars
  <2>2. exec'[x] = "saving" => exec[x] = "saving"
    BY <1>4 DEF Begin, Authorise, ReadDraft, MarkSMTPSubmitting, SubmitSMTP, RecordSMTP, Goto, Advance, Fail, Finish
  <2> QED
    BY <1>0, <2>1, <2>2, CopyFrame
<1>5. ASSUME NEW a \in Attempts, \/ AppendFailed(a) \/ RecordSaved(a) \/ DeleteStaged(a) \/ DeleteOriginal(a) \/ RecordCleanup(a)
                                 \/ WorkerFailure(a)
      PROVE  CopyInv(x)'
  <2>1. UNCHANGED <<copies, inflight, slow>>
    BY <1>5 DEF AppendFailed, RecordSaved, DeleteStaged, DeleteOriginal, RecordCleanup, WorkerFailure, mailVars
  <2>2. exec'[x] = "saving" => exec[x] = "saving"
    BY <1>5 DEF AppendFailed, RecordSaved, DeleteStaged, DeleteOriginal, RecordCleanup, WorkerFailure, Goto, Advance, Fail, Finish
  <2> QED
    BY <1>0, <2>1, <2>2, CopyFrame
<1>6. ASSUME NEW a \in Attempts, SlowAppendArrives(a) PROVE CopyInv(x)'
  <2>1. exec' = exec /\ slow' = slow /\ a \in inflight /\ inflight' = inflight \ {a} /\ copies' = [copies EXCEPT ![a] = @ + 1]
    BY <1>6 DEF SlowAppendArrives, unchangedByOthers, processVars
  <2> QED
    BY <1>0, <2>1 DEF CopyInv
<1>7. CASE \/ \E b \in Mailboxes : ChangeAccess(b) \/ ChangeConfig(b)
           \/ \E s \in Sessions : EndSession(s)
           \/ \E a \in Attempts : UserDeletesDraft(a)
           \/ \E a \in Attempts, s \in Sessions : RetrySubmissionSentCopy(a, s)
           \/ ListQueued \/ DispatcherFailure \/ StartSubmissions \/ Stop \/ UNCHANGED vars
  <2>1. UNCHANGED <<copies, inflight, slow>> /\ (exec'[x] = "saving" => exec[x] = "saving")
    BY <1>7 DEF ChangeAccess, ChangeConfig, EndSession, UserDeletesDraft, RetrySubmissionSentCopy, ListQueued,
       DispatcherFailure, StartSubmissions, Stop, mailVars, unchangedByOthers, processVars, vars
  <2> QED
    BY <1>0, <2>1, CopyFrame
<1> QED
  BY <1>1, <1>2, <1>3, <1>4, <1>5, <1>6, <1>7 DEF Next, Worker, Others

\* A step that does not concern the draft of x, nor what is said about it.
LEMMA DraftFrame ==
  ASSUME NEW x \in Attempts, DraftInv(x), status'[x] = status[x], http'[x] = http[x], exec'[x] = exec[x],
         x \in drafts' => x \in drafts, x \in cleanupError => x \in cleanupError'
  PROVE  DraftInv(x)'
  BY DEF DraftInv

\* Nothing is interrupted by a step that is counted as no interruption.
LEMMA Uninterrupted ==
  ASSUME TypeOK, FolderInv, [Next]_vars, interruptions' = 0
  PROVE  /\ interruptions = 0 /\ up /\ ~failing /\ up' /\ ~failing' /\ ~Stop /\ ~StartSubmissions /\ ~DispatcherFailure
         /\ \A a \in Attempts : ~WorkerFailure(a) /\ ~StagingWriteFails(a)
<1>1. interruptions \in Nat
  BY DEF TypeOK, ProcessTypeOK
<1>2. ~DispatcherFailure /\ \A a \in Attempts : ~WorkerFailure(a) /\ ~StagingWriteFails(a)
  BY <1>1 DEF DispatcherFailure, WorkerFailure, StagingWriteFails
<1>3. ~Stop
  BY <1>1 DEF Stop, FolderInv
<1>4. ~StartSubmissions
  BY DEF StartSubmissions, FolderInv
<1>5. UNCHANGED <<interruptions, up, failing>>
  <2>1. CASE \E a \in Attempts : Handler(a) \/ Dispatch(a) \/ ReconcileStaging(a)
    BY <2>1 DEF Handler, Compose, ReserveSubmission, AppendDraft, CompleteSubmissionStaging, Dispatch, ReconcileStaging
  <2>2. CASE \E a \in Attempts : Worker(a)
    BY <2>2 DEF Worker, Begin, Authorise, ReadDraft, MarkSMTPSubmitting, SubmitSMTP, RecordSMTP, FileSentCopy, AppendSent,
       AppendFailed, RecordSaved, DeleteStaged, DeleteOriginal, RecordCleanup, unchangedByExec
  <2>3. CASE ListQueued \/ Others \/ UNCHANGED vars \/ \E a \in Attempts, s \in Sessions : RetrySubmissionSentCopy(a, s)
    BY <2>3 DEF ListQueued, RetrySubmissionSentCopy, Others, ChangeAccess, ChangeConfig, EndSession, UserDeletesDraft,
       SlowAppendArrives, unchangedByOthers, processVars, vars
  <2> QED
    BY <1>2, <1>3, <1>4, <2>1, <2>2, <2>3 DEF Next
<1> QED
  BY <1>2, <1>3, <1>4, <1>5 DEF FolderInv

\* The closure fail never leaves a row that says sent.
LEMMA DraftFail ==
  ASSUME TypeOK, NEW x \in Attempts, NEW a \in Attempts, Fail(a), DraftInv(x), status[a] = "running",
         UNCHANGED <<cleanupError, mailVars, unchangedByExec>>
  PROVE  DraftInv(x)'
<1> USE DEF TypeOK, RowTypeOK, ProcessTypeOK, mailVars, unchangedByExec
<1>1. CASE x # a
  BY <1>1, DraftFrame DEF Fail, Persist, Finish
<1>2. CASE x = a
  <2>1. status'[a] \in {"sent_copy_failed", "failed"} /\ exec'[a] = "none"
    BY DEF Fail, Persist, Finish
  <2> QED
    BY <1>2, <2>1 DEF DraftInv
<1> QED
  BY <1>1, <1>2

\* Without interruptions no staged draft is left behind in silence.
LEMMA DraftStep ==
  ASSUME TypeOK, DeliveryInv, WorkersInv, FolderInv, [Next]_vars, interruptions' = 0, NEW x \in Attempts
  PROVE  DraftInv(x)'
<1> USE DEF TypeOK, RowTypeOK, MailTypeOK, ProcessTypeOK
<1>0. DraftInv(x) /\ RowInv(x) /\ WorkerInv(x) /\ ReconcileInv(x)
  BY Uninterrupted DEF FolderInv, DeliveryInv, AttemptInv
<1>1. ASSUME NEW a \in Attempts, Compose(a) PROVE DraftInv(x)'
  <2>1. x # a => http'[x] = http[x]
    BY <1>1 DEF Compose
  <2>2. http'[a] \notin {"reserved", "staged", "stageError"}
    BY <1>1 DEF Compose, PriorAnswer
  <2> QED
    BY <1>0, <1>1, <2>1, <2>2 DEF DraftInv, Compose, mailVars
<1>2. ASSUME NEW a \in Attempts, ReserveSubmission(a) PROVE DraftInv(x)'
  <2>1. x # a => http'[x] = http[x] /\ status'[x] = status[x]
    BY <1>2 DEF ReserveSubmission
  <2>2. \/ http'[a] \notin {"reserved", "staged", "stageError"} /\ status' = status
        \/ status'[a] = "preparing"
    BY <1>2 DEF ReserveSubmission, PriorAnswer
  <2> QED
    BY <1>0, <1>2, <2>1, <2>2 DEF DraftInv, ReserveSubmission, mailVars
<1>3. ASSUME NEW a \in Attempts, AppendDraft(a) PROVE DraftInv(x)'
  <2>1. CASE x # a
    BY <1>0, <1>3, <2>1, DraftFrame DEF AppendDraft, rowVars
  <2>2. CASE x = a
    <3>1. status'[a] = "preparing" /\ exec' = exec
      BY <1>0, <1>3, <2>2 DEF AppendDraft, DraftInv, rowVars
    <3>2. exec[a] \notin {"draftRemoved", "cleaned"}
      BY <1>0, <2>2, <1>3, <3>1 DEF AppendDraft, WorkerInv, Cleaning, rowVars
    <3> QED
      BY <2>2, <3>1, <3>2 DEF DraftInv
  <2> QED
    BY <2>1, <2>2
<1>4. ASSUME NEW a \in Attempts, CompleteSubmissionStaging(a) PROVE DraftInv(x)'
  <2>1. x # a => http'[x] = http[x] /\ status'[x] = status[x]
    BY <1>4 DEF CompleteSubmissionStaging
  <2>2. http'[a] = "done" /\ (status' = status \/ status'[a] \in {"queued", "unknown"})
    BY <1>4 DEF CompleteSubmissionStaging
  <2> QED
    BY <1>0, <1>4, <2>1, <2>2 DEF DraftInv, CompleteSubmissionStaging, mailVars
<1>5. ASSUME NEW a \in Attempts, Dispatch(a) PROVE DraftInv(x)'
  <2>1. CASE exec' = exec
    BY <1>0, <1>5, <2>1, DraftFrame DEF Dispatch, rowVars, mailVars
  <2>2. CASE exec' = [exec EXCEPT ![a] = "start"] /\ MailboxOf[a] \notin active
    <3>1. exec[a] = "none"
      BY <2>2 DEF WorkersInv, WorkerExclusion
    <3> QED
      BY <1>0, <1>5, <2>2, <3>1 DEF DraftInv, Dispatch, rowVars, mailVars
  <2> QED
    BY <1>5, <2>1, <2>2 DEF Dispatch
<1>6. ASSUME NEW a \in Attempts, Begin(a) PROVE DraftInv(x)'
  <2>1. CASE x # a
    BY <1>0, <1>6, <2>1, DraftFrame DEF Begin, Advance, Finish, mailVars, unchangedByExec
  <2>2. CASE x = a
    <3>1. /\ exec[a] = "start" /\ UNCHANGED <<http, drafts, cleanupError>>
          /\ \/ status[a] = "queued" /\ status'[a] = "running" /\ exec'[a] = "loaded"
             \/ status' = status /\ exec'[a] = "none"
      BY <1>6 DEF Begin, Advance, Finish, mailVars, unchangedByExec
    <3> QED
      BY <1>0, <2>2, <3>1 DEF DraftInv
  <2> QED
    BY <2>1, <2>2
<1>7. ASSUME NEW a \in Attempts, Authorise(a) \/ ReadDraft(a) \/ MarkSMTPSubmitting(a) \/ FileSentCopy(a) \/ AppendFailed(a)
      PROVE  DraftInv(x)'
  <2>1. status[a] = "running"
    BY <1>7 DEF Authorise, ReadDraft, MarkSMTPSubmitting, FileSentCopy, AppendFailed, DeliveryInv, AttemptInv, WorkerInv,
       Cleaning
  <2>2. UNCHANGED <<cleanupError, mailVars, unchangedByExec>>
    BY <1>7 DEF Authorise, ReadDraft, MarkSMTPSubmitting, FileSentCopy, AppendFailed
  <2>3. CASE Fail(a)
    BY <1>0, <2>1, <2>2, <2>3, DraftFail
  <2>4. CASE ~Fail(a)
    <3>1. CASE x # a
      BY <1>0, <1>7, <2>2, <2>4, <3>1, DraftFrame
         DEF Authorise, ReadDraft, MarkSMTPSubmitting, FileSentCopy, AppendFailed, Persist, Goto, Advance, mailVars,
             unchangedByExec
    <3>2. CASE x = a
      <4>1. exec'[a] \notin {"none", "start", "draftRemoved", "cleaned"} /\ status'[a] # "preparing"
        BY <1>7, <2>1, <2>4
           DEF Authorise, ReadDraft, MarkSMTPSubmitting, FileSentCopy, AppendFailed, Persist, Goto, Advance
      <4> QED
        BY <1>0, <2>1, <2>2, <3>2, <4>1 DEF DraftInv, unchangedByExec
    <3> QED
      BY <3>1, <3>2
  <2> QED
    BY <2>3, <2>4
<1>8. ASSUME NEW a \in Attempts, SubmitSMTP(a) \/ RecordSMTP(a) \/ AppendSent(a) \/ RecordSaved(a) PROVE DraftInv(x)'
  <2>1. status[a] = "running" /\ UNCHANGED <<cleanupError, drafts, http>>
    BY <1>8 DEF SubmitSMTP, RecordSMTP, AppendSent, RecordSaved, DeliveryInv, AttemptInv, WorkerInv, Cleaning, mailVars,
       unchangedByExec
  <2>2. CASE x # a
    BY <1>0, <1>8, <2>1, <2>2, DraftFrame DEF SubmitSMTP, RecordSMTP, AppendSent, RecordSaved, Persist, Goto, Advance, Finish
  <2>3. CASE x = a
    <3>1. \/ exec'[a] \notin {"none", "start", "draftRemoved", "cleaned"}
          \/ exec'[a] = "none" /\ status'[a] # "sent"
      BY <1>8 DEF SubmitSMTP, RecordSMTP, AppendSent, RecordSaved, Persist, Goto, Advance, Finish
    <3> QED
      BY <1>0, <2>1, <2>3, <3>1 DEF DraftInv
  <2> QED
    BY <2>2, <2>3
<1>9. ASSUME NEW a \in Attempts, DeleteStaged(a) \/ DeleteOriginal(a) \/ RecordCleanup(a) PROVE DraftInv(x)'
  <2>1. status[a] = "sent" /\ UNCHANGED <<status, http>> /\ drafts' \subseteq drafts
    BY <1>9 DEF DeleteStaged, DeleteOriginal, RecordCleanup, DeliveryInv, AttemptInv, WorkerInv, Cleaning, mailVars,
       unchangedByExec
  <2>2. CASE x # a
    BY <1>0, <1>9, <2>1, <2>2, DraftFrame DEF DeleteStaged, DeleteOriginal, RecordCleanup, Goto, Advance, Finish
  <2>3. CASE x = a
    <3>1. FolderInv /\ DraftInv(a)
      BY <1>0, <2>3
    <3>2. \/ exec'[a] \in {"draftRemoved", "cleaned"} /\ a \notin drafts'
          \/ exec'[a] = "cleanupFailed"
          \/ exec'[a] = "none" /\ (a \notin drafts' \/ a \in cleanupError')
      BY <1>9, <2>1, <3>1 DEF DeleteStaged, DeleteOriginal, RecordCleanup, Goto, Advance, Finish, DraftInv
    <3> QED
      BY <2>1, <2>3, <3>1, <3>2 DEF DraftInv
  <2> QED
    BY <2>2, <2>3
<1>10. ASSUME NEW a \in Attempts, NEW s \in Sessions, RetrySubmissionSentCopy(a, s) PROVE DraftInv(x)'
  <2>1. CASE x # a
    BY <1>0, <1>10, <2>1, DraftFrame DEF RetrySubmissionSentCopy, mailVars
  <2>2. CASE x = a
    BY <1>0, <1>10, <2>2 DEF DraftInv, RetrySubmissionSentCopy, mailVars
  <2> QED
    BY <2>1, <2>2
<1>11. ASSUME NEW a \in Attempts, ReconcileStaging(a) PROVE DraftInv(x)'
  <2>1. CASE x # a
    BY <1>0, <1>11, <2>1, DraftFrame DEF ReconcileStaging, Persist, mailVars
  <2>2. CASE x = a
    <3>1. status[a] = "unknown" /\ status'[a] \in {"queued", "unknown"}
      BY <1>0, <1>11, <2>2 DEF ReconcileStaging, ReconcileInv, Persist
    <3> QED
      BY <1>0, <1>11, <2>2, <3>1 DEF DraftInv, ReconcileStaging, mailVars
  <2> QED
    BY <2>1, <2>2
<1>12. CASE ListQueued \/ Others \/ UNCHANGED vars
  BY <1>0, <1>12, DraftFrame DEF ListQueued, Others, ChangeAccess, ChangeConfig, EndSession, UserDeletesDraft,
     SlowAppendArrives, unchangedByOthers, rowVars, processVars, mailVars, vars
<1> QED
  BY <1>1, <1>2, <1>3, <1>4, <1>5, <1>6, <1>7, <1>8, <1>9, <1>10, <1>11, <1>12, Uninterrupted DEF Next, Handler, Worker

\* No retry files a second copy, but for appends that finish late; and a message that was
\* sent leaves its staged draft behind only with an error that says so.
THEOREM FoldersReported == Spec => []FoldersAsReported
<1>1. Init => FolderInv
  BY DEF Init, FolderInv, CopyInv, DraftInv
<1>2. TypeOK /\ DeliveryInv /\ WorkersInv /\ FolderInv /\ [Next]_vars => FolderInv'
  BY CopyStep, DraftStep, Uninterrupted DEF FolderInv
<1>3. TypeOK /\ FolderInv => FoldersAsReported
  <2> SUFFICES ASSUME TypeOK, FolderInv PROVE FoldersAsReported
    OBVIOUS
  <2>1. ASSUME NEW a \in Attempts PROVE copies[a] <= 1 + slow[a]
    BY DEF FolderInv, CopyInv, TypeOK, MailTypeOK
  <2>2. interruptions = 0 => \A a \in drafts : status[a] = "sent" /\ exec[a] = "none" => a \in cleanupError
    BY DEF FolderInv, DraftInv, TypeOK, MailTypeOK
  <2> QED
    BY <2>1, <2>2 DEF FoldersAsReported
<1> QED
  BY <1>1, <1>2, <1>3, TypeCorrect, DeliveryCorrect, WorkersCorrect, PTL DEF Spec

\* Only the cleanup of a message that was filed, and the user, take a draft away.
LEMMA DraftsGo ==
  ASSUME TypeOK, DeliveryInv, [Next]_vars, NEW a \in Attempts,
         (a \in originals /\ a \notin originals') \/ (a \in drafts /\ a \notin drafts' /\ exec' # exec)
  PROVE  Filed(a)
<1>1. RowInv(a) /\ WorkerInv(a)
  BY DEF DeliveryInv, AttemptInv
<1>2. exec[a] \in {"recorded", "draftRemoved"} => Filed(a)
  BY <1>1 DEF RowInv, WorkerInv, Cleaning
<1>3. CASE \E b \in Attempts : Handler(b) \/ StagingWriteFails(b) \/ Dispatch(b) \/ ReconcileStaging(b)
  BY <1>3 DEF Handler, Compose, ReserveSubmission, AppendDraft, CompleteSubmissionStaging, StagingWriteFails, Dispatch,
     ReconcileStaging, mailVars
<1>4. CASE \E b \in Attempts : Worker(b) \/ WorkerFailure(b)
  <2>1. PICK b \in Attempts : Worker(b) \/ WorkerFailure(b)
    BY <1>4
  <2>2. CASE DeleteStaged(b)
    BY <1>2, <2>2 DEF DeleteStaged
  <2>3. CASE DeleteOriginal(b)
    BY <1>2, <2>3 DEF DeleteOriginal
  <2>4. CASE ~DeleteStaged(b) /\ ~DeleteOriginal(b)
    BY <2>1, <2>4 DEF Worker, WorkerFailure, Begin, Authorise, ReadDraft, MarkSMTPSubmitting, SubmitSMTP, RecordSMTP,
       FileSentCopy, AppendSent, AppendFailed, RecordSaved, RecordCleanup, mailVars
  <2> QED
    BY <2>2, <2>3, <2>4
<1>5. CASE ListQueued \/ DispatcherFailure \/ Stop \/ StartSubmissions \/ UNCHANGED vars
           \/ \E b \in Attempts, s \in Sessions : RetrySubmissionSentCopy(b, s)
  BY <1>5 DEF ListQueued, DispatcherFailure, Stop, StartSubmissions, RetrySubmissionSentCopy, mailVars, vars
<1>6. CASE Others
  BY <1>6 DEF Others, ChangeAccess, ChangeConfig, EndSession, UserDeletesDraft, SlowAppendArrives, unchangedByOthers,
     processVars, mailVars
<1> QED
  BY <1>3, <1>4, <1>5, <1>6 DEF Next

\* The pipeline removes the staged draft, and the draft it replaces, only once the message
\* was accepted and is in the Sent folder.
THEOREM DraftsOutliveDelivery == Spec => DraftsRemovedOnlyWhenFiled
<1>1. TypeOK /\ DeliveryInv /\ [Next]_vars =>
        \A a \in Attempts :
          \/ a \in originals /\ a \notin originals'
          \/ a \in drafts /\ a \notin drafts' /\ exec' # exec
          => Filed(a)
  BY DraftsGo
<1> QED
  BY <1>1, TypeCorrect, DeliveryCorrect, PTL DEF Spec, DraftsRemovedOnlyWhenFiled
================================================================================
