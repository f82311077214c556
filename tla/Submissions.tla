------------------------------ MODULE Submissions ------------------------------
(***************************************************************************)
(* The reliable submission pipeline: a compose request reserves a row,     *)
(* stages the message in the Drafts folder and queues it; a dispatcher     *)
(* starts one worker per mailbox; the worker re-checks the authority of    *)
(* the sender, hands the message to the SMTP server, files the Sent copy   *)
(* and removes the draft.  The process may stop between any two steps, and *)
(* StartSubmissions then repairs the rows it finds.                        *)
(*                                                                         *)
(* Every action is one database statement or transaction, or one exchange  *)
(* with a mail server; between two actions the process may stop, and       *)
(* administrators, users and the other handlers may act.  A remote call    *)
(* may fail at any time: that covers network errors, the three-minute      *)
(* limit and the cancellation of the context when access is revoked.       *)
(***************************************************************************)
EXTENDS Naturals, FiniteSets

CONSTANTS
    Attempts,       \* calls of handleCompose with send; each has its own submissionId
    Mailboxes,
    Members,
    Sessions,       \* login sessions, named by their token hash
    RequestIds,     \* requestId values chosen by the browser
    Digests,        \* RequestDigest of the composed content
    MailboxOf,      \* [Attempts -> Mailboxes]
    SessionOf,      \* [Attempts -> Sessions], the session of the compose request
    RequestOf,      \* [Attempts -> RequestIds]
    DigestOf,       \* [Attempts -> Digests]
    MemberOf,       \* [Sessions -> Members]
    ModeOf,         \* [Mailboxes -> SentModes], the mailbox's SentCopyMode
    InitialLevel,   \* [Mailboxes -> [Members -> Levels]]
    MaxActive,      \* 4 in the code: workers running at once
    MaxRevision,    \* bound on access and configuration revisions
    MaxInterruptions, \* bound on process stops and failed database writes
    MaxRetries,     \* bound on sent-copy retries per submission
    MaxSlowAppends  \* bound on Sent appends the server finishes after the client gave up

SentModes == {"append", "server"}
\* The access levels that sending tells apart; "none" stands for no grant and for "read".
Levels == {"none", "send", "full"}

ASSUME ConstantsAssumption ==
    /\ MailboxOf \in [Attempts -> Mailboxes]
    /\ SessionOf \in [Attempts -> Sessions]
    /\ RequestOf \in [Attempts -> RequestIds]
    /\ DigestOf \in [Attempts -> Digests]
    /\ MemberOf \in [Sessions -> Members]
    /\ ModeOf \in [Mailboxes -> SentModes]
    /\ InitialLevel \in [Mailboxes -> [Members -> Levels]]

ASSUME BoundsAssumption ==
    /\ MaxActive \in Nat \ {0}
    /\ MaxRevision \in Nat
    /\ MaxInterruptions \in Nat
    /\ MaxRetries \in Nat
    /\ MaxSlowAppends \in Nat

Statuses == {"absent", "preparing", "queued", "running", "sent",
             "sent_copy_failed", "failed", "unknown"}
SmtpStatuses == {"not_started", "submitting", "accepted", "rejected", "unknown"}
SentStatuses == {"not_started", "saving", "saved", "server_managed", "failed", "unknown"}

VARIABLES
    \* table submissions
    status, smtp, sent,
    locator,        \* rows whose draft_locator_json is set
    access, config, \* access_revision; connection, endpoint and identity revisions
    runner,         \* session_hash, which fixes execution_member_id
    cleanupError,   \* rows whose cleanup_error_code is set
    \* the other tables the pipeline reads
    accessRev, configRev, level, live,
    \* the mail servers
    drafts,         \* staged messages present in the Drafts folder
    originals,      \* the user's own drafts that a submission replaces, still present
    taken,          \* how often the SMTP server took responsibility for the message
    copies,         \* copies in the Sent folder
    inflight,       \* appends the server has not finished although the client gave up
    slow,           \* how many such appends there were
    \* the process
    up, interruptions,
    failing,        \* workerFailure was signalled: main is shutting down
    dispatching,    \* the goroutine of StartSubmissions is running
    http,           \* progress of each compose handler
    exec,           \* progress of each executeSubmission goroutine
    wSmtp, wSent,   \* SMTPStatus and SentStatus of its submissionWork
    active,         \* submissionActive
    pending,        \* the rest of the dispatcher's pendingWork
    toReconcile,    \* the rest of the preparing list of StartSubmissions
    retries         \* sent-copy retries made so far

rowVars == <<status, smtp, sent, locator, access, config, runner, cleanupError>>
orgVars == <<accessRev, configRev, level, live>>
mailVars == <<drafts, originals, taken, copies, inflight, slow>>
processVars == <<up, interruptions, failing, dispatching, http, exec, wSmtp, wSent, active,
                 pending, toReconcile, retries>>
vars == <<rowVars, orgVars, mailVars, processVars>>

HttpStates == {"idle", "composing", "reserved", "staged", "stageError", "done",
               "repeated", "conflict", "refused"}
ExecStates == {"none", "start", "loaded", "authorised", "ready", "marked", "answered",
               "accepted", "saving", "appendError", "appended", "recorded", "draftRemoved",
               "cleanupFailed", "cleaned"}

RowTypeOK ==
    /\ status \in [Attempts -> Statuses]
    /\ smtp \in [Attempts -> SmtpStatuses]
    /\ sent \in [Attempts -> SentStatuses]
    /\ locator \subseteq Attempts
    /\ access \in [Attempts -> Nat]
    /\ config \in [Attempts -> Nat]
    /\ runner \in [Attempts -> Sessions]
    /\ cleanupError \subseteq Attempts

OrgTypeOK ==
    /\ accessRev \in [Mailboxes -> Nat]
    /\ configRev \in [Mailboxes -> Nat]
    /\ level \in [Mailboxes -> [Members -> Levels]]
    /\ live \subseteq Sessions

MailTypeOK ==
    /\ drafts \subseteq Attempts
    /\ originals \subseteq Attempts
    /\ taken \in [Attempts -> Nat]
    /\ copies \in [Attempts -> Nat]
    /\ inflight \subseteq Attempts
    /\ slow \in [Attempts -> Nat]

ProcessTypeOK ==
    /\ up \in BOOLEAN
    /\ interruptions \in Nat
    /\ failing \in BOOLEAN
    /\ dispatching \in BOOLEAN
    /\ http \in [Attempts -> HttpStates]
    /\ exec \in [Attempts -> ExecStates]
    /\ wSmtp \in [Attempts -> SmtpStatuses]
    /\ wSent \in [Attempts -> SentStatuses]
    /\ active \subseteq Mailboxes
    /\ pending \subseteq Attempts
    /\ toReconcile \subseteq Attempts
    /\ retries \in [Attempts -> Nat]

TypeOK == RowTypeOK /\ OrgTypeOK /\ MailTypeOK /\ ProcessTypeOK

Init ==
    /\ status = [a \in Attempts |-> "absent"]
    /\ smtp = [a \in Attempts |-> "not_started"]
    /\ sent = [a \in Attempts |-> "not_started"]
    /\ locator = {}
    /\ access = [a \in Attempts |-> 0]
    /\ config = [a \in Attempts |-> 0]
    /\ runner = SessionOf
    /\ cleanupError = {}
    /\ accessRev = [b \in Mailboxes |-> 0]
    /\ configRev = [b \in Mailboxes |-> 0]
    /\ level = InitialLevel
    /\ live = Sessions
    /\ drafts = {}
    /\ originals = Attempts
    /\ taken = [a \in Attempts |-> 0]
    /\ copies = [a \in Attempts |-> 0]
    /\ inflight = {}
    /\ slow = [a \in Attempts |-> 0]
    /\ up = TRUE
    /\ interruptions = 0
    /\ failing = FALSE
    /\ dispatching = TRUE
    /\ http = [a \in Attempts |-> "idle"]
    /\ exec = [a \in Attempts |-> "none"]
    /\ wSmtp = [a \in Attempts |-> "not_started"]
    /\ wSent = [a \in Attempts |-> "not_started"]
    /\ active = {}
    /\ pending = {}
    /\ toReconcile = {}
    /\ retries = [a \in Attempts |-> 0]

-----------------------------------------------------------------------------
(* Authority *)

LevelOf(s, b) == level[b][MemberOf[s]]

\* CanSend of the mailbox context, for a session that is still active.
MaySend(s, b) == s \in live /\ LevelOf(s, b) \in {"send", "full"}

\* CanDelete
MayTakeOver(s, b) == LevelOf(s, b) = "full"

\* The EXISTS query shared by ReserveSubmission and markSMTPSubmitting: session, access
\* level and every revision recorded in the row are the current ones.
ValidNow(a) ==
    LET b == MailboxOf[a] IN
    /\ MaySend(runner[a], b)
    /\ access[a] = accessRev[b]
    /\ config[a] = configRev[b]

\* The unique key (org, mailbox, member, request_id) of a submission.
Key == [a \in Attempts |-> <<MailboxOf[a], MemberOf[SessionOf[a]], RequestOf[a]>>]

Prior(a) == {b \in Attempts : status[b] # "absent" /\ Key[b] = Key[a]}

\* What handleCompose answers when the request is already known.
PriorAnswer(a) ==
    IF \E b \in Prior(a) : DigestOf[b] # DigestOf[a] THEN "conflict" ELSE "repeated"

-----------------------------------------------------------------------------
(* The compose handler *)

\* composeSubmission and the first half of handleCompose: the session, the access level
\* and an earlier submission of the same request are looked up, and the revisions
\* captured that ReserveSubmission will insist on.  The separate reads are one step: what
\* changes between them is found by ReserveSubmission, which insists on all of them.
Compose(a) ==
    /\ up
    /\ http[a] = "idle"
    /\ \/ /\ MaySend(SessionOf[a], MailboxOf[a])
          /\ http' = [http EXCEPT ![a] = IF Prior(a) = {} THEN "composing" ELSE PriorAnswer(a)]
          /\ access' = [access EXCEPT ![a] = accessRev[MailboxOf[a]]]
          /\ config' = [config EXCEPT ![a] = configRev[MailboxOf[a]]]
       \/ /\ http' = [http EXCEPT ![a] = "refused"]
          /\ UNCHANGED <<access, config>>
    /\ UNCHANGED <<status, smtp, sent, locator, runner, cleanupError, orgVars, mailVars, up,
                   interruptions, failing, dispatching, exec, wSmtp, wSent, active, pending,
                   toReconcile, retries>>

\* Mutant: the transaction trusts the lookup made before it.
ReserveWithoutRecheck(a) ==
    /\ up
    /\ http[a] = "composing"
    /\ ValidNow(a)
    /\ http' = [http EXCEPT ![a] = "reserved"]
    /\ status' = [status EXCEPT ![a] = "preparing"]
    /\ UNCHANGED <<smtp, sent, locator, access, config, runner, cleanupError, orgVars, mailVars,
                   up, interruptions, failing, dispatching, exec, wSmtp, wSent, active, pending,
                   toReconcile, retries>>

\* The transaction of ReserveSubmission: the request is looked up again, the authority
\* and the revisions are checked, and the row is inserted.
ReserveSubmission(a) ==
    /\ up
    /\ http[a] = "composing"
    /\ IF Prior(a) # {}
       THEN /\ http' = [http EXCEPT ![a] = PriorAnswer(a)]
            /\ UNCHANGED status
       ELSE IF ValidNow(a)
            THEN /\ http' = [http EXCEPT ![a] = "reserved"]
                 /\ status' = [status EXCEPT ![a] = "preparing"]
            ELSE /\ http' = [http EXCEPT ![a] = "refused"]
                 /\ UNCHANGED status
    /\ UNCHANGED <<smtp, sent, locator, access, config, runner, cleanupError, orgVars, mailVars,
                   up, interruptions, failing, dispatching, exec, wSmtp, wSent, active, pending,
                   toReconcile, retries>>

\* AppendSubmissionMessage to the Drafts folder; an error may hide an append that worked.  A
\* draft that arrives still later counts as arrived here or never: the row is unknown by
\* then, and only ReconcileStaging looks for the draft.
AppendDraft(a) ==
    /\ up
    /\ http[a] = "reserved"
    /\ \/ /\ http' = [http EXCEPT ![a] = "staged"]
          /\ drafts' = drafts \cup {a}
       \/ /\ http' = [http EXCEPT ![a] = "stageError"]
          /\ drafts' \in {drafts, drafts \cup {a}}
    /\ UNCHANGED <<rowVars, orgVars, originals, taken, copies, inflight, slow, up, interruptions,
                   failing, dispatching, exec, wSmtp, wSent, active, pending, toReconcile,
                   retries>>

\* CompleteSubmissionStaging, a compare-and-set on status 'preparing'.
CompleteSubmissionStaging(a) ==
    /\ up
    /\ http[a] \in {"staged", "stageError"}
    /\ http' = [http EXCEPT ![a] = "done"]
    /\ IF status[a] # "preparing"
       THEN UNCHANGED <<status, locator>>
       ELSE IF http[a] = "staged"
            THEN /\ status' = [status EXCEPT ![a] = "queued"]
                 /\ locator' = locator \cup {a}
            ELSE /\ status' = [status EXCEPT ![a] = "unknown"]
                 /\ locator' = locator \ {a}
    /\ UNCHANGED <<smtp, sent, access, config, runner, cleanupError, orgVars, mailVars, up,
                   interruptions, failing, dispatching, exec, wSmtp, wSent, active, pending,
                   toReconcile, retries>>

\* The same statement failing: the handler answers with an error and the row stays as it is.
StagingWriteFails(a) ==
    /\ up
    /\ http[a] \in {"staged", "stageError"}
    /\ interruptions < MaxInterruptions
    /\ interruptions' = interruptions + 1
    /\ http' = [http EXCEPT ![a] = "done"]
    /\ UNCHANGED <<rowVars, orgVars, mailVars, up, failing, dispatching, exec, wSmtp, wSent,
                   active, pending, toReconcile, retries>>

-----------------------------------------------------------------------------
(* The dispatcher loop of StartSubmissions *)

\* The SELECT of queued rows.  It runs only after the last reconcileStaging.
ListQueued ==
    /\ up
    /\ dispatching
    /\ toReconcile = {}
    /\ pending = {}
    /\ pending' = {a \in Attempts : status[a] = "queued"}
    /\ UNCHANGED <<rowVars, orgVars, mailVars, up, interruptions, failing, dispatching, http,
                   exec, wSmtp, wSent, active, toReconcile, retries>>

\* The list cannot be read, or the result of a reconciliation cannot be written: the
\* goroutine ends and main is asked to shut down.
DispatcherFailure ==
    /\ up
    /\ dispatching
    /\ pending = {}
    /\ interruptions < MaxInterruptions
    /\ interruptions' = interruptions + 1
    /\ failing' = TRUE
    /\ dispatching' = FALSE
    /\ UNCHANGED <<rowVars, orgVars, mailVars, up, http, exec, wSmtp, wSent, active, pending,
                   toReconcile, retries>>

\* Mutant: only the number of workers is looked at, not the mailbox.
DispatchBusy(a) ==
    /\ up
    /\ a \in pending
    /\ pending' = pending \ {a}
    /\ IF Cardinality(active) >= MaxActive
       THEN UNCHANGED <<active, exec>>
       ELSE /\ active' = active \cup {MailboxOf[a]}
            /\ exec' = [exec EXCEPT ![a] = "start"]
    /\ UNCHANGED <<rowVars, orgVars, mailVars, up, interruptions, failing, dispatching, http,
                   wSmtp, wSent, toReconcile, retries>>

\* One iteration over pendingWork: the row is skipped, or a goroutine is started for it.
Dispatch(a) ==
    /\ up
    /\ a \in pending
    /\ pending' = pending \ {a}
    /\ IF Cardinality(active) >= MaxActive \/ MailboxOf[a] \in active
       THEN UNCHANGED <<active, exec>>
       ELSE /\ active' = active \cup {MailboxOf[a]}
            /\ exec' = [exec EXCEPT ![a] = "start"]
    /\ UNCHANGED <<rowVars, orgVars, mailVars, up, interruptions, failing, dispatching, http,
                   wSmtp, wSent, toReconcile, retries>>

-----------------------------------------------------------------------------
(* executeSubmission *)

\* persistSubmissionResult: an unconditional UPDATE of the three status columns.
Persist(a, st, sm, se) ==
    /\ status' = [status EXCEPT ![a] = st]
    /\ smtp' = [smtp EXCEPT ![a] = sm]
    /\ sent' = [sent EXCEPT ![a] = se]

\* Mutant: the deferred function forgets to free the mailbox.
FinishKeepingMailbox(a) ==
    /\ exec' = [exec EXCEPT ![a] = "none"]
    /\ wSmtp' = [wSmtp EXCEPT ![a] = "not_started"]
    /\ wSent' = [wSent EXCEPT ![a] = "not_started"]
    /\ UNCHANGED active

\* The goroutine returns, its locals vanish, and its deferred function frees the mailbox.
Finish(a) ==
    /\ exec' = [exec EXCEPT ![a] = "none"]
    /\ wSmtp' = [wSmtp EXCEPT ![a] = "not_started"]
    /\ wSent' = [wSent EXCEPT ![a] = "not_started"]
    /\ active' = active \ {MailboxOf[a]}

Advance(a, pc) ==
    /\ exec' = [exec EXCEPT ![a] = pc]
    /\ UNCHANGED active

\* The next step of the goroutine that leaves its locals alone.
Goto(a, pc) == Advance(a, pc) /\ UNCHANGED <<wSmtp, wSent>>

\* Mutant: the two result columns are passed in the wrong order.
FailSwapped(a) ==
    /\ IF wSmtp[a] = "accepted"
       THEN Persist(a, "sent_copy_failed",
                    IF wSent[a] \in {"saving", "unknown"} THEN "unknown" ELSE "failed", "accepted")
       ELSE Persist(a, "failed", wSent[a], wSmtp[a])
    /\ Finish(a)

\* The closure fail of executeSubmission: it writes the worker's copy of the statuses.
Fail(a) ==
    /\ IF wSmtp[a] = "accepted"
       THEN Persist(a, "sent_copy_failed", "accepted",
                    IF wSent[a] \in {"saving", "unknown"} THEN "unknown" ELSE "failed")
       ELSE Persist(a, "failed", wSmtp[a], wSent[a])
    /\ Finish(a)

unchangedByExec == <<locator, access, config, runner, orgVars, up, interruptions, failing,
                     dispatching, http, pending, toReconcile, retries>>

\* The steps of cleanupSubmission, after the row says 'sent'.
Cleaning == {"recorded", "draftRemoved", "cleanupFailed", "cleaned"}

\* The compare-and-set queued -> running, and the read of the row into the locals.
Begin(a) ==
    /\ up
    /\ exec[a] = "start"
    /\ IF status[a] = "queued"
       THEN /\ status' = [status EXCEPT ![a] = "running"]
            /\ wSmtp' = [wSmtp EXCEPT ![a] = smtp[a]]
            /\ wSent' = [wSent EXCEPT ![a] = sent[a]]
            /\ Advance(a, "loaded")
       ELSE /\ Finish(a)
            /\ UNCHANGED status
    /\ UNCHANGED <<smtp, sent, cleanupError, mailVars, unchangedByExec>>

\* SessionHashActive, ResolveMailbox and the access checks that follow.
Authorise(a) ==
    LET b == MailboxOf[a] IN
    /\ up
    /\ exec[a] = "loaded"
    /\ \/ /\ MaySend(runner[a], b)
          /\ MemberOf[runner[a]] = MemberOf[SessionOf[a]] \/ MayTakeOver(runner[a], b)
          /\ access[a] = accessRev[b]
          /\ a \in locator
          /\ Goto(a, "authorised")
          /\ UNCHANGED <<status, smtp, sent>>
       \/ Fail(a)
    /\ UNCHANGED <<cleanupError, mailVars, unchangedByExec>>

\* The staged draft is read back and its digest compared; a submission that the SMTP
\* server has not accepted yet must still be at not_started under an unchanged endpoint
\* and identity.
ReadDraft(a) ==
    /\ up
    /\ exec[a] = "authorised"
    /\ \/ /\ a \in drafts
          /\ \/ /\ wSmtp[a] = "accepted"
                /\ Goto(a, "accepted")
             \/ /\ wSmtp[a] = "not_started"
                /\ config[a] = configRev[MailboxOf[a]]
                /\ Goto(a, "ready")
          /\ UNCHANGED <<status, smtp, sent>>
       \/ Fail(a)
    /\ UNCHANGED <<cleanupError, mailVars, unchangedByExec>>

\* Mutant: the checks of Authorise and ReadDraft are considered enough.
MarkWithoutRevalidation(a) ==
    /\ up
    /\ exec[a] = "ready"
    /\ smtp' = [smtp EXCEPT ![a] = "submitting"]
    /\ Goto(a, "marked")
    /\ UNCHANGED <<status, sent, cleanupError, mailVars, unchangedByExec>>

\* The transaction of markSMTPSubmitting.
MarkSMTPSubmitting(a) ==
    /\ up
    /\ exec[a] = "ready"
    /\ \/ /\ ValidNow(a)
          /\ status[a] = "running"
          /\ smtp[a] = "not_started"
          /\ smtp' = [smtp EXCEPT ![a] = "submitting"]
          /\ Goto(a, "marked")
          /\ UNCHANGED <<status, sent>>
       \/ Fail(a)
    /\ UNCHANGED <<cleanupError, mailVars, unchangedByExec>>

\* SubmitSMTP: the server answers that it took the message, or that it did not, or the
\* answer is lost and either may be the case.
SubmitSMTP(a) ==
    /\ up
    /\ exec[a] = "marked"
    /\ \/ /\ wSmtp' = [wSmtp EXCEPT ![a] = "accepted"]
          /\ taken' = [taken EXCEPT ![a] = @ + 1]
       \/ /\ wSmtp' = [wSmtp EXCEPT ![a] = "rejected"]
          /\ UNCHANGED taken
       \/ /\ wSmtp' = [wSmtp EXCEPT ![a] = "unknown"]
          /\ taken' \in {taken, [taken EXCEPT ![a] = @ + 1]}
    /\ Advance(a, "answered")
    /\ UNCHANGED <<status, smtp, sent, wSent, cleanupError, drafts, originals, copies, inflight,
                   slow, unchangedByExec>>

\* Mutant: every error of SubmitSMTP is recorded as a rejection.
RecordErrorAsRejected(a) ==
    /\ up
    /\ exec[a] = "answered"
    /\ \/ /\ wSmtp[a] = "accepted"
          /\ Persist(a, "running", "accepted", "not_started")
          /\ Goto(a, "accepted")
       \/ /\ wSmtp[a] # "accepted"
          /\ Persist(a, "failed", "rejected", "not_started")
          /\ Finish(a)
    /\ UNCHANGED <<cleanupError, mailVars, unchangedByExec>>

\* The answer of the SMTP server is recorded.
RecordSMTP(a) ==
    /\ up
    /\ exec[a] = "answered"
    /\ \/ /\ wSmtp[a] = "accepted"
          /\ Persist(a, "running", "accepted", "not_started")
          /\ Goto(a, "accepted")
       \/ /\ wSmtp[a] # "accepted"
          /\ Persist(a, IF wSmtp[a] = "unknown" THEN "unknown" ELSE "failed",
                     wSmtp[a], "not_started")
          /\ Finish(a)
    /\ UNCHANGED <<cleanupError, mailVars, unchangedByExec>>

\* Mutant: the Sent folder is not searched before the append.
FileWithoutSearch(a) ==
    /\ up
    /\ exec[a] = "accepted"
    /\ ModeOf[MailboxOf[a]] = "append"
    /\ Persist(a, "running", "accepted", "saving")
    /\ wSent' = [wSent EXCEPT ![a] = "saving"]
    /\ UNCHANGED wSmtp
    /\ Advance(a, "saving")
    /\ UNCHANGED <<cleanupError, mailVars, unchangedByExec>>

\* With SentCopyMode server the provider files the copy; otherwise the Sent folder is
\* searched for the submission id, and only when it is missing 'saving' is recorded.
FileSentCopy(a) ==
    /\ up
    /\ exec[a] = "accepted"
    /\ \/ /\ ModeOf[MailboxOf[a]] = "server"
          /\ Persist(a, "sent", "accepted", "server_managed")
          /\ Goto(a, "recorded")
       \/ /\ ModeOf[MailboxOf[a]] = "append"
          /\ copies[a] = 1
          /\ Goto(a, "appended")
          /\ UNCHANGED <<status, smtp, sent>>
       \/ /\ ModeOf[MailboxOf[a]] = "append"
          /\ copies[a] = 0
          /\ Persist(a, "running", "accepted", "saving")
          /\ wSent' = [wSent EXCEPT ![a] = "saving"]
          /\ UNCHANGED wSmtp
          /\ Advance(a, "saving")
       \/ /\ ModeOf[MailboxOf[a]] = "append"
          /\ Fail(a)
    /\ UNCHANGED <<cleanupError, mailVars, unchangedByExec>>

\* Mutant: an append without an answer counts as done.
AppendAssumedDone(a) ==
    /\ up
    /\ exec[a] = "saving"
    /\ copies' \in {copies, [copies EXCEPT ![a] = @ + 1]}
    /\ Goto(a, "appended")
    /\ UNCHANGED <<status, smtp, sent, cleanupError, drafts, originals, taken, inflight, slow,
                   unchangedByExec>>

\* AppendSubmissionMessage to the Sent folder: it reports success only after it has found
\* exactly one copy.  An error means that nothing was stored, that the copy is there, or
\* that the server is still storing it.
AppendSent(a) ==
    /\ up
    /\ exec[a] = "saving"
    /\ \/ /\ copies[a] = 0
          /\ copies' = [copies EXCEPT ![a] = 1]
          /\ Goto(a, "appended")
          /\ UNCHANGED <<inflight, slow>>
       \/ /\ copies' \in {copies, [copies EXCEPT ![a] = @ + 1]}
          /\ Goto(a, "appendError")
          /\ UNCHANGED <<inflight, slow>>
       \/ /\ a \notin inflight
          /\ slow[a] < MaxSlowAppends
          /\ inflight' = inflight \cup {a}
          /\ slow' = [slow EXCEPT ![a] = @ + 1]
          /\ Goto(a, "appendError")
          /\ UNCHANGED copies
    /\ UNCHANGED <<status, smtp, sent, cleanupError, drafts, originals, taken, unchangedByExec>>

\* The append failed: fail records the sent status as unknown.
AppendFailed(a) ==
    /\ up
    /\ exec[a] = "appendError"
    /\ Fail(a)
    /\ UNCHANGED <<cleanupError, mailVars, unchangedByExec>>

RecordSaved(a) ==
    /\ up
    /\ exec[a] = "appended"
    /\ Persist(a, "sent", "accepted", "saved")
    /\ Goto(a, "recorded")
    /\ UNCHANGED <<cleanupError, mailVars, unchangedByExec>>

\* cleanupSubmission begins: the staged draft is read back and deleted by its UID.
DeleteStaged(a) ==
    /\ up
    /\ exec[a] = "recorded"
    /\ \/ /\ a \in drafts
          /\ drafts' = drafts \ {a}
          /\ Goto(a, "draftRemoved")
       \/ /\ drafts' \in {drafts, drafts \ {a}}
          /\ Goto(a, "cleanupFailed")
    /\ UNCHANGED <<status, smtp, sent, cleanupError, originals, taken, copies, inflight, slow,
                   unchangedByExec>>

\* Only then is the draft that the message replaces deleted.  The flag on the message that
\* is answered or forwarded follows; it may fail too.
DeleteOriginal(a) ==
    /\ up
    /\ exec[a] = "draftRemoved"
    /\ \/ /\ originals' = originals \ {a}
          /\ Goto(a, "cleaned")
       \/ /\ originals' \in {originals, originals \ {a}}
          /\ Goto(a, "cleanupFailed")
    /\ UNCHANGED <<status, smtp, sent, cleanupError, drafts, taken, copies, inflight, slow,
                   unchangedByExec>>

\* The outcome of the cleanup is recorded.
RecordCleanup(a) ==
    /\ up
    /\ exec[a] \in {"cleaned", "cleanupFailed"}
    /\ cleanupError' = IF exec[a] = "cleaned" THEN cleanupError \ {a} ELSE cleanupError \cup {a}
    /\ Finish(a)
    /\ UNCHANGED <<status, smtp, sent, mailVars, unchangedByExec>>

\* A database write of the worker fails: the goroutine returns the error, the row keeps
\* its last committed state, and workerFailure asks main to shut down.
WorkerFailure(a) ==
    /\ up
    /\ exec[a] \notin {"none", "marked"}
    /\ interruptions < MaxInterruptions
    /\ interruptions' = interruptions + 1
    /\ failing' = TRUE
    /\ Finish(a)
    /\ UNCHANGED <<rowVars, orgVars, mailVars, up, dispatching, http, pending, toReconcile,
                   retries>>

-----------------------------------------------------------------------------
(* Retrying the Sent copy *)

\* RetrySubmissionSentCopy: only for a message the SMTP server accepted; the session and
\* access revision of the person who retries replace those in the row.  The reads and the
\* UPDATE are one step: a right lost between them shows when the worker checks it.
RetrySubmissionSentCopy(a, s) ==
    LET b == MailboxOf[a] IN
    /\ up
    /\ MaySend(s, b)
    /\ MemberOf[s] = MemberOf[SessionOf[a]] \/ MayTakeOver(s, b)
    /\ smtp[a] = "accepted"
    /\ status[a] = "sent_copy_failed"
    /\ retries[a] < MaxRetries
    /\ retries' = [retries EXCEPT ![a] = @ + 1]
    /\ status' = [status EXCEPT ![a] = "queued"]
    /\ runner' = [runner EXCEPT ![a] = s]
    /\ access' = [access EXCEPT ![a] = accessRev[b]]
    /\ UNCHANGED <<smtp, sent, locator, config, cleanupError, orgVars, mailVars, up,
                   interruptions, failing, dispatching, http, exec, wSmtp, wSent, active, pending,
                   toReconcile>>

-----------------------------------------------------------------------------
(* Stop and restart *)

\* The process ends, by itself after a worker failure or by a crash.  Handlers and
\* goroutines vanish with their private state; rows and mail servers stay.
Stop ==
    /\ up
    /\ \/ /\ failing
          /\ UNCHANGED interruptions
       \/ /\ ~failing
          /\ interruptions < MaxInterruptions
          /\ interruptions' = interruptions + 1
    /\ up' = FALSE
    /\ failing' = FALSE
    /\ dispatching' = FALSE
    /\ http' = [a \in Attempts |-> IF http[a] = "idle" THEN "idle" ELSE "done"]
    /\ exec' = [a \in Attempts |-> "none"]
    /\ wSmtp' = [a \in Attempts |-> "not_started"]
    /\ wSent' = [a \in Attempts |-> "not_started"]
    /\ active' = {}
    /\ pending' = {}
    /\ toReconcile' = {}
    /\ UNCHANGED <<rowVars, orgVars, mailVars, retries>>

\* Mutant: an interrupted hand-off is queued again.
RestartResubmitting(a) ==
    [status |-> IF smtp[a] = "submitting" \/ status[a] = "running" THEN "queued"
                ELSE IF status[a] = "preparing" THEN "unknown" ELSE status[a],
     smtp |-> IF smtp[a] = "submitting" THEN "not_started" ELSE smtp[a],
     sent |-> sent[a]]

\* The transaction of StartSubmissions, statement by statement.
AfterRestart(a) ==
    LET interrupted == smtp[a] = "submitting"
        copying == smtp[a] = "accepted" /\ status[a] = "running"
    IN  [status |-> IF interrupted THEN "unknown"
                    ELSE IF copying THEN "sent_copy_failed"
                    ELSE IF status[a] \in {"preparing", "running"} THEN "unknown"
                    ELSE status[a],
         smtp |-> IF interrupted THEN "unknown" ELSE smtp[a],
         sent |-> IF copying /\ sent[a] = "saving" THEN "unknown" ELSE sent[a]]

\* Mutant: the rows to reconcile are read after the transaction instead of before it.
StartReconcilingUnknown ==
    /\ ~up
    /\ up' = TRUE
    /\ dispatching' = TRUE
    /\ toReconcile' = {a \in Attempts : AfterRestart(a).status = "unknown"}
    /\ status' = [a \in Attempts |-> AfterRestart(a).status]
    /\ smtp' = [a \in Attempts |-> AfterRestart(a).smtp]
    /\ sent' = [a \in Attempts |-> AfterRestart(a).sent]
    /\ UNCHANGED <<locator, access, config, runner, cleanupError, orgVars, mailVars,
                   interruptions, failing, http, exec, wSmtp, wSent, active, pending,
                   retries>>

StartSubmissions ==
    /\ ~up
    /\ up' = TRUE
    /\ dispatching' = TRUE
    /\ toReconcile' = {a \in Attempts : status[a] = "preparing"}
    /\ status' = [a \in Attempts |-> AfterRestart(a).status]
    /\ smtp' = [a \in Attempts |-> AfterRestart(a).smtp]
    /\ sent' = [a \in Attempts |-> AfterRestart(a).sent]
    /\ UNCHANGED <<locator, access, config, runner, cleanupError, orgVars, mailVars,
                   interruptions, failing, http, exec, wSmtp, wSent, active, pending,
                   retries>>

\* reconcileStaging: a row whose staged draft is found goes back to the queue, any
\* other outcome leaves it unknown.
ReconcileStaging(a) ==
    /\ up
    /\ dispatching
    /\ a \in toReconcile
    /\ toReconcile' = toReconcile \ {a}
    /\ \/ /\ MaySend(runner[a], MailboxOf[a])
          /\ a \in drafts
          /\ IF smtp[a] = "not_started" /\ status[a] = "unknown"
             THEN /\ status' = [status EXCEPT ![a] = "queued"]
                  /\ locator' = locator \cup {a}
             ELSE UNCHANGED <<status, locator>>
          /\ UNCHANGED <<smtp, sent>>
       \/ /\ Persist(a, "unknown", "not_started", "not_started")
          /\ UNCHANGED locator
    /\ UNCHANGED <<access, config, runner, cleanupError, orgVars, mailVars, up, interruptions,
                   failing, dispatching, http, exec, wSmtp, wSent, active, pending, retries>>

-----------------------------------------------------------------------------
(* The rest of the system and the mail servers, as far as the pipeline sees them *)

unchangedByOthers == <<rowVars, processVars>>

\* GrantAccess and RevokeAccess: every change of a level bumps access_revision.
ChangeAccess(b) ==
    /\ accessRev[b] < MaxRevision
    /\ accessRev' = [accessRev EXCEPT ![b] = @ + 1]
    /\ \E m \in Members, l \in Levels : level' = [level EXCEPT ![b][m] = l]
    /\ UNCHANGED <<configRev, live, mailVars, unchangedByOthers>>

\* An administrator changes the connection, the SMTP endpoint or the identity.
ChangeConfig(b) ==
    /\ configRev[b] < MaxRevision
    /\ configRev' = [configRev EXCEPT ![b] = @ + 1]
    /\ UNCHANGED <<accessRev, level, live, mailVars, unchangedByOthers>>

\* A session ends: logout, expiry, or the member was disabled.
EndSession(s) ==
    /\ s \in live
    /\ live' = live \ {s}
    /\ UNCHANGED <<accessRev, configRev, level, mailVars, unchangedByOthers>>

\* The user removes the staged message with another mail client.
UserDeletesDraft(a) ==
    /\ a \in drafts
    /\ drafts' = drafts \ {a}
    /\ UNCHANGED <<orgVars, originals, taken, copies, inflight, slow, unchangedByOthers>>

\* The IMAP server finishes an append that the client has given up on.
SlowAppendArrives(a) ==
    /\ a \in inflight
    /\ inflight' = inflight \ {a}
    /\ copies' = [copies EXCEPT ![a] = @ + 1]
    /\ UNCHANGED <<orgVars, drafts, originals, taken, slow, unchangedByOthers>>

-----------------------------------------------------------------------------

Handler(a) == \/ Compose(a) \/ ReserveSubmission(a) \/ AppendDraft(a)
              \/ CompleteSubmissionStaging(a)

Worker(a) == \/ Begin(a) \/ Authorise(a) \/ ReadDraft(a) \/ MarkSMTPSubmitting(a)
             \/ SubmitSMTP(a) \/ RecordSMTP(a) \/ FileSentCopy(a) \/ AppendSent(a)
             \/ AppendFailed(a) \/ RecordSaved(a)
             \/ DeleteStaged(a) \/ DeleteOriginal(a) \/ RecordCleanup(a)

Others == \/ \E b \in Mailboxes : ChangeAccess(b) \/ ChangeConfig(b)
          \/ \E s \in Sessions : EndSession(s)
          \/ \E a \in Attempts : UserDeletesDraft(a) \/ SlowAppendArrives(a)

Next == \/ \E a \in Attempts : Handler(a) \/ StagingWriteFails(a)
        \/ ListQueued \/ DispatcherFailure
        \/ \E a \in Attempts : Dispatch(a) \/ Worker(a) \/ WorkerFailure(a)
        \/ \E a \in Attempts, s \in Sessions : RetrySubmissionSentCopy(a, s)
        \/ Stop \/ StartSubmissions
        \/ \E a \in Attempts : ReconcileStaging(a)
        \/ Others

Spec == Init /\ [][Next]_vars

-----------------------------------------------------------------------------
(* Properties *)

Filed(a) == taken[a] = 1 /\ (ModeOf[MailboxOf[a]] = "server" \/ copies[a] > 0)

\* However often a browser repeats a request, however the handlers race and wherever the
\* process stops, the SMTP server takes at most one message for the request.
RequestTakenAtMostOnce ==
    \A a, b \in Attempts :
        Key[a] = Key[b] => IF a = b THEN taken[a] <= 1 ELSE taken[a] + taken[b] <= 1

\* How the row of a submission reports its delivery.
PhaseOf(a) ==
    CASE status[a] = "absent" -> "absent"
      [] status[a] # "absent" /\ smtp[a] = "not_started" -> "open"
      [] status[a] # "absent" /\ smtp[a] = "submitting" -> "handing"
      [] status[a] # "absent" /\ smtp[a] = "accepted" -> "accepted"
      [] status[a] # "absent" /\ smtp[a] = "rejected" -> "refused"
      [] status[a] # "absent" /\ smtp[a] = "unknown" -> "doubtful"

Phase == [a \in Attempts |-> PhaseOf(a)]

Contract == INSTANCE Outbox WITH Messages <- Attempts, phase <- Phase

\* The pipeline implements the delivery contract of Outbox.
FulfilsOutbox == Contract!Spec

\* What the row says about delivery is true: 'accepted' was accepted once, 'not_started',
\* 'rejected' and 'failed' messages were never taken, a 'sent' message is delivered and filed.
ReportsAreTrue ==
    \A a \in Attempts :
        /\ smtp[a] = "accepted" => taken[a] = 1
        /\ smtp[a] \in {"not_started", "rejected"} => taken[a] = 0
        /\ status[a] = "failed" => taken[a] = 0
        /\ status[a] = "sent" => Filed(a)

\* Retrying a Sent copy never files a second one, except for appends that the IMAP server
\* completed after the client had given up on them.  Without interruptions, a sent message
\* whose staged draft is still in Drafts has a cleanup error that tells the user so.
FoldersAsReported ==
    /\ \A a \in Attempts : copies[a] <= 1 + slow[a]
    /\ interruptions = 0 =>
         \A a \in drafts : status[a] = "sent" /\ exec[a] = "none" => a \in cleanupError

\* One worker per mailbox and at most MaxActive of them; submissionActive names exactly
\* the mailboxes that have one.
WorkerExclusion ==
    /\ Cardinality(active) <= MaxActive
    /\ active = {MailboxOf[a] : a \in {x \in Attempts : exec[x] # "none"}}
    /\ \A a, b \in Attempts :
          exec[a] # "none" /\ exec[b] # "none" /\ MailboxOf[a] = MailboxOf[b] => a = b

\* While the process runs without a worker failure, a row that says running or submitting
\* has a goroutine that will finish it, the only one of its mailbox: a restart leaves nothing
\* half done, and no stale list starts a second worker.
RowsHaveWorkers ==
    /\ WorkerExclusion
    /\ up /\ ~failing =>
        \A a \in Attempts :
            /\ status[a] = "running" => exec[a] \notin {"none", "start"} \cup Cleaning
            /\ smtp[a] = "submitting" => exec[a] \in {"marked", "answered"}

\* The pipeline removes the staged draft, and the draft it replaces, only once the
\* message has been delivered and is in the Sent folder (or left to the provider).
DraftsRemovedOnlyWhenFiled ==
    [][\A a \in Attempts :
          \/ a \in originals /\ a \notin originals'
          \/ a \in drafts /\ a \notin drafts' /\ exec' # exec
          => Filed(a)]_vars

\* A recorded SMTP result is final: neither a restart, a reconciliation nor a retry of
\* the Sent copy changes it.
SMTPResultFinal ==
    [][\A a \in Attempts :
          smtp[a] \in {"accepted", "rejected", "unknown"} => smtp'[a] = smtp[a]]_vars

\* The hand-off starts only in a state where the sender's session, access level and all
\* revisions captured at compose time are still current, whatever changed meanwhile.
HandOffAuthorised ==
    [][\A a \in Attempts :
          smtp[a] # "submitting" /\ smtp'[a] = "submitting"
          => /\ MaySend(SessionOf[a], MailboxOf[a])
             /\ access[a] = accessRev[MailboxOf[a]]
             /\ config[a] = configRev[MailboxOf[a]]]_vars

\* Timeouts end every remote call, the dispatcher ticks every second, main exits on a
\* worker failure and the container is restarted.
Fairness ==
    /\ \A a \in Attempts :
          /\ WF_vars(ReserveSubmission(a) \/ AppendDraft(a) \/ CompleteSubmissionStaging(a))
          /\ WF_vars(Worker(a))
          /\ WF_vars(Dispatch(a))
          /\ WF_vars(ReconcileStaging(a))
    /\ WF_vars(ListQueued)
    /\ WF_vars(failing /\ Stop)
    /\ WF_vars(StartSubmissions)

FairSpec == Spec /\ Fairness

Settled(a) == status[a] \in {"sent", "sent_copy_failed", "failed", "unknown"}

\* A queued submission is eventually settled: neither the worker limit, a busy mailbox, a
\* stale list nor a restart leaves it waiting for ever.
QueuedIsSettled == \A a \in Attempts : status[a] \in {"queued", "running"} ~> Settled(a)
================================================================================
