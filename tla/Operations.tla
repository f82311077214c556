------------------------------- MODULE Operations -------------------------------
(***************************************************************************)
(* The persistent operation engine.  QueueOperation records an operation   *)
(* with the locks of the resources it changes; four workers take queued    *)
(* operations in order and execute them; administrators reconcile, retry,  *)
(* cancel and report on operations that did not simply succeed.  The       *)
(* process may stop between any two steps, and StartOperations marks what  *)
(* was interrupted as unknown.                                             *)
(*                                                                         *)
(* An operation is a sequence of steps followed by a local transaction     *)
(* that completes it.  A step is                                           *)
(*   "remote"      a provider call wrapped by remoteOperationStep;         *)
(*   "credential"  the same, but its result may be impossible to read back; *)
(*   "readback"    the same for a change of a domain, where the adapter     *)
(*                 writes and then reads, and passes on what reading said;  *)
(*   "commit"      an intermediate local transaction, which creates a      *)
(*                 mailbox and locks it;                                   *)
(*   "external"    work an administrator does elsewhere and reports.       *)
(* A local operation has no steps: all its effects are in the completing   *)
(* transaction.  Every action is one database statement or transaction, or *)
(* one exchange with a provider.  The reads and permission checks just     *)
(* before a statement are taken together with it.                          *)
(***************************************************************************)
EXTENDS Naturals, Sequences, FiniteSets

CONSTANTS
    Ops,            \* calls of QueueOperation, naming the rows they would insert
    Requests,       \* (actor, requestId) pairs
    Resources,      \* resource keys of operation_locks
    Workers,        \* the four goroutines of StartOperations
    Controllers,    \* concurrent calls of ControlOperation with action reconcile
    NoOp,           \* no operation
    RequestOf,      \* [Ops -> Requests]
    KeysOf,         \* [Ops -> SUBSET Resources]
    MaxSteps,       \* bound on the steps of an operation
    KindOf,         \* [Ops -> [1..MaxSteps -> Kinds]], "none" after the last step
    NewMailbox,     \* [Ops -> Resources], the mailbox a "commit" step creates
    Prepared,       \* operations with a prepare step, written when they are queued
    Demotable,      \* operations whose actor may lose its permission, or regain it
    MaxInterruptions, \* bound on process stops and failed database writes
    MaxRetries,     \* bound on retries of one operation
    MaxSlow         \* bound on calls a provider completes after the client gave up

Positions == 1..MaxSteps
Kinds == {"none", "remote", "credential", "readback", "commit", "external"}
Calls == {"remote", "credential", "readback"}

ASSUME OpsAssumption ==
    /\ RequestOf \in [Ops -> Requests]
    /\ KeysOf \in [Ops -> SUBSET Resources]
    /\ KindOf \in [Ops -> [Positions -> Kinds]]
    /\ \A o \in Ops : \A j, k \in Positions :
         j < k /\ KindOf[o][k] # "none" => KindOf[o][j] # "none"
    /\ NewMailbox \in [Ops -> Resources]
    /\ Prepared \subseteq Ops
    /\ Demotable \subseteq Ops
    /\ NoOp \notin Ops

\* commitOffboardDeparture writes its prepare steps when it queues an offboarding.
ASSUME OffboardAssumption ==
    \A o \in Ops : (\E k \in Positions : KindOf[o][k] = "external") => o \in Prepared

ASSUME BoundsAssumption ==
    /\ MaxSteps \in Nat
    /\ MaxInterruptions \in Nat
    /\ MaxRetries \in Nat
    /\ MaxSlow \in Nat

Statuses == {"absent", "queued", "running", "succeeded", "failed", "unknown",
             "needs_action", "cancelled"}
StepStatuses == {"absent", "pending", "running", "succeeded", "failed", "unknown",
                 "external_reported"}
Settled == {"absent", "succeeded", "failed", "cancelled"}
Final == {"succeeded", "cancelled"}
Unresolved == {"unknown", "running"}
Resolved == {"succeeded", "external_reported"}

VARIABLES
    \* tables operations, operation_steps and operation_locks
    rows,           \* operations in the order they were created
    status,
    execute,        \* status of the step 'execute'
    step,           \* status of every other step
    processed,      \* operations whose step 'member.processing' succeeded
    locks,          \* operation_locks: the operation that holds each key, or NoOp
    \* the other tables, and the members
    committed,      \* operations whose completing transaction took place
    mailboxes,      \* mailboxes created by "commit" steps
    permitted,      \* operations whose actor is active and has the permissions
    \* the providers
    applied,        \* how often each step took effect
    inflight,       \* calls the provider has not finished although the client gave up
    slow,           \* how many such calls there were
    misread,        \* how often each step took effect and was answered as rejected
    called,         \* calls made on behalf of each operation
    \* the process
    up, failing, interruptions, retries,
    pc, job, pos, answer,       \* of each worker
    cpc, cop, todo, verdict     \* of each reconciling controller

tableVars == <<rows, status, execute, step, processed, locks, committed, mailboxes>>
providerVars == <<applied, inflight, slow, misread, called>>
processVars == <<up, failing, interruptions, retries>>
workerVars == <<pc, job, pos, answer>>
controllerVars == <<cpc, cop, todo, verdict>>
vars == <<tableVars, permitted, providerVars, processVars, workerVars, controllerVars>>

Steps(o) == {k \in Positions : KindOf[o][k] # "none"}
Local(o) == Steps(o) = {}
Offboard(o) == \E k \in Steps(o) : KindOf[o][k] = "external"
Live(o) == status[o] \notin Settled

WorkerStates == {"idle", "selected", "claimed", "between", "marked", "answered", "done",
                 "stopped"}
Busy == {"claimed", "between", "marked", "answered", "done"}
Answers == {"none", "ok", "failed", "unknown"}
ControllerStates == {"idle", "viewed", "reading", "read"}

TableTypeOK ==
    /\ rows \in Seq(Ops)
    /\ status \in [Ops -> Statuses]
    /\ execute \in [Ops -> StepStatuses]
    /\ step \in [Ops -> [Positions -> StepStatuses]]
    /\ processed \subseteq Ops
    /\ locks \in [Resources -> Ops \cup {NoOp}]
    /\ committed \subseteq Ops
    /\ mailboxes \subseteq Resources
    /\ permitted \subseteq Ops

ProviderTypeOK ==
    /\ applied \in [Ops -> [Positions -> Nat]]
    /\ inflight \subseteq Ops \X Positions
    /\ slow \in Nat
    /\ misread \in [Ops -> [Positions -> Nat]]
    /\ called \in [Ops -> Nat]

ProcessTypeOK ==
    /\ up \in BOOLEAN
    /\ failing \in BOOLEAN
    /\ interruptions \in Nat
    /\ retries \in [Ops -> Nat]

WorkerTypeOK ==
    /\ pc \in [Workers -> WorkerStates]
    /\ job \in [Workers -> Ops \cup {NoOp}]
    /\ \A w \in Workers : pc[w] \in Busy \cup {"selected"} => job[w] \in Ops
    /\ pos \in [Workers -> 1..MaxSteps + 1]
    /\ \A w \in Workers : pc[w] \in {"marked", "answered"} => pos[w] \in Positions
    /\ answer \in [Workers -> Answers]
    /\ \A w \in Workers : pc[w] = "answered" => answer[w] # "none"

ControllerTypeOK ==
    /\ cpc \in [Controllers -> ControllerStates]
    /\ cop \in [Controllers -> Ops \cup {NoOp}]
    /\ \A c \in Controllers : cpc[c] # "idle" => cop[c] \in Ops
    /\ todo \in [Controllers -> SUBSET Positions]
    /\ verdict \in [Controllers -> {"none", "succeeded", "failed"}]
    /\ \A c \in Controllers : cpc[c] = "read" => verdict[c] # "none"

\* Every variable keeps its type.
TypeOK == TableTypeOK /\ ProviderTypeOK /\ ProcessTypeOK /\ WorkerTypeOK /\ ControllerTypeOK

Init ==
    /\ rows = <<>>
    /\ status = [o \in Ops |-> "absent"]
    /\ execute = [o \in Ops |-> "absent"]
    /\ step = [o \in Ops |-> [k \in Positions |-> "absent"]]
    /\ processed = {}
    /\ locks = [r \in Resources |-> NoOp]
    /\ committed = {}
    /\ mailboxes = {}
    /\ permitted = Ops
    /\ applied = [o \in Ops |-> [k \in Positions |-> 0]]
    /\ inflight = {}
    /\ slow = 0
    /\ misread = [o \in Ops |-> [k \in Positions |-> 0]]
    /\ called = [o \in Ops |-> 0]
    /\ up = TRUE
    /\ failing = FALSE
    /\ interruptions = 0
    /\ retries = [o \in Ops |-> 0]
    /\ pc = [w \in Workers |-> "idle"]
    /\ job = [w \in Workers |-> NoOp]
    /\ pos = [w \in Workers |-> 1]
    /\ answer = [w \in Workers |-> "none"]
    /\ cpc = [c \in Controllers |-> "idle"]
    /\ cop = [c \in Controllers |-> NoOp]
    /\ todo = [c \in Controllers |-> {}]
    /\ verdict = [c \in Controllers |-> "none"]

-----------------------------------------------------------------------------
(* Locks *)

\* The keys an operation needs: those of its request and the mailbox it created meanwhile.
Needed(o) ==
    KeysOf[o] \cup
    {r \in {NewMailbox[o]} : \E k \in Steps(o) : /\ KindOf[o][k] = "commit"
                                                 /\ step[o][k] = "succeeded"}

Available(R, o) == \A r \in R : locks[r] \in {NoOp, o}
Acquire(R, o) == locks' = [r \in Resources |-> IF r \in R THEN o ELSE locks[r]]
Unlock(o) == locks' = [r \in Resources |-> IF locks[r] = o THEN NoOp ELSE locks[r]]

\* Mailboxes that only come into existence when some operation creates them.
Planned == {NewMailbox[o] : o \in {p \in Ops : \E k \in Steps(p) : KindOf[p][k] = "commit"}}

-----------------------------------------------------------------------------
(* QueueOperation *)

\* The row an earlier call inserted for the same request; the call then answers with it,
\* or with idempotency_conflict, and changes nothing.
Prior(o) == \E p \in Ops : RequestOf[p] = RequestOf[o] /\ status[p] # "absent"

QueueOperation(o) ==
    /\ up
    /\ ~Prior(o)
    /\ o \in permitted
    /\ KeysOf[o] \cap Planned \subseteq mailboxes
    /\ Available(KeysOf[o], o)
    /\ rows' = Append(rows, o)
    /\ status' = [status EXCEPT ![o] = "queued"]
    /\ execute' = [execute EXCEPT ![o] = "pending"]
    /\ Acquire(KeysOf[o], o)
    /\ UNCHANGED <<step, processed, committed, mailboxes, permitted,
                   providerVars, processVars, workerVars, controllerVars>>

-----------------------------------------------------------------------------
(* The workers of StartOperations *)

Queued == {i \in DOMAIN rows : status[rows[i]] = "queued"}

\* A worker reads the oldest queued operation.
Select(w) ==
    /\ up /\ ~failing
    /\ pc[w] = "idle"
    /\ \E i \in Queued :
        /\ \A j \in Queued : i <= j
        /\ job' = [job EXCEPT ![w] = rows[i]]
    /\ pc' = [pc EXCEPT ![w] = "selected"]
    /\ UNCHANGED <<tableVars, permitted, providerVars, processVars, pos, answer, controllerVars>>

Leave(w, state) ==
    /\ pc' = [pc EXCEPT ![w] = state]
    /\ job' = [job EXCEPT ![w] = NoOp]
    /\ pos' = [pos EXCEPT ![w] = 1]
    /\ answer' = [answer EXCEPT ![w] = "none"]

\* It claims the operation, unless its status has changed since.
Claim(w) ==
    LET o == job[w] IN
    /\ pc[w] = "selected"
    /\ \/ /\ status[o] = "queued"
          /\ status' = [status EXCEPT ![o] = "running"]
          /\ pc' = [pc EXCEPT ![w] = "claimed"]
          /\ UNCHANGED <<job, pos, answer>>
       \/ /\ status[o] # "queued"
          /\ Leave(w, "idle")
          /\ UNCHANGED status
    /\ UNCHANGED <<rows, execute, step, processed, locks, committed, mailboxes, permitted,
                   providerVars, processVars, controllerVars>>

\* The step 'execute' starts, and the actor of the operation is checked again.
StartExecute(w) ==
    LET o == job[w] IN
    /\ pc[w] = "claimed"
    /\ execute' = [execute EXCEPT ![o] = "running"]
    /\ \/ /\ o \in permitted
          /\ pc' = [pc EXCEPT ![w] = "between"]
          /\ UNCHANGED answer
       \/ /\ o \notin permitted
          /\ pc' = [pc EXCEPT ![w] = "done"]
          /\ answer' = [answer EXCEPT ![w] = "failed"]
    /\ UNCHANGED <<rows, status, step, processed, locks, committed, mailboxes, permitted,
                   providerVars, processVars, job, pos, controllerVars>>

\* The worker stands before the given step of its operation.
At(w, kinds) ==
    /\ pc[w] = "between"
    /\ pos[w] \in Steps(job[w])
    /\ KindOf[job[w]][pos[w]] \in kinds

NextStep(w) == pos' = [pos EXCEPT ![w] = @ + 1]

\* A step that an earlier execution completed is not repeated.
SkipStep(w) ==
    /\ At(w, Kinds)
    /\ \/ step[job[w]][pos[w]] = "succeeded"
       \/ At(w, {"external"}) /\ step[job[w]][pos[w]] # "absent"
    /\ NextStep(w)
    /\ UNCHANGED <<tableVars, permitted, providerVars, processVars, pc, job, answer,
                   controllerVars>>

\* remoteOperationStep up to the call: the step is marked as running before the provider is
\* called.  A step without a known outcome is left for verification.
BeginStep(w) ==
    LET o == job[w]
        k == pos[w]
        go == step[o][k] \notin Unresolved /\ status[o] = "running" /\ o \in permitted
    IN
    /\ At(w, Calls)
    /\ step[o][k] # "succeeded"
    /\ \/ /\ go
          /\ step' = [step EXCEPT ![o][k] = "running"]
          /\ pc' = [pc EXCEPT ![w] = "marked"]
          /\ UNCHANGED answer
       \/ /\ ~go
          /\ step' = [step EXCEPT ![o][k] = IF @ = "absent" THEN "pending" ELSE @]
          /\ pc' = [pc EXCEPT ![w] = "done"]
          /\ answer' = [answer EXCEPT ![w] = IF step[o][k] \in Unresolved THEN "unknown"
                                                                          ELSE "failed"]
    /\ UNCHANGED <<rows, status, execute, processed, locks, committed, mailboxes, permitted,
                   providerVars, processVars, job, pos, controllerVars>>

\* The provider: it performs the call, rejects it with one of the codes that are taken as
\* definite, or nothing certain is learnt; the effect may then still come.  Purelymail's
\* CreateDomain, UpdateDomain and CheckDNS write and then look the domain up: when the list
\* does not show it, they answer verification_required, which remoteOperationStep takes for
\* a rejection of what was performed.
CallProvider(w) ==
    LET o == job[w]
        k == pos[w]
    IN
    /\ pc[w] = "marked"
    /\ called' = [called EXCEPT ![o] = @ + 1]
    /\ \/ \E a \in {"ok", "unknown"} :
            /\ applied' = [applied EXCEPT ![o][k] = @ + 1]
            /\ answer' = [answer EXCEPT ![w] = a]
            /\ UNCHANGED <<inflight, slow, misread>>
       \/ \E a \in {"failed", "unknown"} :
            /\ answer' = [answer EXCEPT ![w] = a]
            /\ UNCHANGED <<applied, inflight, slow, misread>>
       \/ /\ KindOf[o][k] = "readback"
          /\ applied' = [applied EXCEPT ![o][k] = @ + 1]
          /\ misread' = [misread EXCEPT ![o][k] = @ + 1]
          /\ answer' = [answer EXCEPT ![w] = "failed"]
          /\ UNCHANGED <<inflight, slow>>
       \/ /\ slow < MaxSlow
          /\ slow' = slow + 1
          /\ inflight' = inflight \cup {<<o, k>>}
          /\ answer' = [answer EXCEPT ![w] = "unknown"]
          /\ UNCHANGED <<applied, misread>>
    /\ pc' = [pc EXCEPT ![w] = "answered"]
    /\ UNCHANGED <<tableVars, permitted, processVars, job, pos, controllerVars>>

\* remoteOperationStep after the call: the outcome is recorded whatever the row says by now.
RecordStep(w) ==
    LET o == job[w]
        k == pos[w]
    IN
    /\ pc[w] = "answered"
    /\ step' = [step EXCEPT ![o][k] = IF answer[w] = "ok" THEN "succeeded" ELSE answer[w]]
    /\ \/ /\ answer[w] = "ok"
          /\ pc' = [pc EXCEPT ![w] = "between"]
          /\ answer' = [answer EXCEPT ![w] = "none"]
          /\ NextStep(w)
       \/ /\ answer[w] # "ok"
          /\ pc' = [pc EXCEPT ![w] = "done"]
          /\ UNCHANGED <<pos, answer>>
    /\ UNCHANGED <<rows, status, execute, processed, locks, committed, mailboxes, permitted,
                   providerVars, processVars, job, controllerVars>>

\* Recording the outcome fails: the step stays running, the operation becomes unknown.
RecordStepFails(w) ==
    /\ pc[w] = "answered"
    /\ interruptions < MaxInterruptions
    /\ interruptions' = interruptions + 1
    /\ answer' = [answer EXCEPT ![w] = "unknown"]
    /\ pc' = [pc EXCEPT ![w] = "done"]
    /\ UNCHANGED <<tableVars, permitted, providerVars, up, failing, retries, job, pos,
                   controllerVars>>

\* An intermediate local transaction creates a mailbox, locks it and records the step.
CommitStep(w) ==
    LET o == job[w]
        k == pos[w]
    IN
    /\ At(w, {"commit"})
    /\ step[o][k] # "succeeded"
    /\ o \in permitted
    /\ Available({NewMailbox[o]}, o)
    /\ step' = [step EXCEPT ![o][k] = "succeeded"]
    /\ mailboxes' = mailboxes \cup {NewMailbox[o]}
    /\ Acquire({NewMailbox[o]}, o)
    /\ NextStep(w)
    /\ UNCHANGED <<rows, status, execute, processed, committed, permitted,
                   providerVars, processVars, pc, job, answer, controllerVars>>

\* External work is listed for the administrators; execution goes on.
ExternalStep(w) ==
    /\ At(w, {"external"})
    /\ step[job[w]][pos[w]] = "absent"
    /\ step' = [step EXCEPT ![job[w]][pos[w]] = "pending"]
    /\ NextStep(w)
    /\ UNCHANGED <<rows, status, execute, processed, locks, committed, mailboxes, permitted,
                   providerVars, processVars, pc, job, answer, controllerVars>>

AtEnd(w) == pc[w] = "between" /\ pos[w] \notin Steps(job[w])

\* An offboarding notes that it went through all its steps.
NoteProcessed(w) ==
    /\ AtEnd(w)
    /\ Offboard(job[w])
    /\ job[w] \notin processed
    /\ processed' = processed \cup {job[w]}
    /\ UNCHANGED <<rows, status, execute, step, locks, committed, mailboxes, permitted,
                   providerVars, processVars, workerVars, controllerVars>>

\* It then waits for the reports on external work, if some are missing.
AwaitReports(w) ==
    LET o == job[w] IN
    /\ AtEnd(w)
    /\ o \in processed
    /\ \E k \in Steps(o) : step[o][k] \notin Resolved
    /\ pc' = [pc EXCEPT ![w] = "done"]
    /\ answer' = [answer EXCEPT ![w] = "failed"]
    /\ UNCHANGED <<tableVars, permitted, providerVars, processVars, job, pos, controllerVars>>

\* The completing transaction: business data, status and locks change together.
Complete(w) ==
    LET o == job[w] IN
    /\ AtEnd(w)
    /\ Offboard(o) => o \in processed /\ \A k \in Steps(o) : step[o][k] \in Resolved
    /\ o \in permitted
    /\ status[o] = "running"
    /\ committed' = committed \cup {o}
    /\ execute' = [execute EXCEPT ![o] = "succeeded"]
    /\ step' = [step EXCEPT ![o] = [k \in Positions |-> IF @[k] = "running" THEN "succeeded"
                                                                           ELSE @[k]]]
    /\ status' = [status EXCEPT ![o] = "succeeded"]
    /\ Unlock(o)
    /\ pc' = [pc EXCEPT ![w] = "done"]
    /\ answer' = [answer EXCEPT ![w] = "ok"]
    /\ UNCHANGED <<rows, processed, mailboxes, permitted, providerVars, processVars, job, pos,
                   controllerVars>>

\* Execution ends with an error between two steps: a changed revision, a lost permission,
\* a remote read that fails or disagrees, the thirty-minute limit, a shutdown.
StopWithError(w) ==
    /\ pc[w] = "between"
    /\ \E a \in {"failed", "unknown"} : answer' = [answer EXCEPT ![w] = a]
    /\ pc' = [pc EXCEPT ![w] = "done"]
    /\ UNCHANGED <<tableVars, permitted, providerVars, processVars, job, pos, controllerVars>>

\* Mutant: steps that succeeded are not looked at.
OnlyPrepared(o) == o \in Prepared

HasEffects(o) == o \in Prepared \/ \E k \in Steps(o) : step[o][k] = "succeeded"

\* Mutant: an outcome that is not known counts as a failure.
OutcomeWithoutUnknown(o, a) == IF HasEffects(o) THEN "needs_action" ELSE "failed"

\* The status an execution ends with.
Outcome(o, a) ==
    CASE a = "unknown" -> "unknown"
      [] a = "failed" /\ HasEffects(o) -> "needs_action"
      [] OTHER -> "failed"

\* Mutant: an operation that needs action gives its locks back.
KeepsUnknownOnly(s) == s = "unknown"

Keeps(s) == s \in {"unknown", "needs_action"}

\* Mutant: the status is not read again before the result is written.
FinishBlindly(w) ==
    LET o == job[w]
        s == Outcome(o, answer[w])
    IN
    /\ pc[w] = "done"
    /\ status' = [status EXCEPT ![o] = s]
    /\ execute' = [execute EXCEPT ![o] = IF s = "unknown" THEN "unknown" ELSE "failed"]
    /\ IF Keeps(s) THEN UNCHANGED locks ELSE Unlock(o)
    /\ Leave(w, "idle")
    /\ UNCHANGED <<rows, step, processed, committed, mailboxes, permitted,
                   providerVars, processVars, controllerVars>>

\* The end of executeOperation.
Finish(w) ==
    LET o == job[w]
        s == Outcome(o, answer[w])
    IN
    /\ pc[w] = "done"
    /\ \/ /\ status[o] = "succeeded"
          /\ UNCHANGED <<status, execute, locks>>
       \/ /\ status[o] # "succeeded"
          /\ status' = [status EXCEPT ![o] = s]
          /\ execute' = [execute EXCEPT ![o] = IF s = "unknown" THEN "unknown" ELSE "failed"]
          /\ IF Keeps(s) THEN UNCHANGED locks ELSE Unlock(o)
    /\ Leave(w, "idle")
    /\ UNCHANGED <<rows, step, processed, committed, mailboxes, permitted,
                   providerVars, processVars, controllerVars>>

\* Mutant: a worker that fails returns without telling main.
WorkerFailsSilently(w) ==
    /\ up
    /\ pc[w] \in {"idle", "selected", "claimed", "done"}
    /\ interruptions < MaxInterruptions
    /\ interruptions' = interruptions + 1
    /\ Leave(w, "stopped")
    /\ UNCHANGED <<tableVars, permitted, providerVars, up, failing, retries, controllerVars>>

\* A database statement of the worker fails: the worker returns and main shuts down.
WorkerFails(w) ==
    /\ up
    /\ pc[w] \in {"idle", "selected", "claimed", "done"}
    /\ interruptions < MaxInterruptions
    /\ interruptions' = interruptions + 1
    /\ failing' = TRUE
    /\ Leave(w, "stopped")
    /\ UNCHANGED <<tableVars, permitted, providerVars, up, retries, controllerVars>>

-----------------------------------------------------------------------------
(* ControlOperation *)

NoUnresolved(o) ==
    execute[o] \notin Unresolved /\ \A k \in Steps(o) : step[o][k] \notin Unresolved

\* Mutant: an operation is cancelled while it runs.
CancelRunning(o) ==
    /\ up
    /\ Live(o)
    /\ status' = [status EXCEPT ![o] = "cancelled"]
    /\ Unlock(o)
    /\ UNCHANGED <<rows, execute, step, processed, committed, mailboxes, permitted,
                   providerVars, processVars, workerVars, controllerVars>>

Cancel(o) ==
    /\ up
    /\ status[o] \in {"queued", "failed", "needs_action"}
    /\ Local(o) => status[o] # "needs_action"
    /\ ~Local(o) => NoUnresolved(o)
    /\ Offboard(o) => o \in processed
    /\ status' = [status EXCEPT ![o] = "cancelled"]
    /\ Unlock(o)
    /\ UNCHANGED <<rows, execute, step, processed, committed, mailboxes, permitted,
                   providerVars, processVars, workerVars, controllerVars>>

\* An operation that failed, or was reconciled, is queued again with all its locks.
Retry(o) ==
    /\ up
    /\ status[o] = "failed" \/ (~Local(o) /\ status[o] = "needs_action")
    /\ ~Local(o) => NoUnresolved(o)
    /\ o \in permitted
    /\ Available(Needed(o), o)
    /\ retries[o] < MaxRetries
    /\ retries' = [retries EXCEPT ![o] = @ + 1]
    /\ Acquire(Needed(o), o)
    /\ execute' = [execute EXCEPT ![o] = IF @ = "failed" THEN "pending" ELSE @]
    /\ step' = [step EXCEPT ![o] = [k \in Positions |-> IF @[k] = "failed" THEN "pending"
                                                                         ELSE @[k]]]
    /\ status' = [status EXCEPT ![o] = "queued"]
    /\ UNCHANGED <<rows, processed, committed, mailboxes, permitted, providerVars,
                   up, failing, interruptions, workerVars, controllerVars>>

\* A local operation left unknown did not commit.
ReconcileLocal(o) ==
    /\ up
    /\ Local(o)
    /\ status[o] = "unknown"
    /\ execute' = [execute EXCEPT ![o] = IF @ = "unknown" THEN "failed" ELSE @]
    /\ status' = [status EXCEPT ![o] = "failed"]
    /\ Unlock(o)
    /\ UNCHANGED <<rows, step, processed, committed, mailboxes, permitted,
                   providerVars, processVars, workerVars, controllerVars>>

\* Reconciling a remote operation starts from the operation as the handler read it.
ViewOperation(c, o) ==
    /\ up
    /\ cpc[c] = "idle"
    /\ ~Local(o)
    /\ status[o] = "unknown"
    /\ cpc' = [cpc EXCEPT ![c] = "viewed"]
    /\ cop' = [cop EXCEPT ![c] = o]
    /\ UNCHANGED <<tableVars, permitted, providerVars, processVars, workerVars, todo, verdict>>

\* reconcileRemoteSteps reads the operation again and goes through its unresolved steps.
ListSteps(c) ==
    /\ cpc[c] = "viewed"
    /\ todo' = [todo EXCEPT ![c] = {k \in Steps(cop[c]) : step[cop[c]][k] \in Unresolved}]
    /\ cpc' = [cpc EXCEPT ![c] = "reading"]
    /\ UNCHANGED <<tableVars, permitted, providerVars, processVars, workerVars, cop, verdict>>

Current(c) == CHOOSE k \in todo[c] : \A j \in todo[c] : k <= j

\* It reads the provider to learn whether the step took effect.
ReadProvider(c) ==
    /\ cpc[c] = "reading"
    /\ todo[c] # {}
    /\ verdict' = [verdict EXCEPT ![c] =
                     IF applied[cop[c]][Current(c)] > 0 THEN "succeeded" ELSE "failed"]
    /\ cpc' = [cpc EXCEPT ![c] = "read"]
    /\ UNCHANGED <<tableVars, permitted, providerVars, processVars, workerVars, cop, todo>>

\* It records what it read if the step is unresolved at that time.
RecordVerdict(c) ==
    LET o == cop[c]
        k == Current(c)
    IN
    /\ cpc[c] = "read"
    /\ step' = [step EXCEPT ![o][k] = IF @ \in Unresolved THEN verdict[c] ELSE @]
    /\ todo' = [todo EXCEPT ![c] = @ \ {k}]
    /\ cpc' = [cpc EXCEPT ![c] = "reading"]
    /\ verdict' = [verdict EXCEPT ![c] = "none"]
    /\ UNCHANGED <<rows, status, execute, processed, locks, committed, mailboxes, permitted,
                   providerVars, processVars, workerVars, cop>>

\* The controller is done with its request.
Answered(c) ==
    /\ cpc' = [cpc EXCEPT ![c] = "idle"]
    /\ cop' = [cop EXCEPT ![c] = NoOp]
    /\ todo' = [todo EXCEPT ![c] = {}]
    /\ verdict' = [verdict EXCEPT ![c] = "none"]

\* When nothing is unresolved, an administrator may retry or cancel the operation.
FinishReconcile(c) ==
    LET o == cop[c] IN
    /\ cpc[c] = "reading"
    /\ todo[c] = {}
    /\ status[o] = "unknown"
    /\ \A k \in Steps(o) : step[o][k] \notin Unresolved
    /\ execute' = [execute EXCEPT ![o] = "failed"]
    /\ status' = [status EXCEPT ![o] = "needs_action"]
    /\ Answered(c)
    /\ UNCHANGED <<rows, step, processed, locks, committed, mailboxes, permitted,
                   providerVars, processVars, workerVars>>

\* The request ends with an error at any point: the provider cannot be read, the step has no
\* independent check, a revision or the status changed, the client went away.
AbandonReconcile(c) ==
    /\ cpc[c] # "idle"
    /\ Answered(c)
    /\ UNCHANGED <<tableVars, permitted, providerVars, processVars, workerVars>>

\* Mutant: reports complete an offboarding that did not go through all its steps.
ConfirmUnprocessed(o, k) ==
    /\ up
    /\ status[o] = "needs_action"
    /\ k \in Steps(o) /\ KindOf[o][k] = "external"
    /\ step[o][k] = "pending"
    /\ step' = [step EXCEPT ![o][k] = "external_reported"]
    /\ IF \A j \in Steps(o) : step'[o][j] \in Resolved \cup {"absent"}
         THEN /\ status' = [status EXCEPT ![o] = "succeeded"]
              /\ execute' = [execute EXCEPT ![o] = "succeeded"]
              /\ Unlock(o)
         ELSE UNCHANGED <<status, execute, locks>>
    /\ UNCHANGED <<rows, processed, committed, mailboxes, permitted,
                   providerVars, processVars, workerVars, controllerVars>>

\* ConfirmExternalOperation: an administrator reports external work as done; with the last
\* report the operation has succeeded.
Confirm(o, k) ==
    /\ up
    /\ status[o] = "needs_action"
    /\ NoUnresolved(o)
    /\ k \in Steps(o) /\ KindOf[o][k] = "external"
    /\ step[o][k] = "pending"
    /\ step' = [step EXCEPT ![o][k] = "external_reported"]
    /\ \/ /\ o \in processed
          /\ \A j \in Steps(o) : step'[o][j] \in Resolved \cup {"absent"}
          /\ status' = [status EXCEPT ![o] = "succeeded"]
          /\ execute' = [execute EXCEPT ![o] = "succeeded"]
          /\ Unlock(o)
       \/ /\ \/ o \notin processed
             \/ \E j \in Steps(o) : step'[o][j] \notin Resolved \cup {"absent"}
          /\ UNCHANGED <<status, execute, locks>>
    /\ UNCHANGED <<rows, processed, committed, mailboxes, permitted,
                   providerVars, processVars, workerVars, controllerVars>>

\* ReportLostCredentialCleanup: the identifier of a new credential was lost; the
\* administrator removed it by hand, and the operation ends.
ReportLostCredentialCleanup(o, k) ==
    /\ up
    /\ status[o] = "unknown"
    /\ k \in Steps(o) /\ KindOf[o][k] = "credential"
    /\ step[o][k] = "unknown"
    /\ \A j \in Steps(o) \ {k} : step[o][j] \notin Unresolved
    /\ step' = [step EXCEPT ![o][k] = "external_reported"]
    /\ execute' = [execute EXCEPT ![o] = "failed"]
    /\ status' = [status EXCEPT ![o] = "cancelled"]
    /\ Unlock(o)
    /\ UNCHANGED <<rows, processed, committed, mailboxes, permitted,
                   providerVars, processVars, workerVars, controllerVars>>

-----------------------------------------------------------------------------
(* The process and its surroundings *)

Down ==
    /\ up' = FALSE
    /\ failing' = FALSE
    /\ pc' = [w \in Workers |-> "idle"]
    /\ job' = [w \in Workers |-> NoOp]
    /\ pos' = [w \in Workers |-> 1]
    /\ answer' = [w \in Workers |-> "none"]
    /\ cpc' = [c \in Controllers |-> "idle"]
    /\ cop' = [c \in Controllers |-> NoOp]
    /\ todo' = [c \in Controllers |-> {}]
    /\ verdict' = [c \in Controllers |-> "none"]
    /\ UNCHANGED <<tableVars, permitted, providerVars, retries>>

\* The process stops anywhere.
Crash ==
    /\ up
    /\ interruptions < MaxInterruptions
    /\ interruptions' = interruptions + 1
    /\ Down

\* After a worker failed, the others return when their operation ends, and the process exits.
Shutdown ==
    /\ up /\ failing
    /\ \A w \in Workers : pc[w] \notin Busy
    /\ UNCHANGED interruptions
    /\ Down

\* Mutant: the error code is written where the status belongs.
InterruptedCode(s) == IF s = "running" THEN "process_interrupted" ELSE s

Interrupted(s) == IF s = "running" THEN "unknown" ELSE s

\* Mutant: interrupted operations are simply queued again.
RequeueInterrupted ==
    /\ ~up
    /\ up' = TRUE
    /\ status' = [o \in Ops |-> IF status[o] = "running" THEN "queued" ELSE status[o]]
    /\ step' = [o \in Ops |-> [k \in Positions |-> IF step[o][k] = "running" THEN "pending"
                                                                             ELSE step[o][k]]]
    /\ UNCHANGED <<rows, execute, processed, locks, committed, mailboxes, permitted,
                   providerVars, failing, interruptions, retries, workerVars, controllerVars>>

\* StartOperations: whatever was running has an unknown outcome.
StartOperations ==
    /\ ~up
    /\ up' = TRUE
    /\ status' = [o \in Ops |-> Interrupted(status[o])]
    /\ execute' = [o \in Ops |-> Interrupted(execute[o])]
    /\ step' = [o \in Ops |-> [k \in Positions |-> Interrupted(step[o][k])]]
    /\ UNCHANGED <<rows, processed, locks, committed, mailboxes, permitted, providerVars,
                   failing, interruptions, retries, workerVars, controllerVars>>

\* The actor of an operation is disabled, or its role loses a permission, or regains it.
ChangePermission(o) ==
    /\ up
    /\ o \in Demotable
    /\ \/ o \in permitted /\ permitted' = permitted \ {o}
       \/ o \notin permitted /\ permitted' = permitted \cup {o}
    /\ UNCHANGED <<tableVars, providerVars, processVars, workerVars, controllerVars>>

\* A provider completes a call whose client has given up.
LateEffect ==
    /\ \E x \in inflight :
        /\ inflight' = inflight \ {x}
        /\ applied' = [applied EXCEPT ![x[1]][x[2]] = @ + 1]
    /\ UNCHANGED <<tableVars, permitted, slow, misread, called, processVars, workerVars,
                   controllerVars>>

-----------------------------------------------------------------------------

WorkerStep(w) ==
    \/ Select(w) \/ Claim(w) \/ StartExecute(w) \/ SkipStep(w) \/ BeginStep(w)
    \/ CallProvider(w) \/ RecordStep(w) \/ CommitStep(w) \/ ExternalStep(w)
    \/ NoteProcessed(w) \/ AwaitReports(w) \/ Complete(w) \/ StopWithError(w) \/ Finish(w)

ControllerStep(c) ==
    \/ \E o \in Ops : ViewOperation(c, o)
    \/ ListSteps(c) \/ ReadProvider(c) \/ RecordVerdict(c) \/ FinishReconcile(c)
    \/ AbandonReconcile(c)

AdministratorStep(o) ==
    \/ QueueOperation(o) \/ Cancel(o) \/ Retry(o) \/ ReconcileLocal(o)
    \/ \E k \in Positions : Confirm(o, k) \/ ReportLostCredentialCleanup(o, k)
    \/ ChangePermission(o)

Next ==
    \/ \E w \in Workers : WorkerStep(w) \/ RecordStepFails(w) \/ WorkerFails(w)
    \/ \E c \in Controllers : ControllerStep(c)
    \/ \E o \in Ops : AdministratorStep(o)
    \/ Crash \/ Shutdown \/ StartOperations \/ LateEffect

Spec == Init /\ [][Next]_vars

\* Workers run, the process is started again after it stopped, and it exits when it must.
FairSpec ==
    /\ Spec
    /\ \A w \in Workers : WF_vars(WorkerStep(w))
    /\ WF_vars(Shutdown)
    /\ WF_vars(StartOperations)

-----------------------------------------------------------------------------
(* Properties *)

\* An operation that is queued, running or waiting for an administrator holds the lock of
\* every resource it touches, among them the mailbox it created; any other holds none
\* (QueueOperation, executeOperation and the control actions keep operation_locks in step
\* with the status).
LocksFollowStatus ==
    \A o \in Ops :
        IF Live(o) THEN \A r \in Needed(o) : locks[r] = o
                   ELSE \A r \in Resources : locks[r] # o

\* The completing transaction is one with the status (the comment above the reconciliation
\* of local operations relies on it): an operation reported in any other way has not
\* committed, whenever the process stopped.
CommittedIsSucceeded == \A o \in committed : status[o] = "succeeded"

\* A step whose outcome is not known keeps its operation running or unknown, and so locked,
\* until somebody learnt the outcome.
AmbiguityHeld ==
    \A o \in Ops : \A k \in Positions :
        step[o][k] \in Unresolved => status[o] \in Unresolved

\* An operation reported as succeeded did everything: its provider calls took effect, its
\* mailbox exists, its external work was reported; nothing was skipped by a retry, a
\* reconciliation or the report that completed it.
SuccessIsTruthful ==
    \A o \in Ops : status[o] = "succeeded" =>
        \A k \in Steps(o) :
            CASE KindOf[o][k] \in Calls    -> applied[o][k] > 0
              [] KindOf[o][k] = "commit"   -> NewMailbox[o] \in mailboxes
              [] KindOf[o][k] = "external" -> step[o][k] = "external_reported"

\* What a step did at a provider that answered as if it had rejected it; only a call that
\* reads back what it wrote may do so.
Overlooked(o, k) == IF KindOf[o][k] = "readback" THEN misread[o][k] ELSE 0

\* For one request a provider performs a step at most once, through interruptions,
\* reconciliations and retries, but for calls that took effect after they had been given
\* up, and for changes of a domain that were answered as rejected because reading them back
\* did not show them: those, and only those, are performed again by a retry.  It holds while
\* one administrator reconciles at a time.
StepAppliedOnce ==
    \A o \in Ops : \A k \in Positions :
        /\ applied[o][k] <= 1 + slow + Overlooked(o, k)
        /\ applied[o][k] > 0 =>
             \A p \in Ops \ {o} : RequestOf[p] = RequestOf[o] => applied[p][k] = 0

\* An operation reported as failed left nothing behind at a provider or in the database but
\* changes of a domain that were answered as rejected; whatever else was done, it is reported
\* as needing action.  It holds while providers complete no call after it was given up, and
\* under the condition of StepAppliedOnce.
FailedLeavesOverlooked ==
    \A o \in Ops : status[o] = "failed" /\ slow = 0 =>
        \A k \in Steps(o) : applied[o][k] = Overlooked(o, k) /\ step[o][k] # "succeeded"

\* docs/architecture.md, "Ambiguity Containment": ambiguous steps are verified and "never
\* re-executed blindly", so a step that a provider performed is not executed again, however
\* many administrators act.
NeverRepeatedBlindly == \A o \in Ops : \A k \in Positions : applied[o][k] <= 1

\* A queued operation is taken up and its execution ends, although workers may fail and the
\* process may stop.
QueuedIsExecuted ==
    \A o \in Ops : status[o] \in {"queued", "running"} ~>
                   status[o] \notin {"queued", "running"}

\* The engine implements the contract of Reservations.
PhaseOf(o) ==
    CASE Live(o)             -> "open"
      [] status[o] \in Final -> "closed"
      [] OTHER               -> "idle"

HeldBy(o) == {r \in Resources : locks[r] = o}

Contract == INSTANCE Reservations WITH
    Tasks <- Ops,
    Needs <- KeysOf,
    phase <- [o \in Ops |-> PhaseOf(o)],
    held <- [o \in Ops |-> HeldBy(o)],
    calls <- called

FulfilsReservations == Contract!Spec
=================================================================================
