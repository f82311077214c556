---------------------------- MODULE Credentials ----------------------------
(***************************************************************************)
(* The credentials of a mailbox: the app passwords Mailhearth creates and  *)
(* revokes at the provider, the passwords administrators enter, the        *)
(* endpoints that use them, and every operation that changes them          *)
(* (core/managed_mailboxes.go, core/entered_creation.go,                   *)
(* core/endpoints.go, core/endpoint_views.go, core/mailbox_lifecycle.go,   *)
(* core/connection_candidates.go, core/remote_access.go), with what an     *)
(* administrator does about an operation that failed or whose outcome is   *)
(* unknown (core/credential_reconciliation.go, core/credential_cleanup.go, *)
(* core/remote_operation_controls.go, core/operation_secrets.go).          *)
(*                                                                         *)
(* One connection to Purelymail and one mailbox.  Every operation holds    *)
(* the lock of the connection or of the mailbox as long as it is live (the *)
(* subject of Operations), so one of them executes at a time.  A statement *)
(* or a transaction of the database is one step, so is a call of the       *)
(* provider, and so are the logins that verify a secret.  A secret is a    *)
(* number; 0 is a secret that was never valid.                             *)
(***************************************************************************)
EXTENDS Naturals, Sequences, FiniteSetsExt

CONSTANTS
  Ops, None,
  Protocols,     \* protocols of an endpoint
  IMAP,          \* the one a mailbox cannot do without
  MaxKeys,       \* bound on secrets
  MaxCreds,      \* bound on rows of credentials
  MaxTrouble,    \* bound on calls and saves that fail and executions that stop
  MaxForeign,    \* bound on secrets that others make invalid
  MaxChanges,    \* bound on changes of the mailbox or the connection made without an operation
  Initially      \* the rows at the beginning, the account, and what may be requested

ASSUME NoneIsNoOp == None \notin Ops
ASSUME IMAPIsProtocol == IMAP \in Protocols
ASSUME LimitsAreNat == {MaxKeys, MaxCreds, MaxTrouble, MaxForeign, MaxChanges} \subseteq Nat

VARIABLES
  conn,      \* the connection: enabled, the templates that are enabled, revision
  mailbox,   \* its row
  endpoint,  \* its endpoints, with the revision of the connection they were checked with
  cred,      \* rows of credentials
  op,        \* operations
  step,      \* their steps
  run,       \* the execution that is under way
  account,   \* the provider: whether the mailbox exists, its password, all valid secrets
  late,      \* calls the provider may still perform although the client gave up
  fresh,     \* the next secret
  trouble, foreign, changes,
  maker,     \* history: the operation that had an app password created
  lost,      \* history: secrets that became invalid otherwise than by revocation
  setter,    \* history: the operation whose reset set the password
  named      \* history: secrets of rows that an unregistration listed as to be revoked by hand

localVars == <<conn, mailbox, endpoint, cred>>
opVars    == <<op, step, run>>
bounds    == <<trouble, foreign, changes>>
history   == <<maker, lost, setter, named>>
remoteVars == <<account, late, fresh>>
vars == <<localVars, opVars, remoteVars, bounds, history>>

Keys  == 1..MaxKeys
Creds == 1..MaxCreds
New   == MaxCreds + 1     \* the secret that is entered with the request

Live == {"queued", "running", "needs_action", "unknown"}
Additions == {"mailbox.create", "mailbox.attach"}
Remote == {"mailbox.connect", "mailbox.rotate", "mailbox.resetPassword", "mailbox.deleteRemote",
           "mailbox.revokeRemoteAccess"}
Transactional == {"mailbox.endpoints", "connection.configure"}
Kinds == Additions \cup Remote \cup Transactional \cup {"mailbox.reactivate"}

Steps == ({"mailbox.reserve", "mailbox.create", "credential.create", "credential.entered", "mailbox.resetPassword",
           "mailbox.delete", "remoteAccess", "local.commit"} \X {0}) \cup ({"credential.revoke"} \X Creds)

\* Rows: of the connection, the mailbox, an endpoint, a credential.
ConnectionRow == [enabled : BOOLEAN, templates : SUBSET Protocols, revision : Nat]
MailboxRow == [status : {"none", "active", "suspended", "archived"}, mode : {"api", "external"},
                remote : {"unknown", "present", "missing", "external"}, revision : Nat]
EndpointRow == [mode : {"disabled", "inherit"}, cred : 0..MaxCreds, checked : Nat]
RowOf == [source : {"managed", "entered"}, state : {"candidate", "active", "revocation_pending", "revoked", "retired"},
          key : 0..MaxKeys, secret : BOOLEAN]
Account == [exists : BOOLEAN, primary : 0..MaxKeys, accepted : SUBSET Keys]

Request == [kind : Kinds, entered : BOOLEAN, secret : 0..MaxKeys, want : [Protocols -> 0..New], templates : SUBSET Protocols]

\* expected, conn: revisions of the mailbox and the connection the request is about.
\* cand: the credential its step credential.create saved; active: the revision of the
\* mailbox after it was activated; private: operation_private; claim: claim_secret_enc.
Fresh(r, n) == [request |-> r, status |-> "queued", expected |-> n, conn |-> conn.revision, cand |-> 0,
                active |-> 0, private |-> 0, claim |-> 0, claimed |-> 0, expired |-> FALSE]
Settled(status) == [request |-> None, status |-> status, expected |-> 0, conn |-> 0, cand |-> 0,
                    active |-> 0, private |-> 0, claim |-> 0, claimed |-> 0, expired |-> FALSE]
NotRun == [s \in Steps |-> "none"]
Idle == [op |-> None, pc |-> "idle", mailbox |-> 0, conn |-> 0, old |-> 0, secret |-> 0, answer |-> "none"]

Unregistered == [status |-> "none", mode |-> "external", remote |-> "external", revision |-> 0]
Off == [mode |-> "disabled", cred |-> 0, checked |-> 0]

Busy == \E o \in Ops : op[o].status \in Live
kind == op[run.op].request.kind

-----------------------------------------------------------------------------
(* Reading the rows. *)

Enabled == {p \in Protocols : endpoint[p].mode = "inherit"}

\* The endpoints an app password is for: those without an entered credential.
Managed == {p \in Enabled : endpoint[p].cred = 0 \/ cred[endpoint[p].cred].source = "managed"}

\* ResolveEndpoint
Usable(p) ==
  /\ conn.enabled /\ p \in Enabled /\ p \in conn.templates
  /\ endpoint[p].cred # 0 /\ cred[endpoint[p].cred].state = "active" /\ cred[endpoint[p].cred].secret

Accepted(k) == k \in account.accepted
Works(p) == Usable(p) /\ Accepted(cred[endpoint[p].cred].key)

OfState(S) == {c \in DOMAIN cred : cred[c].source = "managed" /\ cred[c].state \in S}

\* checkManagedCredentialTargets
Targets(rotate) == Managed # {} /\ (rotate => OfState({"active", "revocation_pending"}) # {})

\* managedEndpointsReady
Ready == /\ Managed # {}
         /\ \A p \in Managed : /\ endpoint[p].cred # 0 /\ cred[endpoint[p].cred].state = "active"
                               /\ endpoint[p].checked = conn.revision

\* validateMailboxManagementVersions
Versions(o) == conn.enabled /\ conn.revision = op[o].conn

\* validateManagedMailboxRevision, also for the mutation or the addition of the others
Revision(o) ==
  LET own == op[o].cand # 0 /\ op[o].cand \in DOMAIN cred /\ cred[op[o].cand].state = "active"
  IN  mailbox.revision = IF own THEN op[o].active ELSE op[o].expected

Committed(o) == step[o][<<"local.commit", 0>>] = "succeeded"

\* What has to hold before an operation is executed, and before it is retried.
Current(o) ==
  CASE op[o].request.kind = "mailbox.create" ->
         Versions(o) /\ (Committed(o) => mailbox.status = "active" /\ mailbox.revision = op[o].expected)
    [] op[o].request.kind = "mailbox.attach" ->
         Committed(o) => mailbox.status = "active" /\ mailbox.revision = op[o].expected
    [] op[o].request.kind \in Remote -> Versions(o) /\ mailbox.status # "none" /\ Revision(o)
    [] op[o].request.kind = "connection.configure" -> conn.revision = op[o].conn
    [] OTHER -> mailbox.status # "none" /\ mailbox.revision = op[o].expected

-----------------------------------------------------------------------------
(* Requests. *)

\* The endpoints a request may ask for: off, a credential that is active, or a new one.
Wanted == {w \in [Protocols -> 0..New] : \A p \in Protocols :
             \/ w[p] \in {0, New} /\ (w[p] = New => p \in conn.templates)
             \/ w[p] \in DOMAIN cred /\ p \in conn.templates /\ cred[w[p]].state = "active" /\ cred[w[p]].secret}
NoWish == [p \in Protocols |-> 0]
Entered == {w \in Wanted : w[IMAP] = New /\ \A p \in Protocols : w[p] \in {0, New}}

\* Passwords are entered as somebody knows or thinks to know them.
Typed == {0, account.primary}

\* What a request of each kind asks for.
Fits(r) ==
  CASE r.kind = "mailbox.create" -> /\ r.templates = {}
                                    /\ IF r.entered THEN r.secret = fresh /\ r.want \in Entered
                                                    ELSE r.secret = 0 /\ r.want = NoWish
    [] r.kind = "mailbox.attach" -> r.templates = {} /\ r.entered /\ r.secret \in Typed /\ r.want \in Entered
    [] r.kind = "mailbox.endpoints" -> /\ r.templates = {} /\ ~r.entered /\ r.secret \in Typed
                                       /\ r.secret # 0 => \E p \in Protocols : r.want[p] = New
    [] r.kind = "connection.configure" -> ~r.entered /\ r.secret = 0 /\ r.want = NoWish
    [] OTHER -> r.templates = {} /\ ~r.entered /\ r.secret = 0 /\ r.want = NoWish

Requests(k) == {r \in [kind : {k}, entered : BOOLEAN, secret : Typed \cup {fresh}, want : Wanted,
                       templates : SUBSET Protocols] : Fits(r)}

\* prepareMailboxManagement and the preparations of the other kinds
Acceptable(k) ==
  CASE k \in Additions -> mailbox.status = "none" /\ conn.enabled
    [] k \in {"mailbox.connect", "mailbox.rotate"} ->
         mailbox.mode = "api" /\ mailbox.remote = "present" /\ conn.enabled /\ Targets(k = "mailbox.rotate")
    [] k \in {"mailbox.resetPassword", "mailbox.deleteRemote"} ->
         mailbox.mode = "api" /\ mailbox.remote = "present" /\ conn.enabled
    [] k = "mailbox.reactivate" -> mailbox.status = "suspended"
    [] k = "connection.configure" -> TRUE
    [] OTHER -> mailbox.status # "none"

\* QueueOperation.  A mailbox that is to be deleted is archived with the request.
Queue(o, k) ==
  /\ op[o].status = "none" /\ ~Busy /\ Acceptable(k)
  /\ \E r \in Requests(k) :
       /\ r.secret = fresh => fresh < MaxKeys
       /\ fresh' = IF r.secret = fresh THEN fresh + 1 ELSE fresh
       /\ mailbox' = IF k = "mailbox.deleteRemote" THEN [mailbox EXCEPT !.status = "archived", !.revision = @ + 1]
                     ELSE mailbox
       /\ op' = [op EXCEPT ![o] = Fresh(r, mailbox'.revision)]
  /\ UNCHANGED <<conn, endpoint, cred, step, run, account, late, bounds, history>>

-----------------------------------------------------------------------------
(* Execution: how it begins, moves and ends. *)

At(pc) == run.op # None /\ run.pc = pc
Goto(pc) == run' = [run EXCEPT !.pc = pc, !.answer = "none"]
Done(s) == step[run.op][<<s, 0>>] = "succeeded"

\* Preparing an addition or a mutation is a step that succeeded.
Effects(o) == \/ op[o].request.kind \in Additions \cup {"mailbox.deleteRemote", "mailbox.reactivate"}
              \/ \E s \in Steps : step[o][s] = "succeeded"

\* The last transaction of executeOperation for an execution that failed.
Conclude(unknown) ==
  /\ op' = [op EXCEPT ![run.op].status = IF unknown THEN "unknown"
                                         ELSE IF Effects(run.op) THEN "needs_action" ELSE "failed"]
  /\ run' = Idle

Fail == Conclude(FALSE) /\ UNCHANGED <<localVars, step, remoteVars, bounds, history>>

\* A check that does not hold, or one that cannot be made: a read, a login or a
\* transaction may fail.
FailUnless(ok) ==
  /\ ok => trouble < MaxTrouble
  /\ trouble' = IF ok THEN trouble + 1 ELSE trouble
  /\ Conclude(FALSE) /\ UNCHANGED <<localVars, step, remoteVars, foreign, changes, history>>

\* completeLocalOperation
Succeeded(o) == [op EXCEPT ![o].status = "succeeded", ![o].request = None, ![o].private = 0]

Execute(o) ==
  /\ op[o].status = "queued" /\ run = Idle
  /\ op' = [op EXCEPT ![o].status = "running"]
  /\ run' = [Idle EXCEPT !.op = o, !.pc = "started"]
  /\ UNCHANGED <<localVars, step, remoteVars, bounds, history>>

First(o) ==
  CASE op[o].request.kind = "mailbox.create" -> IF Committed(o) THEN "complete" ELSE "reserve"
    [] op[o].request.kind \in {"mailbox.connect", "mailbox.rotate"} -> "candidate"
    [] op[o].request.kind = "mailbox.resetPassword" -> "password"
    [] op[o].request.kind = "mailbox.deleteRemote" -> "mailbox.delete"
    [] op[o].request.kind = "mailbox.revokeRemoteAccess" -> "external"
    [] OTHER -> IF Committed(o) THEN "complete" ELSE "check"

\* executeMailboxManagement up to the switch, and what the others read first
Start ==
  /\ At("started") /\ Current(run.op)
  /\ run' = [run EXCEPT !.pc = First(run.op), !.mailbox = mailbox.revision, !.conn = conn.revision]
  /\ UNCHANGED <<localVars, op, step, remoteVars, bounds, history>>
StartFails == At("started") /\ ~Current(run.op) /\ Fail

\* An addition or a reactivation that is committed ends when its groups are done.
Complete ==
  /\ At("complete") /\ Current(run.op)
  /\ op' = Succeeded(run.op) /\ run' = Idle
  /\ UNCHANGED <<localVars, step, remoteVars, bounds, history>>

\* The process stops and starts again, or the context of the execution ends.
Interrupt ==
  /\ run.op # None /\ trouble < MaxTrouble /\ trouble' = trouble + 1
  /\ op' = [op EXCEPT ![run.op].status = "unknown"]
  /\ step' = [step EXCEPT ![run.op] = [s \in Steps |-> IF @[s] = "running" THEN "unknown" ELSE @[s]]]
  /\ run' = Idle
  /\ UNCHANGED <<localVars, remoteVars, foreign, changes, history>>

-----------------------------------------------------------------------------
(* Calls of the provider: remoteOperationStep.  run.pc is the step's key.  *)

Calls == {"mailbox.create", "credential.create", "credential.revoke", "mailbox.resetPassword", "mailbox.delete"}
Step == <<run.pc, run.old>>
After(s) == CASE s = "mailbox.create" -> "confirm"
              [] s = "credential.create" -> "verify"
              [] s = "credential.revoke" -> "refused"
              [] s = "mailbox.resetPassword" -> "claim"
              [] s = "mailbox.delete" -> "gone"

\* A step without a known outcome is not repeated.
Begin ==
  /\ run.op # None /\ run.pc \in Calls /\ run.answer = "none"
  /\ CASE step[run.op][Step] = "succeeded" -> Goto(After(run.pc)) /\ UNCHANGED <<op, step>>
       [] step[run.op][Step] \in {"running", "unknown"} -> Conclude(TRUE) /\ UNCHANGED step
       [] OTHER -> /\ step' = [step EXCEPT ![run.op][Step] = "running"]
                   /\ run' = [run EXCEPT !.answer = "calling"] /\ UNCHANGED op
  /\ UNCHANGED <<localVars, remoteVars, bounds, history>>

\* What a call does to the account.
Possible(call) == account.exists # (call.name = "mailbox.create")
Effect(call) ==
  CASE call.name = "mailbox.create" -> [exists |-> TRUE, primary |-> call.key, accepted |-> {call.key}]
    [] call.name = "credential.create" -> [account EXCEPT !.accepted = @ \cup {call.key}]
    [] call.name = "credential.revoke" -> [account EXCEPT !.accepted = @ \ {call.key}]
    [] call.name = "mailbox.resetPassword" ->
         [account EXCEPT !.primary = call.key, !.accepted = (@ \ {account.primary}) \cup {call.key}]
    [] call.name = "mailbox.delete" -> [exists |-> FALSE, primary |-> 0, accepted |-> {}]

Perform(call) ==
  /\ account' = Effect(call)
  /\ lost' = IF call.name = "credential.revoke" THEN lost ELSE lost \cup (account.accepted \ Effect(call).accepted)
  /\ setter' = CASE call.name = "mailbox.resetPassword" -> call.op
                 [] call.name \in {"mailbox.create", "mailbox.delete"} -> None
                 [] OTHER -> setter

Call == [name |-> run.pc, op |-> run.op,
         key |-> CASE run.pc = "credential.create" -> fresh
                   [] run.pc = "credential.revoke" -> cred[run.old].key
                   [] run.pc = "mailbox.delete" -> 0
                   [] OTHER -> op[run.op].private]

Answer(a) == run' = [run EXCEPT !.answer = a, !.secret = IF run.pc = "credential.create" THEN Call.key ELSE 0]

\* The answer arrives, is lost, or the client gives up before the call is performed, if it
\* ever is.  A secret may be accepted for a while after its revocation was confirmed.
Provider ==
  /\ run.pc \in Calls /\ run.answer = "calling" /\ Possible(Call)
  /\ IF run.pc = "credential.create"
     THEN /\ fresh < MaxKeys /\ fresh' = fresh + 1 /\ maker' = [maker EXCEPT ![fresh] = run.op]
     ELSE UNCHANGED <<fresh, maker>>
  /\ \/ Perform(Call) /\ Answer("ok") /\ UNCHANGED <<late, trouble>>
     \/ /\ trouble < MaxTrouble /\ trouble' = trouble + 1
        /\ \/ Perform(Call) /\ Answer("unknown") /\ UNCHANGED late
           \/ /\ late' = late \cup {Call} /\ UNCHANGED <<account, lost, setter>>
              /\ \/ Answer("unknown")
                 \/ run.pc = "credential.revoke" /\ Answer("ok")
  /\ UNCHANGED <<localVars, op, step, foreign, changes, named>>

\* It is refused, or the refusal does not arrive.
Refused ==
  /\ run.pc \in Calls /\ run.answer = "calling"
  /\ Possible(Call) => trouble < MaxTrouble
  /\ trouble' = IF Possible(Call) THEN trouble + 1 ELSE trouble
  /\ \/ run' = [run EXCEPT !.answer = "failed"]
     \/ ~Possible(Call) /\ run' = [run EXCEPT !.answer = "unknown"]
  /\ UNCHANGED <<localVars, op, step, remoteVars, foreign, changes, history>>

Land ==
  \E call \in late :
    /\ late' = late \ {call}
    /\ IF Possible(call) THEN Perform(call) ELSE UNCHANGED <<account, lost, setter>>
    /\ UNCHANGED <<localVars, opVars, fresh, bounds, maker, named>>

\* managedCredential: the secret that was returned is saved, in the same step.
Keep ==
  /\ At("credential.create") /\ run.answer = "ok" /\ op[run.op].cand = 0
  /\ \/ /\ Len(cred) < MaxCreds
        /\ cred' = Append(cred, [source |-> "managed", state |-> "candidate", key |-> run.secret, secret |-> TRUE])
        /\ op' = [op EXCEPT ![run.op].cand = Len(cred) + 1]
        /\ UNCHANGED <<run, trouble>>
     \/ /\ trouble < MaxTrouble /\ trouble' = trouble + 1
        /\ run' = [run EXCEPT !.answer = "unknown", !.secret = 0] /\ UNCHANGED <<cred, op>>
  /\ UNCHANGED <<conn, mailbox, endpoint, step, remoteVars, foreign, changes, history>>

\* Mutant: a failure to save is taken for a failure of the call.
OutcomeIsAnswer(a) == CASE a = "ok" -> "succeeded" [] OTHER -> "failed"
Outcome(a) == CASE a = "ok" -> "succeeded" [] a = "failed" -> "failed" [] OTHER -> "unknown"

Record ==
  /\ run.pc \in Calls /\ run.answer \in {"ok", "failed", "unknown"}
  /\ run.pc = "credential.create" /\ run.answer = "ok" => op[run.op].cand # 0
  /\ step' = [step EXCEPT ![run.op][Step] = Outcome(run.answer)]
  /\ run' = IF run.answer = "ok" THEN [run EXCEPT !.pc = After(run.pc), !.answer = "none", !.secret = 0]
            ELSE [run EXCEPT !.pc = "failing", !.answer = Outcome(run.answer), !.secret = 0]
  /\ UNCHANGED <<localVars, op, remoteVars, bounds, history>>

GiveUp ==
  /\ At("failing") /\ Conclude(run.answer = "unknown")
  /\ UNCHANGED <<localVars, step, remoteVars, bounds, history>>

-----------------------------------------------------------------------------
(* mailbox.create: createManagedMailbox. *)

MarkDone(s) == step' = [step EXCEPT ![run.op][<<s, 0>>] = "succeeded"]

\* The mailbox and its endpoints are there before the provider is called, and so is the
\* password; it is the entered one, if IMAP is to use that.
Reserve ==
  LET r == op[run.op].request
      new == IF op[run.op].private # 0 THEN op[run.op].private ELSE IF r.entered THEN r.secret ELSE fresh
  IN  /\ At("reserve")
      /\ IF Done("mailbox.reserve") THEN UNCHANGED <<mailbox, endpoint, op, step, fresh>>
         ELSE /\ new = fresh => fresh < MaxKeys
              /\ fresh' = IF new = fresh THEN fresh + 1 ELSE fresh
              /\ op' = [op EXCEPT ![run.op].private = new]
              /\ mailbox' = [status |-> "suspended", mode |-> "api", remote |-> "unknown", revision |-> 1]
              /\ endpoint' = [p \in Protocols |-> IF p \in conn.templates /\ ~r.entered
                                                  THEN [Off EXCEPT !.mode = "inherit"] ELSE Off]
              /\ MarkDone("mailbox.reserve")
      /\ Goto("mailbox.create")
      /\ UNCHANGED <<conn, cred, account, late, bounds, history>>

\* It is read back before it counts as present.
Confirm ==
  /\ At("confirm") /\ account.exists
  /\ mailbox' = [mailbox EXCEPT !.remote = "present"]
  /\ run' = [run EXCEPT !.pc = IF op[run.op].request.entered THEN "check" ELSE "candidate",
                        !.mailbox = mailbox.revision]
  /\ UNCHANGED <<conn, endpoint, cred, op, step, remoteVars, bounds, history>>
ConfirmFails == At("confirm") /\ FailUnless(account.exists)

-----------------------------------------------------------------------------
(* managedCredential: a new app password is created, saved, tried on every *)
(* endpoint, made the active one, and only then the old ones are revoked.  *)

Candidate ==
  LET rotate == op[run.op].request.kind = "mailbox.rotate"
  IN  /\ At("candidate") /\ (op[run.op].cand = 0 => Targets(rotate))
      /\ Goto(IF op[run.op].cand = 0 /\ ~rotate /\ Ready THEN "commit" ELSE "credential.create")
      /\ UNCHANGED <<localVars, op, step, remoteVars, bounds, history>>
CandidateFails == At("candidate") /\ FailUnless(op[run.op].cand = 0 => Targets(kind = "mailbox.rotate"))

\* The endpoints a candidate is for may include those that use it already.
For(c) == {p \in Enabled : endpoint[p].cred = c} \cup Managed

Verified(c) == For(c) # {} /\ Accepted(cred[c].key)
Verify ==
  /\ At("verify") /\ Verified(op[run.op].cand) /\ Goto("activate")
  /\ UNCHANGED <<localVars, op, step, remoteVars, bounds, history>>
VerifyFails == At("verify") /\ FailUnless(Verified(op[run.op].cand))

Activated(c) ==
  [p \in Protocols |-> IF p \in For(c) THEN [endpoint[p] EXCEPT !.cred = c, !.checked = conn.revision] ELSE endpoint[p]]

ActivateValid == /\ conn.enabled /\ conn.revision = run.conn /\ mailbox.revision = run.mailbox
                 /\ cred[op[run.op].cand].state = "active" => Revision(run.op)

\* An execution that activated it before only goes on.
Activate ==
  LET c == op[run.op].cand
  IN  /\ At("activate") /\ ActivateValid
      /\ IF cred[c].state = "active" THEN UNCHANGED <<mailbox, cred, endpoint, op>>
         ELSE /\ mailbox' = [mailbox EXCEPT !.revision = @ + 1]
              /\ cred' = [d \in DOMAIN cred |->
                            IF d = c /\ cred[d].state = "candidate" THEN [cred[d] EXCEPT !.state = "active"]
                            ELSE IF d # c /\ d \in OfState({"active"}) THEN [cred[d] EXCEPT !.state = "revocation_pending"]
                            ELSE cred[d]]
              /\ endpoint' = Activated(c)
              /\ op' = [op EXCEPT ![run.op].active = mailbox.revision + 1]
      /\ Goto("revoke")
      /\ UNCHANGED <<conn, step, remoteVars, bounds, history>>
ActivateFails == At("activate") /\ FailUnless(ActivateValid)

\* The old ones in the order of their ids.
Revoke ==
  LET old == OfState({"revocation_pending"})
  IN  /\ At("revoke")
      /\ run' = IF old = {} THEN [run EXCEPT !.pc = "commit", !.old = 0]
                ELSE [run EXCEPT !.pc = "credential.revoke", !.old = Min(old)]
      /\ UNCHANGED <<localVars, op, step, remoteVars, bounds, history>>

\* verifySavedManagedCredential: every endpoint refuses it.
Refuses(c) == cred[c].state = "revocation_pending" /\ Managed # {} /\ ~Accepted(cred[c].key)

\* Mutant: the answer of the provider is enough.
RefusedUnchecked == At("refused")
IsRefused == At("refused") /\ Refuses(run.old)

Revoked ==
  /\ IsRefused
  /\ cred' = [cred EXCEPT ![run.old].state = "revoked", ![run.old].secret = FALSE]
  /\ run' = [run EXCEPT !.pc = "revoke", !.old = 0]
  /\ UNCHANGED <<conn, mailbox, endpoint, op, step, remoteVars, bounds, history>>
RevokeFails == At("refused") /\ FailUnless(Refuses(run.old))

-----------------------------------------------------------------------------
(* mailbox.resetPassword, mailbox.deleteRemote, mailbox.revokeRemoteAccess *)

\* Mutant: every execution makes up a password of its own.
SavedNever(o) == 0
SavedPassword(o) == op[o].private

\* operationPassword: it is saved before the provider hears of it.
Password ==
  /\ At("password")
  /\ IF SavedPassword(run.op) # 0 THEN UNCHANGED <<op, fresh>>
     ELSE fresh < MaxKeys /\ op' = [op EXCEPT ![run.op].private = fresh] /\ fresh' = fresh + 1
  /\ Goto("mailbox.resetPassword")
  /\ UNCHANGED <<localVars, step, account, late, bounds, history>>

\* Whoever asked may fetch it once.
Claim ==
  /\ At("claim")
  /\ op' = IF op[run.op].claimed # 0 THEN op ELSE [op EXCEPT ![run.op].claim = op[run.op].private]
  /\ Goto("validate")
  /\ UNCHANGED <<localVars, step, remoteVars, bounds, history>>

\* Endpoints that use the old password are found out.
Validate ==
  /\ At("validate") /\ (\A p \in Enabled : Works(p)) /\ Goto("commit")
  /\ UNCHANGED <<localVars, op, step, remoteVars, bounds, history>>
ValidateFails == At("validate") /\ (\E p \in Enabled : ~Works(p)) /\ Fail

\* That it is still there after the deletion is no definite failure.
Gone ==
  /\ At("gone")
  /\ IF account.exists THEN Conclude(TRUE) ELSE Goto("commit") /\ UNCHANGED op
  /\ UNCHANGED <<localVars, step, remoteVars, bounds, history>>

\* executeRemoteAccessRevocation leaves everything to an administrator.
External ==
  /\ At("external")
  /\ MarkDone("remoteAccess")
  /\ op' = [op EXCEPT ![run.op].status = "needs_action"] /\ run' = Idle
  /\ UNCHANGED <<localVars, remoteVars, bounds, history>>

\* ConfirmExternalOperation: no credential is used any more, all rows stay.
ConfirmExternal(o) ==
  /\ op[o].status = "needs_action" /\ op[o].request.kind = "mailbox.revokeRemoteAccess"
  /\ step[o][<<"remoteAccess", 0>>] = "succeeded" /\ mailbox.revision = op[o].expected
  /\ mailbox' = [mailbox EXCEPT !.revision = @ + 1]
  /\ cred' = [c \in DOMAIN cred |-> IF cred[c].state \in {"active", "candidate", "revocation_pending"}
                                    THEN [cred[c] EXCEPT !.state = "retired"] ELSE cred[c]]
  /\ op' = Succeeded(o)
  /\ UNCHANGED <<conn, endpoint, step, run, remoteVars, bounds, history>>

-----------------------------------------------------------------------------
(* Entered credentials: enteredCreationCredential, AttachMailbox,          *)
(* UpdateEndpoints, reactivateMailboxProtocols, ConfigureConnection.       *)
(* Everything is tried before one transaction changes it.                  *)

SecretOf(r, p) == IF r.want[p] = New THEN r.secret ELSE cred[r.want[p]].key
\* Mutant: only the protocol a mailbox cannot do without is tried.
TriedFirst(r) == r.want[IMAP] # 0 => Accepted(SecretOf(r, IMAP))
Tried(r) == \A p \in Protocols : r.want[p] # 0 => Accepted(SecretOf(r, p))
Choosable(r) == \A p \in Protocols : r.want[p] \in DOMAIN cred => cred[r.want[p]].state = "active" /\ cred[r.want[p]].secret

\* The connection may have lost a template since the request was made.
Offered(r) == \A p \in Protocols : r.want[p] # 0 => p \in conn.templates

CreationChecked(r) == conn.enabled /\ Offered(r) /\ Tried(r)
EndpointsChecked(r) == conn.enabled /\ Offered(r) /\ Choosable(r) /\ Tried(r)
ReactivationChecked == mailbox.status = "suspended" /\ IMAP \in Enabled /\ \A p \in Enabled : Works(p)
ConfigurationChecked(r) ==
  /\ Enabled \subseteq r.templates
  /\ \A p \in Enabled : endpoint[p].cred # 0 /\ cred[endpoint[p].cred].state = "active"
                        => Accepted(cred[endpoint[p].cred].key)
Checked(r) ==
  CASE r.kind \in Additions -> CreationChecked(r)
    [] r.kind = "mailbox.endpoints" -> EndpointsChecked(r)
    [] r.kind = "mailbox.reactivate" -> ReactivationChecked
    [] r.kind = "connection.configure" -> ConfigurationChecked(r)

\* An entered creation that was committed is not tried again.
Check ==
  LET r == op[run.op].request
  IN  /\ At("check")
      /\ IF r.kind = "mailbox.create" /\ Done("credential.entered") THEN Goto("commit") ELSE Checked(r) /\ Goto("apply")
      /\ UNCHANGED <<localVars, op, step, remoteVars, bounds, history>>
CheckFails ==
  LET r == op[run.op].request
  IN  At("check") /\ ~(r.kind = "mailbox.create" /\ Done("credential.entered")) /\ ~Checked(r) /\ Fail

\* The new row, if there is one, and the endpoints that refer to it or to others.
WithEntered(r) == IF \E p \in Protocols : r.want[p] = New
                  THEN Append(cred, [source |-> "entered", state |-> "active", key |-> r.secret, secret |-> TRUE]) ELSE cred
EndpointsOf(r) == [p \in Protocols |-> IF r.want[p] = 0 THEN Off
                    ELSE [mode |-> "inherit", cred |-> IF r.want[p] = New THEN Len(cred) + 1 ELSE r.want[p],
                          checked |-> conn.revision]]
\* Entered credentials that no endpoint uses are retired, managed ones are not.
Retire(rows, eps) == [c \in DOMAIN rows |->
                        IF rows[c].source = "entered" /\ rows[c].state = "active" /\ \A p \in Protocols : eps[p].cred # c
                        THEN [rows[c] EXCEPT !.state = "retired"] ELSE rows[c]]
Room(r) == (\E p \in Protocols : r.want[p] = New) => Len(cred) < MaxCreds

Unchanged == conn.revision = run.conn /\ mailbox.revision = run.mailbox

Applies(k) == At("apply") /\ kind = k /\ Unchanged

SaveEntered ==
  LET r == op[run.op].request
  IN  /\ Applies("mailbox.create") /\ Room(r)
      /\ cred' = WithEntered(r) /\ endpoint' = EndpointsOf(r)
      /\ mailbox' = [mailbox EXCEPT !.revision = @ + 1]
      /\ MarkDone("credential.entered") /\ Goto("commit")
      /\ UNCHANGED <<conn, op, remoteVars, bounds, history>>

Attach ==
  LET r == op[run.op].request
  IN  /\ Applies("mailbox.attach") /\ Room(r)
      /\ cred' = WithEntered(r) /\ endpoint' = EndpointsOf(r)
      /\ mailbox' = [status |-> "active", mode |-> "external", remote |-> "external", revision |-> 1]
      /\ op' = [op EXCEPT ![run.op].expected = 1]
      /\ MarkDone("local.commit") /\ Goto("complete")
      /\ UNCHANGED <<conn, remoteVars, bounds, history>>

UpdateEndpoints ==
  LET r == op[run.op].request
  IN  /\ Applies("mailbox.endpoints") /\ Choosable(r) /\ Room(r)
      /\ cred' = Retire(WithEntered(r), EndpointsOf(r)) /\ endpoint' = EndpointsOf(r)
      /\ mailbox' = [mailbox EXCEPT !.revision = @ + 1]
      /\ op' = Succeeded(run.op) /\ run' = Idle
      /\ UNCHANGED <<conn, step, remoteVars, bounds, history>>

Reactivate ==
  /\ Applies("mailbox.reactivate")
  /\ endpoint' = [p \in Protocols |-> IF p \in Enabled THEN [endpoint[p] EXCEPT !.checked = conn.revision] ELSE endpoint[p]]
  /\ mailbox' = [mailbox EXCEPT !.status = "active", !.revision = @ + 1]
  /\ op' = [op EXCEPT ![run.op].expected = mailbox.revision + 1]
  /\ MarkDone("local.commit") /\ Goto("complete")
  /\ UNCHANGED <<conn, cred, remoteVars, bounds, history>>

ConfigureConnection ==
  /\ Applies("connection.configure")
  /\ conn' = [conn EXCEPT !.templates = op[run.op].request.templates, !.revision = @ + 1]
  /\ endpoint' = [p \in Protocols |-> [endpoint[p] EXCEPT !.checked = 0]]
  /\ op' = Succeeded(run.op) /\ run' = Idle
  /\ UNCHANGED <<mailbox, cred, step, remoteVars, bounds, history>>

-----------------------------------------------------------------------------
(* The last transaction of executeMailboxManagement. *)

\* The credentials of a mailbox that is gone: app passwords count as revoked.
Forgotten(c) == IF cred[c].source = "entered" THEN [cred[c] EXCEPT !.state = "retired"]
                ELSE [cred[c] EXCEPT !.state = "revoked", !.secret = FALSE]

Commit ==
  LET o == run.op
      opens == kind = "mailbox.create" /\ mailbox.status = "suspended" /\ mailbox.remote = "present"
  IN  /\ At("commit") /\ Versions(o)
      /\ CASE kind = "mailbox.create" ->
                /\ mailbox' = IF opens THEN [mailbox EXCEPT !.status = "active", !.revision = @ + 1] ELSE mailbox
                /\ op' = [op EXCEPT ![o].expected = mailbox'.revision]
                /\ MarkDone("local.commit") /\ Goto("complete") /\ UNCHANGED cred
           [] kind = "mailbox.deleteRemote" ->
                /\ mailbox.revision = run.mailbox
                /\ mailbox' = [mailbox EXCEPT !.status = "archived", !.remote = "missing", !.revision = @ + 1]
                /\ cred' = [c \in DOMAIN cred |-> Forgotten(c)]
                /\ op' = Succeeded(o) /\ run' = Idle /\ UNCHANGED step
           [] OTHER -> op' = Succeeded(o) /\ run' = Idle /\ UNCHANGED <<mailbox, cred, step>>
      /\ UNCHANGED <<conn, endpoint, remoteVars, bounds, history>>

-----------------------------------------------------------------------------
(* What an administrator does about an operation.                          *)

Unresolved(o) == {s \in Steps : step[o][s] \in {"running", "unknown"}}

\* reconcileRemoteSteps: what reading and logging in say of a step; "unknown" if nothing.
Verdict(o, s) ==
  CASE s[1] = "credential.create" ->
         IF op[o].cand # 0 /\ Managed # {} /\ Accepted(cred[op[o].cand].key) THEN "succeeded" ELSE "unknown"
    [] s[1] = "credential.revoke" ->
         IF cred[s[2]].state # "revocation_pending" \/ Managed = {} THEN "unknown"
         ELSE IF Accepted(cred[s[2]].key) THEN "failed" ELSE "succeeded"
    [] s[1] = "mailbox.resetPassword" ->
         IF IMAP \notin Enabled THEN "unknown" ELSE IF Accepted(op[o].private) THEN "succeeded" ELSE "failed"
    [] s[1] = "mailbox.create" -> IF account.exists THEN "succeeded" ELSE "failed"
    [] s[1] = "mailbox.delete" -> IF account.exists THEN "failed" ELSE "succeeded"
    [] OTHER -> "unknown"

ReconcileStep(o) ==
  /\ op[o].status = "unknown"
  /\ \E s \in Unresolved(o) : Verdict(o, s) # "unknown" /\ step' = [step EXCEPT ![o][s] = Verdict(o, s)]
  /\ UNCHANGED <<localVars, op, run, remoteVars, bounds, history>>

\* An operation that is one transaction did not take place.
Reconcile(o) ==
  /\ op[o].status = "unknown" /\ Unresolved(o) = {}
  /\ op' = [op EXCEPT ![o].status = IF op[o].request.kind \in Transactional THEN "failed" ELSE "needs_action"]
  /\ UNCHANGED <<localVars, step, run, remoteVars, bounds, history>>

Retry(o) ==
  /\ op[o].status \in {"failed", "needs_action"} /\ Unresolved(o) = {} /\ Current(o)
  /\ ~\E p \in Ops \ {o} : op[p].status \in Live
  /\ op' = [op EXCEPT ![o].status = "queued"]
  /\ step' = [step EXCEPT ![o] = [s \in Steps |-> IF @[s] = "failed" THEN "none" ELSE @[s]]]
  /\ UNCHANGED <<localVars, run, remoteVars, bounds, history>>

\* A candidate that was saved stays, at the provider as well.
Cancel(o) ==
  /\ op[o].status \in {"queued", "failed", "needs_action"} /\ Unresolved(o) = {}
  /\ op[o].request.kind \in Transactional => op[o].status # "needs_action"
  /\ op' = [op EXCEPT ![o] = Settled("cancelled")]
  /\ UNCHANGED <<localVars, step, run, remoteVars, bounds, history>>

\* ReportLostCredentialCleanup: somebody saw to an app password whose secret never arrived.
Report(o) ==
  LET s == <<"credential.create", 0>>
  IN  /\ op[o].status = "unknown" /\ step[o][s] = "unknown" /\ op[o].cand = 0 /\ Unresolved(o) = {s}
      /\ step' = [step EXCEPT ![o][s] = "external_reported"]
      /\ op' = [op EXCEPT ![o] = Settled("cancelled")]
      /\ UNCHANGED <<localVars, run, remoteVars, bounds, history>>

ClaimSecret(o) ==
  /\ op[o].claim # 0 /\ op[o].claimed = 0
  /\ op' = [op EXCEPT ![o].claim = 0, ![o].claimed = op[o].claim]
  /\ UNCHANGED <<localVars, step, run, remoteVars, bounds, history>>

Expire(o) ==
  /\ op[o].claim # 0
  /\ op' = [op EXCEPT ![o].claim = 0, ![o].expired = TRUE]
  /\ UNCHANGED <<localVars, step, run, remoteVars, bounds, history>>

-----------------------------------------------------------------------------
(* What happens without an operation. *)

Change == ~Busy /\ changes < MaxChanges /\ changes' = changes + 1

\* UpdateConnection
Switch ==
  /\ Change /\ conn' = [conn EXCEPT !.enabled = ~@, !.revision = @ + 1]
  /\ UNCHANGED <<mailbox, endpoint, cred, opVars, remoteVars, trouble, foreign, history>>

\* mailbox.suspend, which is committed with its request, and mailbox.update
Suspend ==
  /\ Change /\ mailbox.status # "none"
  /\ \E s \in {"suspended", mailbox.status} :
       /\ s = "suspended" => mailbox.status \in {"active", "suspended"}
       /\ mailbox' = [mailbox EXCEPT !.status = s, !.revision = @ + 1]
  /\ UNCHANGED <<conn, endpoint, cred, opVars, remoteVars, trouble, foreign, history>>

\* Mutant: the endpoints stay.
RowsLeft == endpoint' = endpoint
RowsDeleted == endpoint' = [p \in Protocols |-> Off]

\* DeleteMailbox.  The audit names every credential that is not revoked.
Unregister ==
  /\ Change /\ mailbox.status # "none"
  /\ \A o \in Ops : op[o].status = "failed" => op[o].request.kind \in Additions \cup {"connection.configure"}
  /\ named' = named \cup {cred[c].key : c \in {c \in DOMAIN cred : cred[c].state # "revoked"}}
  /\ mailbox' = Unregistered /\ cred' = <<>> /\ RowsDeleted
  /\ UNCHANGED <<conn, opVars, remoteVars, trouble, foreign, maker, lost, setter>>

\* Somebody revokes an app password or changes the password at the provider.
Foreign ==
  /\ foreign < MaxForeign /\ foreign' = foreign + 1
  /\ \E k \in account.accepted :
       /\ account' = [account EXCEPT !.accepted = @ \ {k}, !.primary = IF @ = k THEN 0 ELSE @]
       /\ lost' = lost \cup {k}
       /\ setter' = IF k = account.primary THEN None ELSE setter
  /\ UNCHANGED <<localVars, opVars, late, fresh, trouble, changes, maker, named>>

-----------------------------------------------------------------------------
\* Rows and an account as there may be before the first operation: what rows say
\* is so, what endpoints log in with is accepted, and nobody entered the secret
\* of an app password.
Consistent(i) ==
  /\ i.conn \in ConnectionRow /\ i.mailbox \in MailboxRow /\ i.endpoint \in [Protocols -> EndpointRow]
  /\ i.cred \in Seq(RowOf) /\ Len(i.cred) <= MaxCreds /\ i.account \in Account /\ i.fresh \in Keys
  /\ {i.foreign, i.changes, i.trouble} \subseteq Nat
  /\ i.account.exists \/ i.account.accepted = {}
  /\ i.account.primary \in i.account.accepted \cup {0}
  /\ \A k \in i.account.accepted : k < i.fresh
  /\ \A c \in DOMAIN i.cred :
       /\ i.cred[c].key < i.fresh
       /\ i.cred[c].state = "revoked" =>
            i.cred[c].source = "managed" /\ ~i.cred[c].secret /\ i.cred[c].key \notin i.account.accepted
       /\ i.cred[c].source = "managed" =>
            /\ i.cred[c].key \notin {0, i.account.primary}
            /\ \A d \in DOMAIN i.cred \ {c} :
                 /\ i.cred[d].key # i.cred[c].key
                 /\ i.cred[d].source = "managed" => {i.cred[c].state, i.cred[d].state} # {"active"}
  /\ \A p \in Protocols :
       LET e == i.endpoint[p]
       IN  /\ e.mode = "disabled" => e.cred = 0
           /\ e.mode = "inherit" => p \in i.conn.templates
           /\ e.cred # 0 => /\ e.cred \in DOMAIN i.cred
                            /\ i.mailbox.remote # "missing" => i.cred[e.cred].state \in {"active", "retired"}
                            /\ i.cred[e.cred].state = "active" => i.cred[e.cred].key \in i.account.accepted

ASSUME InitiallyConsistent == \A i \in Initially : Consistent(i)

Init ==
  /\ \E i \in Initially :
       /\ conn = i.conn /\ mailbox = i.mailbox /\ endpoint = i.endpoint /\ cred = i.cred
       /\ account = i.account /\ fresh = i.fresh
       /\ op = [o \in Ops |-> Settled(IF o \in i.asking THEN "none" ELSE "cancelled")]
       /\ foreign = i.foreign /\ changes = i.changes /\ trouble = i.trouble
  /\ step = [o \in Ops |-> NotRun] /\ run = Idle /\ late = {}
  /\ maker = [k \in Keys |-> None] /\ lost = {} /\ setter = None /\ named = {}

Execution ==
  \/ Start \/ StartFails \/ Complete \/ Begin \/ Provider \/ Refused \/ Keep \/ Record \/ GiveUp
  \/ Reserve \/ Confirm \/ ConfirmFails
  \/ Candidate \/ CandidateFails \/ Verify \/ VerifyFails \/ Activate \/ ActivateFails
  \/ Revoke \/ Revoked \/ RevokeFails
  \/ Password \/ Claim \/ Validate \/ ValidateFails \/ Gone \/ External
  \/ Check \/ CheckFails \/ SaveEntered \/ Attach \/ UpdateEndpoints \/ Reactivate \/ ConfigureConnection
  \/ Commit

Next ==
  \/ \E o \in Ops : \/ \E k \in Kinds : Queue(o, k)
                    \/ Execute(o) \/ ConfirmExternal(o) \/ ReconcileStep(o) \/ Reconcile(o) \/ Retry(o) \/ Cancel(o)
                    \/ Report(o) \/ ClaimSecret(o) \/ Expire(o)
  \/ Execution \/ Interrupt \/ Land
  \/ Switch \/ Suspend \/ Unregister \/ Foreign

Spec == Init /\ [][Next]_vars

-----------------------------------------------------------------------------
(* Properties. *)

Rows == DOMAIN cred

\* Rows keep their types, endpoints refer to rows there are, and none that is
\* disabled to any.
TypeOK ==
  /\ conn \in ConnectionRow /\ mailbox \in MailboxRow /\ account \in Account
  /\ cred \in Seq(RowOf) /\ Len(cred) <= MaxCreds
  /\ endpoint \in [Protocols -> EndpointRow]
  /\ \A p \in Protocols : /\ endpoint[p].cred \in Rows \cup {0}
                          /\ endpoint[p].mode = "disabled" => endpoint[p].cred = 0
  /\ \A o \in Ops : /\ op[o].status \in {"none", "succeeded", "failed", "cancelled"} \cup Live
                    /\ op[o].status \in Live \cup {"failed"} => op[o].request \in Request
                    /\ {op[o].private, op[o].claim, op[o].claimed} \subseteq Keys \cup {0}
  /\ step \in [Ops -> [Steps -> {"none", "running", "succeeded", "failed", "unknown", "external_reported"}]]
  /\ run.op # None => op[run.op].status = "running"
  /\ account.primary # 0 => account.primary \in account.accepted

\* No app password that Mailhearth had created is forgotten while the provider
\* accepts it: its secret is in a row, or the operation that asked for it is
\* not settled, or an administrator was told to look for it.
NothingForgotten ==
  \A k \in account.accepted : maker[k] # None =>
    \/ \E c \in Rows : cred[c].key = k /\ cred[c].secret
    \/ step[maker[k]][<<"credential.create", 0>>] \in {"running", "unknown", "external_reported"}
    \/ k \in named

\* A credential is only shown as revoked, and its secret erased, when the
\* provider does not accept it any more.
RevokedIsRefused ==
  \A c \in Rows : cred[c].state = "revoked" => ~cred[c].secret /\ ~Accepted(cred[c].key)

\* At most one app password is in use, no endpoint is left behind with one
\* that is about to be revoked, and none inherits from a template that is off.
EndpointsAreCurrent ==
  /\ Cardinality(OfState({"active"})) <= 1
  /\ Enabled \subseteq conn.templates
  /\ mailbox.remote # "missing" =>
       \A p \in Enabled : endpoint[p].cred # 0 => cred[endpoint[p].cred].state \in {"active", "retired"}

\* Mail goes on: whatever an endpoint would log in with is current, and valid
\* unless it became invalid by other means than a revocation of Mailhearth's.
\* No rotation, however it is interrupted, repeated or given up, and no change
\* of the endpoints, of the connection or of the mailbox takes it away.
ServiceContinues ==
  /\ EndpointsAreCurrent
  /\ \A p \in Protocols : mailbox.status # "archived" /\ Usable(p) =>
       Works(p) \/ cred[endpoint[p].cred].key \in lost

\* A password that Mailhearth set is not lost: the operation still holds it,
\* or somebody fetched it, unless they gave the operation up or came too late.
PasswordIsKnown ==
  setter # None /\ op[setter].status # "cancelled" /\ ~op[setter].expired =>
    account.primary \in {op[setter].private, op[setter].claim, op[setter].claimed}

=============================================================================
