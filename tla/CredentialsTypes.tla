-------------------------- MODULE CredentialsTypes --------------------------
(***************************************************************************)
(* The inductive invariant of Credentials, as the conjunction IInv of its  *)
(* named parts, and the first of the proofs about it, for every set of     *)
(* operations and of protocols, any number of secrets and rows, of         *)
(* failures and of changes, and for every mailbox that may be there        *)
(* before the first operation: what each action changes, that the types    *)
(* are kept, where an execution may be, and what an operation that has     *)
(* ended leaves unresolved. CredentialsRows and CredentialsProofs go on    *)
(* from here.                                                              *)
(***************************************************************************)
EXTENDS Credentials, TLAPS, FiniteSetTheorems, SequenceTheorems, WellFoundedInduction

-----------------------------------------------------------------------------
(* Types. *)

IsLive(o) == op[o].status \in Live
Open(o) == op[o].status \in Live \cup {"failed"}
Kind(o) == op[o].request.kind
Creation == <<"credential.create", 0>>
Reservation == <<"mailbox.reserve", 0>>
Unsure == {"running", "unknown"}

Pcs == Calls \cup {"idle", "started", "reserve", "complete", "candidate", "password", "external", "check", "confirm",
                   "verify", "refused", "claim", "gone", "failing", "activate", "revoke", "commit", "validate", "apply"}
OpRow == [request : Request \cup {None}, status : {"none", "succeeded", "failed", "cancelled"} \cup Live,
          expected : Nat, conn : Nat, cand : 0..MaxCreds, active : Nat,
          private : 0..MaxKeys, claim : 0..MaxKeys, claimed : 0..MaxKeys, expired : BOOLEAN]
StepStatus == {"none", "running", "succeeded", "failed", "unknown", "external_reported"}
RunRow == [op : Ops \cup {None}, pc : Pcs, mailbox : Nat, conn : Nat, old : 0..MaxCreds, secret : 0..MaxKeys,
           answer : {"none", "calling", "ok", "failed", "unknown"}]
CallRow == [name : Calls, op : Ops, key : 0..MaxKeys]

LocalTypes == /\ conn \in ConnectionRow /\ mailbox \in MailboxRow /\ endpoint \in [Protocols -> EndpointRow]
              /\ cred \in Seq(RowOf) /\ Len(cred) <= MaxCreds
OpTypes == op \in [Ops -> OpRow] /\ step \in [Ops -> [Steps -> StepStatus]] /\ run \in RunRow
RemoteTypes == /\ account \in Account /\ late \subseteq CallRow /\ fresh \in Keys
               /\ maker \in [Keys -> Ops \cup {None}] /\ setter \in Ops \cup {None} /\ trouble \in Nat

-----------------------------------------------------------------------------
(* Where an execution may be, and what its operation has left unresolved. *)

\* One operation is open, and what is executed is running.
OneLive == \A o, p \in Ops : IsLive(o) /\ IsLive(p) => o = p
Executing == /\ run.op # None => op[run.op].status = "running"
             /\ \A o \in Ops : op[o].status = "running" => run.op = o
             /\ run.op = None => run = Idle
Requested == \A o \in Ops : Open(o) => op[o].request \in Request

\* The kinds of operation that come to a point.
OnPath ==
  LET k == op[run.op].request.kind
      entered == op[run.op].request.entered
  IN  run.op # None =>
        /\ run.pc # "idle"
        /\ run.pc \in {"reserve", "mailbox.create", "confirm"} => k = "mailbox.create"
        /\ run.pc \in {"candidate", "credential.create", "verify", "activate", "revoke", "credential.revoke", "refused"} =>
             k \in {"mailbox.connect", "mailbox.rotate"} \/ (k = "mailbox.create" /\ ~entered)
        /\ run.pc \in {"password", "mailbox.resetPassword", "claim", "validate"} => k = "mailbox.resetPassword"
        /\ run.pc \in {"mailbox.delete", "gone"} => k = "mailbox.deleteRemote"
        /\ run.pc = "external" => k = "mailbox.revokeRemoteAccess"
        /\ run.pc \in {"check", "apply"} =>
             k \in Transactional \cup {"mailbox.attach", "mailbox.reactivate"} \/ (k = "mailbox.create" /\ entered)
        /\ run.pc = "complete" => k \in Additions \cup Transactional \cup {"mailbox.reactivate"}
        /\ run.pc = "commit" => k \in {"mailbox.create", "mailbox.connect", "mailbox.rotate", "mailbox.resetPassword",
                                       "mailbox.deleteRemote"}

\* An answer is there only during a call, or when its failure is about to end the execution.
Answers == /\ run.answer # "none" => run.pc \in Calls \cup {"failing"}
           /\ run.pc = "failing" => run.answer \in {"failed", "unknown"}
           /\ run.old # 0 => run.pc \in {"credential.revoke", "refused", "failing"}
Calling == run.op # None /\ run.pc \in Calls /\ run.answer # "none" => step[run.op][Step] = "running"
Settling == \A o \in Ops : \A s \in Steps : step[o][s] \in Unsure =>
              \/ op[o].status = "unknown"
              \/ op[o].status = "running" /\ run.pc \in Calls /\ run.answer # "none" /\ s = Step
              \/ op[o].status = "running" /\ run.pc = "failing" /\ run.answer = "unknown"
Untouched == \A o \in Ops : op[o].status = "none" => step[o] = NotRun
Failing == \A o \in Ops : op[o].status = "failed" =>
             op[o].cand = 0 /\ Kind(o) \notin Additions \cup {"mailbox.deleteRemote", "mailbox.reactivate"}
\* An operation that was given up has no candidate, and only such a one was reported about.
GivenUp == \A o \in Ops : /\ op[o].status \in {"none", "cancelled"} => op[o].cand = 0
                          /\ \A s \in Steps : step[o][s] = "external_reported" => op[o].status = "cancelled"

Control == /\ OneLive /\ Executing /\ Requested /\ OnPath /\ Answers /\ Calling /\ Settling /\ Untouched /\ Failing
           /\ GivenUp

-----------------------------------------------------------------------------
(* Rows that operations, executions and endpoints refer to. *)

EndpointsRefer == \A p \in Protocols : /\ endpoint[p].cred \in Rows \cup {0}
                                       /\ endpoint[p].mode = "disabled" => endpoint[p].cred = 0
\* A candidate is a row until its operation has ended, and its creation was recorded or may be.
Candidates ==
  \A o \in Ops : IsLive(o) /\ op[o].cand # 0 =>
    /\ Kind(o) \in {"mailbox.create", "mailbox.connect", "mailbox.rotate"}
    /\ op[o].cand \in Rows /\ cred[op[o].cand].source = "managed" /\ cred[op[o].cand].secret
    /\ cred[op[o].cand].state \in {"candidate", "active"}
    /\ step[o][Creation] \in Unsure \cup {"succeeded"}
\* No app password is asked for twice.
Uncreated == run.op # None /\ run.pc = "credential.create" /\ run.answer \in {"calling", "failed"} => op[run.op].cand = 0
Created == \A o \in Ops : Open(o) /\ step[o][Creation] = "succeeded" => op[o].cand # 0
HasCandidate == run.op # None /\ run.pc \in {"verify", "activate"} => op[run.op].cand # 0
OldRow == run.op # None /\ run.pc \in {"credential.revoke", "refused"} => run.old \in OfState({"revocation_pending"})
\* A mailbox that is being created has its row and its password.
Reserved ==
  \A o \in Ops : IsLive(o) /\ Kind(o) = "mailbox.create" /\ step[o][Reservation] = "succeeded" =>
    mailbox.remote \in {"unknown", "present"} /\ op[o].private # 0
ReservedAt == run.op # None /\ Kind(run.op) = "mailbox.create" /\ run.pc \notin {"started", "reserve", "complete", "failing"} =>
                step[run.op][Reservation] = "succeeded"
PasswordAt == run.op # None /\ run.pc \in {"mailbox.resetPassword", "claim"} => op[run.op].private # 0
Wishes == \A o \in Ops : Open(o) =>
   LET r == op[o].request
   IN  /\ r.kind = "mailbox.create" => r.entered = (r.secret # 0)
       /\ r.kind \in Additions => \A p \in Protocols : r.want[p] \in {0, New}
       /\ r.kind = "mailbox.endpoints" => \A p \in Protocols : r.want[p] \in {0, New} \cup Rows

References == /\ EndpointsRefer /\ Candidates /\ Uncreated /\ Created /\ HasCandidate /\ OldRow /\ Reserved /\ ReservedAt /\ PasswordAt
              /\ Wishes

-----------------------------------------------------------------------------
(* Secrets: app passwords and passwords are apart, and one row knows each. *)

AcceptedBelow == \A k \in account.accepted : k < fresh
RowsBelow == \A c \in Rows : cred[c].key < fresh /\ (cred[c].source = "managed" => cred[c].key # 0)
PrivateBelow == \A o \in Ops : op[o].private < fresh /\ (Open(o) => op[o].request.secret < fresh)
LateBelow == \A call \in late : call.key < fresh /\ (call.name # "mailbox.delete" => call.key # 0)
MadeBelow == \A k \in Keys : maker[k] # None => k < fresh
Below == AcceptedBelow /\ RowsBelow /\ PrivateBelow /\ LateBelow /\ MadeBelow /\ run.secret < fresh
Balance == account.primary \in account.accepted \cup {0} /\ (account.exists \/ account.accepted = {})
AppPassword(k) == \/ maker[k] # None
                  \/ \E c \in Rows : cred[c].source = "managed" /\ cred[c].key = k
                  \/ \E call \in late : call.name = "credential.revoke" /\ call.key = k
ApartPrimary == \A k \in Keys : AppPassword(k) => account.primary # k
ApartOps == \A k \in Keys : AppPassword(k) => \A o \in Ops : op[o].private # k /\ (Open(o) => op[o].request.secret # k)
ApartLate == \A k \in Keys : AppPassword(k) =>
               \A call \in late : call.key = k => call.name \in {"credential.create", "credential.revoke"}
ApartRows == \A k \in Keys : AppPassword(k) => \A c \in Rows : cred[c].key = k => cred[c].source = "managed"
Apart == ApartPrimary /\ ApartOps /\ ApartLate /\ ApartRows
Distinct == \A c, d \in Rows : cred[c].source = "managed" /\ cred[d].source = "managed" /\ cred[c].key = cred[d].key => c = d
LateRevocations == \A call \in late : call.name = "credential.revoke" =>
                     \A c \in Rows : cred[c].key = call.key => cred[c].state \notin {"active", "candidate"}

Secrets == Below /\ Balance /\ Apart /\ Distinct /\ LateRevocations

-----------------------------------------------------------------------------
(* App passwords that operations had created. *)

NoRow(k) == \A c \in Rows : cred[c].key # k
InLate(k) == \E call \in late : call.key = k
\* Nobody will ever hear of it: that is known, or it is not known what became of the call.
Orphan(k, o) == /\ op[o].cand = 0 /\ step[o][Creation] \in Unsure \cup {"external_reported"} /\ NoRow(k)
                /\ run.op = o => run.answer = "unknown"
\* It was returned and is not saved yet.
Arriving(k, o) == /\ run.op = o /\ run.pc = "credential.create" /\ run.answer = "ok" /\ run.secret = k /\ op[o].cand = 0
                  /\ NoRow(k) /\ ~InLate(k)
\* It is saved and its creation is not recorded.
Unread(k, o) == /\ op[o].cand # 0 /\ step[o][Creation] \in Unsure /\ cred[op[o].cand].key = k /\ IsLive(o)
                /\ run.op = o => run.pc = "credential.create" /\ run.answer = "ok"
Stored(k, o) == /\ step[o][Creation] = "succeeded"
                /\ k \in account.accepted => (\E c \in Rows : cred[c].key = k /\ cred[c].secret) \/ k \in named
Made == \A k \in Keys, o \in Ops : maker[k] = o => Orphan(k, o) \/ Arriving(k, o) \/ Unread(k, o) \/ Stored(k, o)
Returned == run.op # None /\ run.pc = "credential.create" /\ run.answer = "ok" /\ op[run.op].cand = 0 =>
              run.secret \in Keys /\ maker[run.secret] = run.op /\ Arriving(run.secret, run.op)
LateCreations == \A call \in late : call.name = "credential.create" =>
                   maker[call.key] = call.op /\ Orphan(call.key, call.op)
Deleted == run.op # None /\ Kind(run.op) = "mailbox.deleteRemote" /\ run.pc = "commit" =>
             \A c \in Rows : cred[c].source = "managed" => cred[c].key \notin account.accepted

RevokedAreManaged == \A c \in Rows : cred[c].state = "revoked" => cred[c].source = "managed"

Creations == Made /\ Returned /\ LateCreations
Revocations == Deleted /\ RevokedIsRefused /\ RevokedAreManaged

-----------------------------------------------------------------------------
(* Passwords that operations set. *)

Known(o, k) == \/ op[o].status = "cancelled"
               \/ op[o].status = "succeeded" /\ (op[o].expired \/ k \in {op[o].claim, op[o].claimed})
               \/ Open(o) /\ Kind(o) = "mailbox.resetPassword" /\ op[o].private = k
Resets == \A o \in Ops : Open(o) /\ Kind(o) = "mailbox.resetPassword" =>
            /\ {op[o].claim, op[o].claimed} \subseteq {0, op[o].private}
            /\ run.op = o /\ run.pc \in {"validate", "commit"} => op[o].claim # 0 \/ op[o].claimed # 0 \/ op[o].expired
SetPasswords == /\ setter # None => account.primary # 0 /\ Known(setter, account.primary)
                /\ \A call \in late : call.name = "mailbox.resetPassword" => Known(call.op, call.key)

Passwords == Resets /\ SetPasswords

-----------------------------------------------------------------------------
(* What endpoints log in with. *)

Good(k) == k \in account.accepted \/ k \in lost
OneActive == \A c, d \in OfState({"active"}) : c = d
Templates == Enabled \subseteq conn.templates
NoneLeftBehind == mailbox.remote # "missing" =>
       \A p \in Enabled : endpoint[p].cred # 0 => cred[endpoint[p].cred].state \in {"active", "retired"}
Serving == \A p \in Protocols : endpoint[p].cred # 0 /\ cred[endpoint[p].cred].state = "active" =>
             Good(cred[endpoint[p].cred].key)
\* What was tried stays good, or becomes invalid by other means.
Activating == run.op # None /\ run.pc = "activate" => Good(cred[op[run.op].cand].key)
Applying == run.op # None /\ run.pc = "apply" =>
   LET r == op[run.op].request
   IN  /\ r.kind \in Additions \cup {"mailbox.endpoints"} =>
            Choosable(r) /\ \A p \in Protocols : r.want[p] # 0 => p \in conn.templates /\ Good(SecretOf(r, p))
       /\ r.kind = "connection.configure" => Enabled \subseteq r.templates

Service == OneActive /\ Templates /\ NoneLeftBehind /\ Serving /\ Activating /\ Applying

-----------------------------------------------------------------------------
(* What requests and failures are. *)

(* A request is one of its kind; it asks for endpoints that are off, for rows there are, or for
   the secret that is entered, and that is a password or a new one (the inputs of QueueOperation). *)
LEMMA RequestsAre ==
  ASSUME NoneIsNoOp, IMAPIsProtocol, LimitsAreNat, LocalTypes, RemoteTypes, NEW k \in Kinds, NEW r \in Requests(k)
  PROVE  /\ r \in Request /\ r.kind = k
         /\ r.secret \in {0, account.primary, fresh}
         /\ k = "mailbox.create" => r.entered = (r.secret # 0)
         /\ k = "mailbox.create" => r.secret \in {0, fresh}
         /\ k \in Additions => \A p \in Protocols : r.want[p] \in {0, New}
         /\ \A p \in Protocols : r.want[p] \in {0, New} \cup DOMAIN cred
<1> USE NoneIsNoOp, IMAPIsProtocol, LimitsAreNat
<1>1. MaxKeys \in Nat /\ MaxCreds \in Nat /\ New \in Nat /\ New = MaxCreds + 1 /\ Len(cred) \in Nat /\ DOMAIN cred = 1..Len(cred)
  BY DEF LocalTypes, New
<1>2. account.primary \in 0..MaxKeys /\ fresh \in 1..MaxKeys /\ fresh # 0
  BY <1>1 DEF RemoteTypes, Account, Keys
<1>3. DOMAIN cred \subseteq 0..New /\ {0, New} \subseteq 0..New
  BY <1>1 DEF LocalTypes
<1>4. \A w \in Wanted : /\ w \in [Protocols -> 0..New]
                        /\ \A p \in Protocols : w[p] \in {0, New} \cup DOMAIN cred
  BY DEF Wanted
<1>5. \A w \in Entered : w \in Wanted /\ \A p \in Protocols : w[p] \in {0, New}
  BY DEF Entered
<1>6. NoWish \in [Protocols -> 0..New] /\ \A p \in Protocols : NoWish[p] = 0
  BY <1>1 DEF NoWish
<1>7. r \in [kind : {k}, entered : BOOLEAN, secret : Typed \cup {fresh}, want : Wanted, templates : SUBSET Protocols]
  BY DEF Requests
<1>8. r.kind = k /\ r.want \in Wanted /\ r.secret \in {0, account.primary, fresh}
  BY <1>7 DEF Typed
<1>9. r \in Request
  <2>1. r.secret \in 0..MaxKeys BY <1>1, <1>2, <1>8
  <2>2. r.want \in [Protocols -> 0..New] BY <1>4, <1>8
  <2> QED BY <1>7, <2>1, <2>2 DEF Request
<1>10. Fits(r)
  BY DEF Requests
<1>11. CASE k = "mailbox.create"
  <2>1. r.entered \in BOOLEAN
    BY <1>7
  <2>2. CASE r.entered
    <3>1. r.secret = fresh /\ r.want \in Entered BY <1>8, <1>10, <1>11, <2>2 DEF Fits
    <3>2. r.entered = (r.secret # 0) BY <1>2, <2>1, <2>2, <3>1
    <3> QED BY <1>4, <1>5, <1>8, <1>9, <1>11, <3>1, <3>2
  <2>3. CASE ~r.entered
    <3>1. r.secret = 0 /\ r.want = NoWish BY <1>8, <1>10, <1>11, <2>3 DEF Fits
    <3>2. r.entered = (r.secret # 0) BY <2>1, <2>3, <3>1
    <3> QED BY <1>6, <1>8, <1>9, <1>11, <3>1, <3>2
  <2> QED BY <2>1, <2>2, <2>3
<1>12. CASE k = "mailbox.attach"
  BY <1>4, <1>5, <1>8, <1>9, <1>10, <1>12 DEF Fits
<1>13. CASE k \notin Additions
  BY <1>4, <1>8, <1>9, <1>13 DEF Additions
<1> QED BY <1>11, <1>12, <1>13 DEF Additions

\* A failure that ends an execution outside a call.
Failure ==
  /\ run.op # None /\ run.pc \in {"started", "confirm", "candidate", "verify", "activate", "refused", "validate", "check"}
  /\ op' = [op EXCEPT ![run.op].status = IF Effects(run.op) THEN "needs_action" ELSE "failed"]
  /\ run' = Idle /\ (trouble' = trouble \/ trouble' = trouble + 1)
  /\ UNCHANGED <<localVars, step, remoteVars, foreign, changes, history>>

(* Every check that does not hold, and every one that cannot be made, ends an execution alike
   (the last transaction of executeOperation). *)
LEMMA Failures ==
  ASSUME StartFails \/ ConfirmFails \/ CandidateFails \/ VerifyFails \/ ActivateFails \/ RevokeFails
         \/ ValidateFails \/ CheckFails
  PROVE  Failure
<1> USE DEF Failure, Fail, FailUnless, Conclude, At, bounds, localVars, remoteVars, history
<1>1. StartFails => Failure BY DEF StartFails
<1>2. ConfirmFails => Failure BY DEF ConfirmFails
<1>3. CandidateFails => Failure BY DEF CandidateFails
<1>4. VerifyFails => Failure BY DEF VerifyFails
<1>5. ActivateFails => Failure BY DEF ActivateFails
<1>6. RevokeFails => Failure BY DEF RevokeFails
<1>7. ValidateFails => Failure BY DEF ValidateFails
<1>8. CheckFails => Failure BY DEF CheckFails
<1> QED BY <1>1, <1>2, <1>3, <1>4, <1>5, <1>6, <1>7, <1>8

-----------------------------------------------------------------------------
(* What each action does to the rows of credentials. *)

\* A row is added, and the others stay.
Adds(row) == /\ row \in RowOf /\ cred' \in Seq(RowOf) /\ Len(cred') = Len(cred) + 1 /\ Len(cred') <= MaxCreds
             /\ Rows' = Rows \cup {Len(cred) + 1} /\ Len(cred) + 1 \notin Rows /\ Len(cred) + 1 \in 1..MaxCreds
             /\ \A c \in Rows : cred'[c] = cred[c]
             /\ cred'[Len(cred) + 1] = row
\* The rows there are keep what they are about.
SameRows == /\ cred' \in Seq(RowOf) /\ Len(cred') = Len(cred) /\ Rows' = Rows
            /\ \A c \in Rows : cred'[c].source = cred[c].source /\ cred'[c].key = cred[c].key
Secret(c) == cred[c].secret
EnteredRow(r) == [source |-> "entered", state |-> "active", key |-> r.secret, secret |-> TRUE]

(* Appending a row. *)
LEMMA AppendedRow ==
  ASSUME NEW s \in Seq(RowOf), NEW row \in RowOf
  PROVE  /\ Append(s, row) \in Seq(RowOf) /\ Len(Append(s, row)) = Len(s) + 1
         /\ DOMAIN Append(s, row) = DOMAIN s \cup {Len(s) + 1} /\ Len(s) + 1 \notin DOMAIN s
         /\ \A c \in DOMAIN s : Append(s, row)[c] = s[c]
         /\ Append(s, row)[Len(s) + 1] = row
         /\ DOMAIN s = 1..Len(s) /\ Len(s) \in Nat
<1>1. /\ DOMAIN s = 1..Len(s) /\ Len(s) \in Nat
      /\ Append(s, row) \in Seq(RowOf) /\ Len(Append(s, row)) = Len(s) + 1
      /\ \A i \in 1..Len(s) : Append(s, row)[i] = s[i]
      /\ Append(s, row)[Len(s) + 1] = row
  BY AppendProperties
<1>2. DOMAIN Append(s, row) = 1..(Len(s) + 1)
  BY <1>1
<1>3. 1..(Len(s) + 1) = 1..Len(s) \cup {Len(s) + 1} /\ Len(s) + 1 \notin 1..Len(s)
  BY <1>1
<1> QED BY <1>1, <1>2, <1>3

(* A function on the positions of a sequence is one. *)
LEMMA MappedRows ==
  ASSUME NEW s \in Seq(RowOf), NEW f \in [DOMAIN s -> RowOf]
  PROVE  f \in Seq(RowOf) /\ Len(f) = Len(s) /\ DOMAIN f = DOMAIN s
<1>1. DOMAIN s = 1..Len(s) /\ Len(s) \in Nat
  OBVIOUS
<1>2. f \in [1..Len(s) -> RowOf]
  BY <1>1
<1>3. f \in Seq(RowOf)
  BY <1>1, <1>2, SeqDef
<1>4. DOMAIN f = 1..Len(f) /\ Len(f) \in Nat
  BY <1>3
<1>5. 1..Len(f) = 1..Len(s)
  BY <1>1, <1>2, <1>4
<1>6. Len(f) = Len(s)
  BY <1>1, <1>4, <1>5
<1> QED BY <1>1, <1>3, <1>4, <1>5, <1>6

(* managedCredential saves the secret that was returned, or fails to. *)
LEMMA RowsKept ==
  ASSUME LimitsAreNat, LocalTypes, OpTypes, Keep
  PROVE  \/ cred' = cred /\ op' = op /\ run' = [run EXCEPT !.answer = "unknown", !.secret = 0]
         \/ /\ Adds([source |-> "managed", state |-> "candidate", key |-> run.secret, secret |-> TRUE])
            /\ op' = [op EXCEPT ![run.op].cand = Len(cred) + 1] /\ run' = run
<1> DEFINE row == [source |-> "managed", state |-> "candidate", key |-> run.secret, secret |-> TRUE]
<1>1. row \in RowOf
  BY DEF OpTypes, RunRow, RowOf
<1>2. cred \in Seq(RowOf) /\ MaxCreds \in Nat
  BY LimitsAreNat DEF LocalTypes
<1>3. \/ cred' = cred /\ op' = op /\ run' = [run EXCEPT !.answer = "unknown", !.secret = 0]
      \/ /\ Len(cred) < MaxCreds /\ cred' = Append(cred, row)
         /\ op' = [op EXCEPT ![run.op].cand = Len(cred) + 1] /\ run' = run
  BY DEF Keep
<1> HIDE DEF row
<1>4. ASSUME Len(cred) < MaxCreds, cred' = Append(cred, row) PROVE Adds(row)
  BY <1>1, <1>2, <1>4, AppendedRow DEF Adds, Rows
<1>5. CASE cred' = cred /\ op' = op /\ run' = [run EXCEPT !.answer = "unknown", !.secret = 0]
  BY <1>5
<1>6. CASE /\ Len(cred) < MaxCreds /\ cred' = Append(cred, row)
           /\ op' = [op EXCEPT ![run.op].cand = Len(cred) + 1] /\ run' = run
  BY <1>4, <1>6 DEF row
<1> QED BY <1>3, <1>5, <1>6

(* The rows with an entered credential, if there is one. *)
LEMMA RowsWithEntered ==
  ASSUME LimitsAreNat, LocalTypes, NEW r \in Request, Room(r), NEW rows, rows = WithEntered(r)
  PROVE  /\ rows \in Seq(RowOf) /\ Len(rows) <= MaxCreds /\ \A c \in Rows : c \in DOMAIN rows /\ rows[c] = cred[c]
         /\ (\A p \in Protocols : r.want[p] # New) => rows = cred
         /\ (\E p \in Protocols : r.want[p] = New) =>
              /\ DOMAIN rows = Rows \cup {Len(cred) + 1} /\ Len(cred) + 1 \notin Rows /\ Len(rows) = Len(cred) + 1
              /\ rows[Len(cred) + 1] = EnteredRow(r) /\ Len(cred) + 1 \in 1..MaxCreds
<1>1. EnteredRow(r) \in RowOf
  BY DEF EnteredRow, Request, RowOf
<1>2. cred \in Seq(RowOf) /\ MaxCreds \in Nat /\ Len(cred) \in Nat /\ Len(cred) <= MaxCreds
  BY LimitsAreNat DEF LocalTypes
<1>3. CASE \A p \in Protocols : r.want[p] # New
  BY <1>2, <1>3 DEF WithEntered, Rows
<1>4. CASE \E p \in Protocols : r.want[p] = New
  <2>1. rows = Append(cred, EnteredRow(r)) /\ Len(cred) < MaxCreds
    BY <1>4 DEF WithEntered, EnteredRow, Room
  <2> QED BY <1>1, <1>2, <1>4, <2>1, AppendedRow DEF Rows
<1> QED BY <1>3, <1>4

(* enteredCreationCredential and AttachMailbox add the entered credential. *)
LEMMA RowsEntered ==
  ASSUME LimitsAreNat, LocalTypes, OpTypes, Control, SaveEntered \/ Attach
  PROVE  LET r == op[run.op].request
         IN  /\ r \in Request
             /\ (\A p \in Protocols : r.want[p] # New) => cred' = cred
             /\ (\E p \in Protocols : r.want[p] = New) => Adds(EnteredRow(r))
<1> DEFINE r == op[run.op].request
<1>1. run.op \in Ops /\ r \in Request
  BY DEF SaveEntered, Attach, Applies, At, Control, Executing, Requested, Open, Live, OpTypes, RunRow
<1>2. cred' = WithEntered(r) /\ Room(r)
  BY DEF SaveEntered, Attach
<1> HIDE DEF r
<1>3. EnteredRow(r) \in RowOf
  BY <1>1 DEF EnteredRow, Request, RowOf
<1>4. (\A p \in Protocols : r.want[p] # New) => cred' = cred
  BY <1>1, <1>2, RowsWithEntered
<1>5. (\E p \in Protocols : r.want[p] = New) => Adds(EnteredRow(r))
  BY <1>1, <1>2, <1>3, RowsWithEntered DEF Adds, Rows
<1> QED BY <1>1, <1>4, <1>5 DEF r

(* UpdateEndpoints adds it, and retires entered credentials that no endpoint uses. *)
LEMMA RowsUpdated ==
  ASSUME LimitsAreNat, LocalTypes, OpTypes, Control, UpdateEndpoints
  PROVE  LET r == op[run.op].request
             new == \E p \in Protocols : r.want[p] = New
         IN  /\ r \in Request /\ cred' \in Seq(RowOf) /\ Len(cred') <= MaxCreds
             /\ Rows' = IF new THEN Rows \cup {Len(cred) + 1} ELSE Rows
             /\ Len(cred) + 1 \notin Rows
             /\ new => Len(cred) + 1 \in 1..MaxCreds /\ cred'[Len(cred) + 1] = EnteredRow(r)
             /\ \A c \in Rows : /\ cred'[c].source = cred[c].source /\ cred'[c].key = cred[c].key
                                /\ cred'[c].secret = cred[c].secret
                                /\ \/ cred'[c] = cred[c]
                                   \/ /\ cred[c].source = "entered" /\ cred'[c].state = "retired"
                                      /\ \A p \in Protocols : endpoint'[p].cred # c
<1> DEFINE r == op[run.op].request
           new == \E p \in Protocols : r.want[p] = New
           rows == WithEntered(r)
           eps == EndpointsOf(r)
<1>1. run.op \in Ops /\ r \in Request
  BY DEF UpdateEndpoints, Applies, At, Control, Executing, Requested, Open, Live, OpTypes, RunRow
<1>2. cred' = Retire(rows, eps) /\ Room(r) /\ endpoint' = eps
  BY DEF UpdateEndpoints
<1>b. rows = WithEntered(r) /\ eps = EndpointsOf(r)
  OBVIOUS
<1> HIDE DEF r, rows, eps
<1>3. /\ rows \in Seq(RowOf) /\ Len(rows) <= MaxCreds /\ \A c \in Rows : c \in DOMAIN rows /\ rows[c] = cred[c]
      /\ ~new => rows = cred
      /\ new => /\ DOMAIN rows = Rows \cup {Len(cred) + 1} /\ Len(cred) + 1 \notin Rows
                /\ rows[Len(cred) + 1] = EnteredRow(r) /\ Len(cred) + 1 \in 1..MaxCreds
  <2>1. /\ rows \in Seq(RowOf) /\ Len(rows) <= MaxCreds /\ \A c \in Rows : c \in DOMAIN rows /\ rows[c] = cred[c]
        /\ (\A p \in Protocols : r.want[p] # New) => rows = cred
        /\ (\E p \in Protocols : r.want[p] = New) =>
              /\ DOMAIN rows = Rows \cup {Len(cred) + 1} /\ Len(cred) + 1 \notin Rows /\ Len(rows) = Len(cred) + 1
              /\ rows[Len(cred) + 1] = EnteredRow(r) /\ Len(cred) + 1 \in 1..MaxCreds
    BY <1>1, <1>2, <1>b, RowsWithEntered
  <2>2. ~new => \A p \in Protocols : r.want[p] # New
    OBVIOUS
  <2> HIDE DEF new
  <2>3. CASE new
    <3>1. \E p \in Protocols : r.want[p] = New BY <2>3 DEF new
    <3> QED BY <2>1, <2>3, <3>1
  <2>4. CASE ~new
    BY <2>1, <2>2, <2>4
  <2> QED BY <2>3, <2>4
<1>4. new => \E p \in Protocols : eps[p].cred = Len(cred) + 1
  <2>1. ASSUME NEW p \in Protocols, r.want[p] = New PROVE eps[p].cred = Len(cred) + 1
    <3>1. New # 0
      BY LimitsAreNat DEF New
    <3>2. eps[p] = [mode |-> "inherit", cred |-> Len(cred) + 1, checked |-> conn.revision]
      BY <1>b, <2>1, <3>1 DEF EndpointsOf
    <3> QED BY <3>2
  <2> QED BY <2>1
<1>a. Len(cred) + 1 \notin Rows
  BY DEF LocalTypes, Rows
<1> HIDE DEF new
<1>5. \A c \in DOMAIN rows : rows[c] \in RowOf
  BY <1>3
<1>6. \A c \in DOMAIN rows :
        /\ Retire(rows, eps)[c] \in RowOf
        /\ Retire(rows, eps)[c].source = rows[c].source /\ Retire(rows, eps)[c].key = rows[c].key
        /\ Retire(rows, eps)[c].secret = rows[c].secret
        /\ \/ Retire(rows, eps)[c] = rows[c]
           \/ rows[c].source = "entered" /\ Retire(rows, eps)[c].state = "retired" /\ \A p \in Protocols : eps[p].cred # c
  <2> SUFFICES ASSUME NEW c \in DOMAIN rows
               PROVE  /\ Retire(rows, eps)[c] \in RowOf
                      /\ Retire(rows, eps)[c].source = rows[c].source /\ Retire(rows, eps)[c].key = rows[c].key
                      /\ Retire(rows, eps)[c].secret = rows[c].secret
                      /\ \/ Retire(rows, eps)[c] = rows[c]
                         \/ /\ rows[c].source = "entered" /\ Retire(rows, eps)[c].state = "retired"
                            /\ \A p \in Protocols : eps[p].cred # c
    OBVIOUS
  <2>1. CASE rows[c].source = "entered" /\ rows[c].state = "active" /\ \A p \in Protocols : eps[p].cred # c
    <3>1. Retire(rows, eps)[c] = [rows[c] EXCEPT !.state = "retired"]
      BY <2>1 DEF Retire
    <3> QED BY <1>5, <2>1, <3>1 DEF RowOf
  <2>2. CASE ~(rows[c].source = "entered" /\ rows[c].state = "active" /\ \A p \in Protocols : eps[p].cred # c)
    <3>1. Retire(rows, eps)[c] = rows[c]
      BY <2>2 DEF Retire
    <3> QED BY <1>5, <2>2, <3>1
  <2> QED BY <2>1, <2>2
<1>7. Retire(rows, eps) \in [DOMAIN rows -> RowOf]
  BY <1>6 DEF Retire
<1>8. cred' \in Seq(RowOf) /\ Len(cred') = Len(rows) /\ DOMAIN cred' = DOMAIN rows
  BY <1>2, <1>3, <1>7, MappedRows
<1>9. Rows' = (IF new THEN Rows \cup {Len(cred) + 1} ELSE Rows) /\ Len(cred') <= MaxCreds
  BY <1>3, <1>8 DEF Rows
<1>10. new => cred'[Len(cred) + 1] = EnteredRow(r)
  BY <1>2, <1>3, <1>4, <1>6
<1>11. \A c \in Rows : /\ cred'[c].source = cred[c].source /\ cred'[c].key = cred[c].key
                       /\ cred'[c].secret = cred[c].secret
                       /\ \/ cred'[c] = cred[c]
                          \/ /\ cred[c].source = "entered" /\ cred'[c].state = "retired"
                             /\ \A p \in Protocols : endpoint'[p].cred # c
  BY <1>2, <1>3, <1>6
<1> QED BY <1>1, <1>3, <1>8, <1>9, <1>10, <1>11, <1>a DEF r, new

\* c is activated: the rows of the other app passwords in use are to be revoked.
ActivatedState(c, d) ==
  IF d = c /\ cred[d].state = "candidate" THEN "active"
  ELSE IF d # c /\ cred[d].source = "managed" /\ cred[d].state = "active" THEN "revocation_pending" ELSE cred[d].state

(* managedCredential activates its candidate. *)
LEMMA RowsActivated ==
  ASSUME LocalTypes, Activate
  PROVE  LET c == op[run.op].cand
         IN  /\ SameRows
             /\ \A d \in Rows : cred'[d].secret = cred[d].secret
             /\ \/ cred[c].state = "active" /\ UNCHANGED <<cred, endpoint, mailbox, op>>
                \/ /\ cred[c].state # "active" /\ \A d \in Rows : cred'[d].state = ActivatedState(c, d)
                   /\ endpoint' = Activated(c) /\ mailbox' = [mailbox EXCEPT !.revision = mailbox.revision + 1]
                   /\ op' = [op EXCEPT ![run.op].active = mailbox.revision + 1]
<1> DEFINE c == op[run.op].cand
           f == [d \in DOMAIN cred |->
                   IF d = c /\ cred[d].state = "candidate" THEN [cred[d] EXCEPT !.state = "active"]
                   ELSE IF d # c /\ d \in OfState({"active"}) THEN [cred[d] EXCEPT !.state = "revocation_pending"]
                   ELSE cred[d]]
<1>1. \/ cred[c].state = "active" /\ UNCHANGED <<cred, endpoint, mailbox, op>>
      \/ /\ cred[c].state # "active" /\ cred' = f
         /\ endpoint' = Activated(c) /\ mailbox' = [mailbox EXCEPT !.revision = mailbox.revision + 1]
         /\ op' = [op EXCEPT ![run.op].active = mailbox.revision + 1]
  BY DEF Activate
<1> HIDE DEF c
<1>2. cred \in Seq(RowOf) /\ \A d \in Rows : cred[d] \in RowOf
  BY DEF LocalTypes, Rows
<1>3. ASSUME UNCHANGED cred PROVE SameRows /\ \A d \in Rows : cred'[d].secret = cred[d].secret
  BY <1>2, <1>3 DEF SameRows, Rows
<1>4. ASSUME cred' = f PROVE SameRows /\ \A d \in Rows : cred'[d].secret = cred[d].secret
  <2>1. ASSUME NEW d \in Rows
        PROVE  /\ f[d] \in RowOf /\ f[d].source = cred[d].source /\ f[d].key = cred[d].key
               /\ f[d].secret = cred[d].secret /\ f[d].state = ActivatedState(c, d)
    <3>0. d \in DOMAIN cred /\ cred[d] \in RowOf BY <1>2 DEF Rows
    <3>1. CASE d = c /\ cred[d].state = "candidate"
      <4>1. f[d] = [cred[d] EXCEPT !.state = "active"] BY <3>0, <3>1
      <4>2. ActivatedState(c, d) = "active" BY <3>1 DEF ActivatedState
      <4> HIDE DEF f
      <4> QED BY <3>0, <4>1, <4>2 DEF RowOf
    <3>2. CASE d # c /\ cred[d].source = "managed" /\ cred[d].state = "active"
      <4>1. f[d] = [cred[d] EXCEPT !.state = "revocation_pending"] BY <3>0, <3>2 DEF OfState
      <4>2. ActivatedState(c, d) = "revocation_pending" BY <3>2 DEF ActivatedState
      <4> HIDE DEF f
      <4> QED BY <3>0, <4>1, <4>2 DEF RowOf
    <3>3. CASE ~(d = c /\ cred[d].state = "candidate") /\ ~(d # c /\ cred[d].source = "managed" /\ cred[d].state = "active")
      <4>1. f[d] = cred[d] BY <3>0, <3>3 DEF OfState
      <4>2. ActivatedState(c, d) = cred[d].state BY <3>3 DEF ActivatedState
      <4> HIDE DEF f
      <4> QED BY <3>0, <4>1, <4>2
    <3> QED BY <3>1, <3>2, <3>3
  <2>2. f \in [DOMAIN cred -> RowOf]
    BY <2>1 DEF Rows
  <2> HIDE DEF f
  <2>3. cred' \in Seq(RowOf) /\ Len(cred') = Len(cred) /\ DOMAIN cred' = DOMAIN cred
    BY <1>2, <1>4, <2>2, MappedRows
  <2> QED BY <1>4, <2>1, <2>3 DEF SameRows, Rows
<1>5. SameRows /\ \A d \in Rows : cred'[d].secret = cred[d].secret
  BY <1>1, <1>3, <1>4
<1>6. cred' = f => \A d \in Rows : cred'[d].state = ActivatedState(c, d)
  <2> SUFFICES ASSUME cred' = f, NEW d \in Rows PROVE f[d].state = ActivatedState(c, d)
    OBVIOUS
  <2>0. d \in DOMAIN cred /\ cred[d] \in RowOf BY <1>2 DEF Rows
  <2>1. CASE d = c /\ cred[d].state = "candidate"
    BY <2>0, <2>1 DEF ActivatedState, RowOf
  <2>2. CASE d # c /\ cred[d].source = "managed" /\ cred[d].state = "active"
    BY <2>0, <2>2 DEF ActivatedState, OfState, RowOf
  <2>3. CASE ~(d = c /\ cred[d].state = "candidate") /\ ~(d # c /\ cred[d].source = "managed" /\ cred[d].state = "active")
    BY <2>0, <2>3 DEF ActivatedState, OfState
  <2> QED BY <2>1, <2>2, <2>3
<1> HIDE DEF f
<1> QED BY <1>1, <1>5, <1>6 DEF c

(* A row whose secret every endpoint refuses is shown as revoked. *)
LEMMA RowsRevoked ==
  ASSUME LocalTypes, Revoked
  PROVE  /\ SameRows
         /\ \A d \in Rows : IF d = run.old THEN cred'[d].state = "revoked" /\ ~cred'[d].secret ELSE cred'[d] = cred[d]
         /\ Refuses(run.old)
<1>1. cred' = [cred EXCEPT ![run.old].state = "revoked", ![run.old].secret = FALSE] /\ Refuses(run.old)
  BY DEF Revoked, IsRefused
<1>2. cred \in Seq(RowOf) /\ \A d \in Rows : cred[d] \in RowOf
  BY DEF LocalTypes, Rows
<1>3. ASSUME NEW d \in Rows
      PROVE  /\ cred'[d] \in RowOf /\ cred'[d].source = cred[d].source /\ cred'[d].key = cred[d].key
             /\ IF d = run.old THEN cred'[d].state = "revoked" /\ ~cred'[d].secret ELSE cred'[d] = cred[d]
  <2>0. d \in DOMAIN cred /\ cred[d] \in RowOf BY <1>2 DEF Rows
  <2>1. CASE d = run.old
    <3>1. cred'[d] = [[cred[d] EXCEPT !.state = "revoked"] EXCEPT !.secret = FALSE] BY <1>1, <2>0, <2>1
    <3> QED BY <2>0, <2>1, <3>1 DEF RowOf
  <2>2. CASE d # run.old
    <3>1. cred'[d] = cred[d] BY <1>1, <2>0, <2>2
    <3> QED BY <2>0, <2>2, <3>1
  <2> QED BY <2>1, <2>2
<1>4. DOMAIN cred' = DOMAIN cred
  BY <1>1, <1>2
<1>5. cred' \in [DOMAIN cred -> RowOf]
  <2>1. cred \in [DOMAIN cred -> RowOf] BY <1>2 DEF Rows
  <2>2. \A d \in DOMAIN cred : cred'[d] \in RowOf BY <1>3 DEF Rows
  <2> QED BY <1>1, <2>1, <2>2
<1>6. cred' \in Seq(RowOf) /\ Len(cred') = Len(cred)
  BY <1>2, <1>5, MappedRows
<1> QED BY <1>1, <1>3, <1>4, <1>6 DEF SameRows, Rows

(* The rows of a mailbox that is gone (executeMailboxManagement). *)
LEMMA RowsForgotten ==
  ASSUME LocalTypes, OpTypes, Commit
  PROVE  /\ SameRows
         /\ Kind(run.op) # "mailbox.deleteRemote" => cred' = cred
         /\ Kind(run.op) = "mailbox.deleteRemote" =>
              \A d \in Rows : IF cred[d].source = "entered" THEN cred'[d].state = "retired" /\ cred'[d].secret = cred[d].secret
                              ELSE cred'[d].state = "revoked" /\ ~cred'[d].secret
<1> DEFINE f == [c \in DOMAIN cred |-> Forgotten(c)]
<1>1. /\ Kind(run.op) # "mailbox.deleteRemote" => cred' = cred
      /\ Kind(run.op) = "mailbox.deleteRemote" => cred' = f
  <2>1. CASE Kind(run.op) = "mailbox.create" BY <2>1 DEF Commit, kind, Kind
  <2>2. CASE Kind(run.op) = "mailbox.deleteRemote" BY <2>2 DEF Commit, kind, Kind
  <2>3. CASE Kind(run.op) \notin {"mailbox.create", "mailbox.deleteRemote"} BY <2>3 DEF Commit, kind, Kind
  <2> QED BY <2>1, <2>2, <2>3
<1>2. cred \in Seq(RowOf) /\ \A d \in Rows : cred[d] \in RowOf
  BY DEF LocalTypes, Rows
<1>3. ASSUME NEW d \in Rows
      PROVE  /\ f[d] \in RowOf /\ f[d].source = cred[d].source /\ f[d].key = cred[d].key
             /\ IF cred[d].source = "entered" THEN f[d].state = "retired" /\ f[d].secret = cred[d].secret
                ELSE f[d].state = "revoked" /\ ~f[d].secret
  <2>0. d \in DOMAIN cred /\ cred[d] \in RowOf BY <1>2 DEF Rows
  <2>1. CASE cred[d].source = "entered"
    <3>1. f[d] = [cred[d] EXCEPT !.state = "retired"] BY <2>0, <2>1 DEF Forgotten
    <3> HIDE DEF f
    <3> QED BY <2>0, <2>1, <3>1 DEF RowOf
  <2>2. CASE cred[d].source # "entered"
    <3>1. f[d] = [[cred[d] EXCEPT !.state = "revoked"] EXCEPT !.secret = FALSE] BY <2>0, <2>2 DEF Forgotten
    <3> HIDE DEF f
    <3> QED BY <2>0, <2>2, <3>1 DEF RowOf
  <2> QED BY <2>1, <2>2
<1>4. f \in [DOMAIN cred -> RowOf]
  BY <1>3 DEF Rows
<1> HIDE DEF f
<1>5. f \in Seq(RowOf) /\ Len(f) = Len(cred) /\ DOMAIN f = DOMAIN cred
  BY <1>2, <1>4, MappedRows
<1>6. CASE Kind(run.op) # "mailbox.deleteRemote"
  BY <1>1, <1>2, <1>6 DEF SameRows, Rows
<1>7. CASE Kind(run.op) = "mailbox.deleteRemote"
  BY <1>1, <1>3, <1>5, <1>7 DEF SameRows, Rows
<1> QED BY <1>6, <1>7

(* ConfirmExternalOperation takes every credential out of use. *)
LEMMA RowsDisused ==
  ASSUME LocalTypes, NEW o \in Ops, ConfirmExternal(o)
  PROVE  /\ SameRows
         /\ \A d \in Rows : cred'[d].secret = cred[d].secret /\ cred'[d].state \in {cred[d].state, "retired"}
                            /\ cred'[d].state \in {"revoked", "retired"}
<1> DEFINE f == [c \in DOMAIN cred |-> IF cred[c].state \in {"active", "candidate", "revocation_pending"}
                                       THEN [cred[c] EXCEPT !.state = "retired"] ELSE cred[c]]
<1>1. cred' = f
  BY DEF ConfirmExternal
<1>2. cred \in Seq(RowOf) /\ \A d \in Rows : cred[d] \in RowOf
  BY DEF LocalTypes, Rows
<1>3. ASSUME NEW d \in Rows
      PROVE  /\ f[d] \in RowOf /\ f[d].source = cred[d].source /\ f[d].key = cred[d].key
             /\ f[d].secret = cred[d].secret /\ f[d].state \in {cred[d].state, "retired"}
             /\ f[d].state \in {"revoked", "retired"}
  <2>0. d \in DOMAIN cred /\ cred[d] \in RowOf BY <1>2 DEF Rows
  <2>1. CASE cred[d].state \in {"active", "candidate", "revocation_pending"}
    <3>1. f[d] = [cred[d] EXCEPT !.state = "retired"] BY <2>0, <2>1
    <3> HIDE DEF f
    <3> QED BY <2>0, <2>1, <3>1 DEF RowOf
  <2>2. CASE cred[d].state \notin {"active", "candidate", "revocation_pending"}
    <3>1. f[d] = cred[d] BY <2>0, <2>2
    <3> HIDE DEF f
    <3> QED BY <2>0, <2>2, <3>1 DEF RowOf
  <2> QED BY <2>1, <2>2
<1>4. f \in [DOMAIN cred -> RowOf]
  BY <1>3 DEF Rows
<1> HIDE DEF f
<1>5. f \in Seq(RowOf) /\ Len(f) = Len(cred) /\ DOMAIN f = DOMAIN cred
  BY <1>2, <1>4, MappedRows
<1> QED BY <1>1, <1>3, <1>5 DEF SameRows, Rows

-----------------------------------------------------------------------------
(* What each action does to the endpoints. *)

(* managedCredential: the endpoints the candidate is for use it. *)
LEMMA EndpointsActivated ==
  ASSUME LocalTypes, NEW c \in 0..MaxCreds
  PROVE  /\ Activated(c) \in [Protocols -> EndpointRow]
         /\ \A p \in Protocols :
              /\ Activated(c)[p].mode = endpoint[p].mode
              /\ IF p \in For(c) THEN Activated(c)[p].cred = c ELSE Activated(c)[p] = endpoint[p]
<1>1. conn.revision \in Nat /\ \A p \in Protocols : endpoint[p] \in EndpointRow
  BY DEF LocalTypes, ConnectionRow
<1>2. ASSUME NEW p \in Protocols
      PROVE  /\ Activated(c)[p] \in EndpointRow /\ Activated(c)[p].mode = endpoint[p].mode
             /\ IF p \in For(c) THEN Activated(c)[p].cred = c ELSE Activated(c)[p] = endpoint[p]
  <2>1. CASE p \in For(c)
    <3>1. Activated(c)[p] = [endpoint[p] EXCEPT !.cred = c, !.checked = conn.revision]
      BY <2>1 DEF Activated
    <3> QED BY <1>1, <2>1, <3>1 DEF EndpointRow
  <2>2. CASE p \notin For(c)
    <3>1. Activated(c)[p] = endpoint[p]
      BY <2>2 DEF Activated
    <3> QED BY <1>1, <2>2, <3>1
  <2> QED BY <2>1, <2>2
<1>3. Activated(c) = [p \in Protocols |-> Activated(c)[p]]
  BY DEF Activated
<1>4. Activated(c) \in [Protocols -> EndpointRow]
  BY <1>2, <1>3
<1> QED BY <1>2, <1>4

(* AttachMailbox and the others save what was asked for. *)
LEMMA EndpointsWanted ==
  ASSUME LimitsAreNat, LocalTypes, NEW r \in Request, Room(r)
  PROVE  /\ EndpointsOf(r) \in [Protocols -> EndpointRow]
         /\ \A p \in Protocols :
              IF r.want[p] = 0 THEN EndpointsOf(r)[p] = Off
              ELSE /\ EndpointsOf(r)[p].mode = "inherit"
                   /\ EndpointsOf(r)[p].cred = IF r.want[p] = New THEN Len(cred) + 1 ELSE r.want[p]
<1>1. conn.revision \in Nat /\ MaxCreds \in Nat /\ New = MaxCreds + 1 /\ Len(cred) \in Nat /\ Len(cred) <= MaxCreds
  BY LimitsAreNat DEF LocalTypes, ConnectionRow, New
<1>2. ASSUME NEW p \in Protocols
      PROVE  /\ EndpointsOf(r)[p] \in EndpointRow
             /\ IF r.want[p] = 0 THEN EndpointsOf(r)[p] = Off
                ELSE /\ EndpointsOf(r)[p].mode = "inherit"
                     /\ EndpointsOf(r)[p].cred = IF r.want[p] = New THEN Len(cred) + 1 ELSE r.want[p]
  <2>0. r.want[p] \in 0..(MaxCreds + 1)
    BY <1>1 DEF Request
  <2>1. CASE r.want[p] = 0
    <3>1. EndpointsOf(r)[p] = Off
      BY <2>1 DEF EndpointsOf
    <3>2. Off \in EndpointRow
      BY <1>1 DEF Off, EndpointRow
    <3> QED BY <2>1, <3>1, <3>2
  <2>2. CASE r.want[p] = New
    <3>1. EndpointsOf(r)[p] = [mode |-> "inherit", cred |-> Len(cred) + 1, checked |-> conn.revision]
      BY <1>1, <2>2 DEF EndpointsOf
    <3>2. Len(cred) + 1 \in 0..MaxCreds
      BY <1>1, <2>2 DEF Room
    <3> QED BY <1>1, <2>2, <3>1, <3>2 DEF EndpointRow
  <2>3. CASE r.want[p] # 0 /\ r.want[p] # New
    <3>1. EndpointsOf(r)[p] = [mode |-> "inherit", cred |-> r.want[p], checked |-> conn.revision]
      BY <2>3 DEF EndpointsOf
    <3>2. r.want[p] \in 0..MaxCreds
      <4> DEFINE w == r.want[p]
      <4>1. w \in 0..(MaxCreds + 1) /\ w # MaxCreds + 1 /\ MaxCreds \in Nat
        BY <1>1, <2>0, <2>3
      <4> HIDE DEF w
      <4>2. w \in 0..MaxCreds
        BY <4>1
      <4> QED BY <4>2 DEF w
    <3> QED BY <1>1, <2>3, <3>1, <3>2 DEF EndpointRow
  <2> QED BY <2>1, <2>2, <2>3
<1>3. EndpointsOf(r) = [p \in Protocols |-> EndpointsOf(r)[p]]
  BY DEF EndpointsOf
<1>4. EndpointsOf(r) \in [Protocols -> EndpointRow]
  BY <1>2, <1>3
<1> QED BY <1>2, <1>4

-----------------------------------------------------------------------------
(* Types. *)

(* Rows keep their types. *)
LEMMA LocalTypesStep ==
  ASSUME NoneIsNoOp, IMAPIsProtocol, LimitsAreNat, LocalTypes, OpTypes, Control, Next
  PROVE  LocalTypes'
<1> USE LimitsAreNat DEF vars, localVars, opVars, bounds, history, remoteVars
<1>a. /\ conn \in ConnectionRow /\ mailbox \in MailboxRow /\ endpoint \in [Protocols -> EndpointRow]
      /\ cred \in Seq(RowOf) /\ Len(cred) <= MaxCreds /\ MaxCreds \in Nat /\ Len(cred) \in Nat
  BY LimitsAreNat DEF LocalTypes
<1>b. /\ mailbox.revision + 1 \in Nat /\ conn.revision \in Nat /\ conn.revision + 1 \in Nat /\ 0 \in Nat
      /\ mailbox.status \in {"none", "active", "suspended", "archived"}
  BY <1>a DEF MailboxRow, ConnectionRow
<1>1. ASSUME NEW o \in Ops, NEW k \in Kinds, Queue(o, k) PROVE LocalTypes'
  <2>1. UNCHANGED <<conn, endpoint, cred>>
    BY <1>1 DEF Queue
  <2>2. mailbox' \in MailboxRow
    <3>1. mailbox' = mailbox \/ mailbox' = [mailbox EXCEPT !.status = "archived", !.revision = mailbox.revision + 1]
      BY <1>1 DEF Queue
    <3>r1. [mailbox EXCEPT !.status = "archived", !.revision = mailbox.revision + 1] \in MailboxRow
      BY <1>a, <1>b DEF MailboxRow
    <3> QED BY <1>a, <3>1, <3>r1
  <2> QED BY <2>1, <2>2 DEF LocalTypes
<1>2. ASSUME NEW o \in Ops, ConfirmExternal(o) PROVE LocalTypes'
  <2>1. UNCHANGED <<conn, endpoint>>
    BY <1>2 DEF ConfirmExternal
  <2>2. mailbox' \in MailboxRow
    <3>1. mailbox' = [mailbox EXCEPT !.revision = mailbox.revision + 1]
      BY <1>2 DEF ConfirmExternal
    <3>r1. [mailbox EXCEPT !.revision = mailbox.revision + 1] \in MailboxRow
      BY <1>a, <1>b DEF MailboxRow
    <3> QED BY <1>a, <3>1, <3>r1
  <2>3. cred' \in Seq(RowOf) /\ Len(cred') <= MaxCreds
    BY <1>a, <1>2, RowsDisused DEF SameRows
  <2> QED BY <2>1, <2>2, <2>3 DEF LocalTypes
<1>3. ASSUME Keep PROVE LocalTypes'
  <2>1. UNCHANGED <<conn, mailbox, endpoint>>
    BY <1>3 DEF Keep
  <2>2. cred' \in Seq(RowOf) /\ Len(cred') <= MaxCreds
    BY <1>a, <1>3, RowsKept DEF Adds
  <2> QED BY <2>1, <2>2 DEF LocalTypes
<1>4. ASSUME Reserve PROVE LocalTypes'
  <2>1. UNCHANGED <<conn, cred>>
    BY <1>4 DEF Reserve, MarkDone, Goto
  <2>2. mailbox' \in MailboxRow
    <3>1. mailbox' = mailbox \/ mailbox' = [status |-> "suspended", mode |-> "api", remote |-> "unknown", revision |-> 1]
      BY <1>4 DEF Reserve
    <3> QED BY <1>a, <3>1 DEF MailboxRow
  <2>3. endpoint' \in [Protocols -> EndpointRow]
    <3> DEFINE r == op[run.op].request
               f == [p \in Protocols |-> IF p \in conn.templates /\ ~r.entered THEN [Off EXCEPT !.mode = "inherit"] ELSE Off]
    <3>1. endpoint' = endpoint \/ endpoint' = f
      BY <1>4 DEF Reserve
    <3>2. Off \in EndpointRow /\ [Off EXCEPT !.mode = "inherit"] \in EndpointRow
      BY <1>a DEF Off, EndpointRow
    <3>3. f \in [Protocols -> EndpointRow]
      BY <3>2
    <3> QED BY <1>a, <3>1, <3>3
  <2> QED BY <2>1, <2>2, <2>3 DEF LocalTypes
<1>5. ASSUME Confirm PROVE LocalTypes'
  <2>1. UNCHANGED <<conn, endpoint, cred>>
    BY <1>5 DEF Confirm
  <2>2. mailbox' \in MailboxRow
    <3>1. mailbox' = [mailbox EXCEPT !.remote = "present"]
      BY <1>5 DEF Confirm
    <3>r1. [mailbox EXCEPT !.remote = "present"] \in MailboxRow
      BY <1>a, <1>b DEF MailboxRow
    <3> QED BY <1>a, <3>1, <3>r1
  <2> QED BY <2>1, <2>2 DEF LocalTypes
<1>6. ASSUME Activate PROVE LocalTypes'
  <2>1. UNCHANGED <<conn>>
    BY <1>6 DEF Activate
  <2>2. mailbox' \in MailboxRow
    <3>1. mailbox' = mailbox \/ mailbox' = [mailbox EXCEPT !.revision = mailbox.revision + 1]
      BY <1>6, RowsActivated
    <3>r1. [mailbox EXCEPT !.revision = mailbox.revision + 1] \in MailboxRow
      BY <1>a, <1>b DEF MailboxRow
    <3> QED BY <1>a, <3>1, <3>r1
  <2>3. endpoint' \in [Protocols -> EndpointRow]
    <3>1. op[run.op].cand \in 0..MaxCreds
      BY <1>6 DEF Activate, At, OpTypes, RunRow, OpRow
    <3> QED BY <1>a, <3>1, <1>6, RowsActivated, EndpointsActivated
  <2>4. cred' \in Seq(RowOf) /\ Len(cred') <= MaxCreds
    BY <1>a, <1>6, RowsActivated DEF SameRows
  <2> QED BY <2>1, <2>2, <2>3, <2>4 DEF LocalTypes
<1>7. ASSUME Revoked PROVE LocalTypes'
  <2>1. UNCHANGED <<conn, mailbox, endpoint>>
    BY <1>7 DEF Revoked, IsRefused
  <2>2. cred' \in Seq(RowOf) /\ Len(cred') <= MaxCreds
    BY <1>a, <1>7, RowsRevoked DEF SameRows
  <2> QED BY <2>1, <2>2 DEF LocalTypes
<1>8. ASSUME SaveEntered PROVE LocalTypes'
  <2>1. UNCHANGED <<conn>>
    BY <1>8 DEF SaveEntered, MarkDone, Goto
  <2>2. mailbox' \in MailboxRow
    <3>1. mailbox' = [mailbox EXCEPT !.revision = mailbox.revision + 1]
      BY <1>8 DEF SaveEntered
    <3>r1. [mailbox EXCEPT !.revision = mailbox.revision + 1] \in MailboxRow
      BY <1>a, <1>b DEF MailboxRow
    <3> QED BY <1>a, <3>1, <3>r1
  <2>3. endpoint' \in [Protocols -> EndpointRow]
    <3>1. endpoint' = EndpointsOf(op[run.op].request) /\ Room(op[run.op].request)
      BY <1>8 DEF SaveEntered
    <3> QED BY <1>8, <3>1, RowsEntered, EndpointsWanted
  <2>4. cred' \in Seq(RowOf) /\ Len(cred') <= MaxCreds
    BY <1>a, <1>8, RowsEntered DEF Adds
  <2> QED BY <2>1, <2>2, <2>3, <2>4 DEF LocalTypes
<1>9. ASSUME Attach PROVE LocalTypes'
  <2>1. UNCHANGED <<conn>>
    BY <1>9 DEF Attach, MarkDone, Goto
  <2>2. mailbox' \in MailboxRow
    <3>1. mailbox' = [status |-> "active", mode |-> "external", remote |-> "external", revision |-> 1]
      BY <1>9 DEF Attach
    <3> QED BY <3>1 DEF MailboxRow
  <2>3. endpoint' \in [Protocols -> EndpointRow]
    <3>1. endpoint' = EndpointsOf(op[run.op].request) /\ Room(op[run.op].request)
      BY <1>9 DEF Attach
    <3> QED BY <1>9, <3>1, RowsEntered, EndpointsWanted
  <2>4. cred' \in Seq(RowOf) /\ Len(cred') <= MaxCreds
    BY <1>a, <1>9, RowsEntered DEF Adds
  <2> QED BY <2>1, <2>2, <2>3, <2>4 DEF LocalTypes
<1>10. ASSUME UpdateEndpoints PROVE LocalTypes'
  <2>1. UNCHANGED <<conn>>
    BY <1>10 DEF UpdateEndpoints
  <2>2. mailbox' \in MailboxRow
    <3>1. mailbox' = [mailbox EXCEPT !.revision = mailbox.revision + 1]
      BY <1>10 DEF UpdateEndpoints
    <3>r1. [mailbox EXCEPT !.revision = mailbox.revision + 1] \in MailboxRow
      BY <1>a, <1>b DEF MailboxRow
    <3> QED BY <1>a, <3>1, <3>r1
  <2>3. endpoint' \in [Protocols -> EndpointRow]
    <3>1. endpoint' = EndpointsOf(op[run.op].request) /\ Room(op[run.op].request)
      BY <1>10 DEF UpdateEndpoints
    <3> QED BY <1>10, <3>1, RowsUpdated, EndpointsWanted
  <2>4. cred' \in Seq(RowOf) /\ Len(cred') <= MaxCreds
    BY <1>10, RowsUpdated
  <2> QED BY <2>1, <2>2, <2>3, <2>4 DEF LocalTypes
<1>11. ASSUME Reactivate PROVE LocalTypes'
  <2>1. UNCHANGED <<conn, cred>>
    BY <1>11 DEF Reactivate, MarkDone, Goto
  <2>2. mailbox' \in MailboxRow
    <3>1. mailbox' = [mailbox EXCEPT !.status = "active", !.revision = mailbox.revision + 1]
      BY <1>11 DEF Reactivate
    <3>r1. [mailbox EXCEPT !.status = "active", !.revision = mailbox.revision + 1] \in MailboxRow
      BY <1>a, <1>b DEF MailboxRow
    <3> QED BY <1>a, <3>1, <3>r1
  <2>3. endpoint' \in [Protocols -> EndpointRow]
    <3>1. ASSUME NEW p \in Protocols PROVE [endpoint[p] EXCEPT !.checked = conn.revision] \in EndpointRow
      <4>1. endpoint[p] \in EndpointRow BY <1>a
      <4> QED BY <1>b, <4>1 DEF EndpointRow
    <3>2. endpoint' = [p \in Protocols |-> IF p \in Enabled THEN [endpoint[p] EXCEPT !.checked = conn.revision] ELSE endpoint[p]]
      BY <1>11 DEF Reactivate
    <3> QED BY <1>a, <3>1, <3>2
  <2> QED BY <2>1, <2>2, <2>3 DEF LocalTypes
<1>12. ASSUME ConfigureConnection PROVE LocalTypes'
  <2>1. UNCHANGED <<mailbox, cred>>
    BY <1>12 DEF ConfigureConnection
  <2>2. conn' \in ConnectionRow
    <3>1. op[run.op].request.templates \in SUBSET Protocols
      BY <1>12 DEF ConfigureConnection, Applies, At, Control, Executing, Requested, Open, Live, OpTypes, RunRow, Request
    <3>2. conn' = [conn EXCEPT !.templates = op[run.op].request.templates, !.revision = conn.revision + 1]
      BY <1>12 DEF ConfigureConnection
    <3>r1. [conn EXCEPT !.templates = op[run.op].request.templates, !.revision = conn.revision + 1] \in ConnectionRow
      BY <1>a, <1>b, <3>1, <3>2 DEF ConnectionRow
    <3> QED BY <1>a, <3>1, <3>2, <3>r1
  <2>3. endpoint' \in [Protocols -> EndpointRow]
    <3>1. ASSUME NEW p \in Protocols PROVE [endpoint[p] EXCEPT !.checked = 0] \in EndpointRow
      <4>1. endpoint[p] \in EndpointRow BY <1>a
      <4> QED BY <1>b, <4>1 DEF EndpointRow
    <3>2. endpoint' = [p \in Protocols |-> [endpoint[p] EXCEPT !.checked = 0]]
      BY <1>12 DEF ConfigureConnection
    <3> QED BY <3>1, <3>2
  <2> QED BY <2>1, <2>2, <2>3 DEF LocalTypes
<1>13. ASSUME Commit PROVE LocalTypes'
  <2>1. UNCHANGED <<conn, endpoint>>
    BY <1>13 DEF Commit, MarkDone, Goto
  <2>2. mailbox' \in MailboxRow
    <3>1. \/ mailbox' = mailbox \/ mailbox' = [mailbox EXCEPT !.status = "active", !.revision = mailbox.revision + 1]
          \/ mailbox' = [mailbox EXCEPT !.status = "archived", !.remote = "missing", !.revision = mailbox.revision + 1]
      <4>1. CASE kind = "mailbox.create" BY <1>13, <4>1 DEF Commit
      <4>2. CASE kind = "mailbox.deleteRemote" BY <1>13, <4>2 DEF Commit
      <4>3. CASE kind \notin {"mailbox.create", "mailbox.deleteRemote"} BY <1>13, <4>3 DEF Commit
      <4> QED BY <4>1, <4>2, <4>3
    <3>r1. [mailbox EXCEPT !.status = "active", !.revision = mailbox.revision + 1] \in MailboxRow
      BY <1>a, <1>b DEF MailboxRow
    <3>r2. [mailbox EXCEPT !.status = "archived", !.remote = "missing", !.revision = mailbox.revision + 1] \in MailboxRow
      BY <1>a, <1>b DEF MailboxRow
    <3> QED BY <1>a, <3>1, <3>r1, <3>r2
  <2>3. cred' \in Seq(RowOf) /\ Len(cred') <= MaxCreds
    BY <1>a, <1>13, RowsForgotten DEF SameRows
  <2> QED BY <2>1, <2>2, <2>3 DEF LocalTypes
<1>14. ASSUME Switch PROVE LocalTypes'
  <2>1. UNCHANGED <<mailbox, endpoint, cred>>
    BY <1>14 DEF Switch, Change
  <2>2. conn' \in ConnectionRow
    <3>1. conn' = [conn EXCEPT !.enabled = ~conn.enabled, !.revision = conn.revision + 1]
      BY <1>14 DEF Switch
    <3>r1. [conn EXCEPT !.enabled = ~conn.enabled, !.revision = conn.revision + 1] \in ConnectionRow
      BY <1>a, <1>b DEF ConnectionRow
    <3> QED BY <1>a, <3>1, <3>r1
  <2> QED BY <2>1, <2>2 DEF LocalTypes
<1>15. ASSUME Suspend PROVE LocalTypes'
  <2>1. UNCHANGED <<conn, endpoint, cred>>
    BY <1>15 DEF Suspend, Change
  <2>2. mailbox' \in MailboxRow
    <3>1. PICK s \in {"suspended", mailbox.status} : mailbox' = [mailbox EXCEPT !.status = s, !.revision = mailbox.revision + 1]
      BY <1>15 DEF Suspend
    <3>2. s \in {"none", "active", "suspended", "archived"} /\ mailbox.revision + 1 \in Nat
      BY <1>a DEF MailboxRow
    <3>r1. [mailbox EXCEPT !.status = s, !.revision = mailbox.revision + 1] \in MailboxRow
      BY <1>a, <1>b, <3>1, <3>2 DEF MailboxRow
    <3> QED BY <1>a, <3>1, <3>2, <3>r1
  <2> QED BY <2>1, <2>2 DEF LocalTypes
<1>16. ASSUME Unregister PROVE LocalTypes'
  <2>1. UNCHANGED <<conn>>
    BY <1>16 DEF Unregister, Change
  <2>2. mailbox' \in MailboxRow
    BY <1>16 DEF Unregister, Unregistered, MailboxRow
  <2>3. endpoint' \in [Protocols -> EndpointRow]
    <3>1. endpoint' = [p \in Protocols |-> Off]
      BY <1>16 DEF Unregister, RowsDeleted
    <3>2. Off \in EndpointRow
      BY <1>a DEF Off, EndpointRow
    <3> QED BY <3>1, <3>2
  <2>4. cred' \in Seq(RowOf) /\ Len(cred') <= MaxCreds
    <3>1. cred' = <<>>
      BY <1>16 DEF Unregister
    <3> QED BY <1>a, <3>1
  <2> QED BY <2>1, <2>2, <2>3, <2>4 DEF LocalTypes
<1>17. UNCHANGED <<conn, mailbox, endpoint, cred>> => LocalTypes'
  BY DEF LocalTypes
<1>18. ASSUME NEW o \in Ops, Execute(o) \/ ReconcileStep(o) \/ Reconcile(o) \/ Retry(o) \/ Cancel(o) \/ Report(o) \/ ClaimSecret(o) \/ Expire(o)
       PROVE  UNCHANGED <<conn, mailbox, endpoint, cred>>
  BY <1>18 DEF Execute, ReconcileStep, Reconcile, Retry, Cancel, Report, ClaimSecret, Expire
<1>19. ASSUME Failure \/ Start \/ Complete \/ Begin \/ Provider \/ Refused
       PROVE  UNCHANGED <<conn, mailbox, endpoint, cred>>
  BY <1>19 DEF Failure, Start, Complete, Begin, Provider, Refused, Goto, Conclude, Perform, Answer
<1>20. ASSUME Record \/ GiveUp \/ Candidate \/ Verify \/ Revoke \/ Password
       PROVE  UNCHANGED <<conn, mailbox, endpoint, cred>>
  BY <1>20 DEF Record, GiveUp, Candidate, Verify, Revoke, Password, Conclude, Goto
<1>21. ASSUME Claim \/ Validate \/ Gone \/ External \/ Check \/ Interrupt
       PROVE  UNCHANGED <<conn, mailbox, endpoint, cred>>
  BY <1>21 DEF Claim, Validate, Gone, External, Check, Interrupt, Goto, Conclude, MarkDone
<1>22. ASSUME Foreign
       PROVE  UNCHANGED <<conn, mailbox, endpoint, cred>>
  BY <1>22 DEF Foreign
<1>23. ASSUME Land
       PROVE  UNCHANGED <<conn, mailbox, endpoint, cred>>
  <2>1. PICK call \in late : UNCHANGED <<localVars, opVars, fresh, bounds, maker, named>>
    BY <1>23 DEF Land
  <2> QED BY <2>1
<1> QED
  BY Failures, <1>1, <1>2, <1>3, <1>4, <1>5, <1>6, <1>7, <1>8, <1>9, <1>10, <1>11, <1>12, <1>13, <1>14, <1>15, <1>16, <1>17,
     <1>18, <1>19, <1>20, <1>21, <1>22, <1>23 DEF Next, Execution

-----------------------------------------------------------------------------
(* What the actions do to operations, to their steps and to the execution.   *)

\* Operation o has these fields after the step, as far as the invariants speak of them.
Became(o, request, status, cand, private, claim, claimed, expired) ==
  /\ op' \in [Ops -> OpRow] /\ \A p \in Ops \ {o} : op'[p] = op[p]
  /\ op'[o].request = request /\ op'[o].status = status /\ op'[o].cand = cand
  /\ op'[o].private = private /\ op'[o].claim = claim /\ op'[o].claimed = claimed /\ op'[o].expired = expired
Turned(o, status) == Became(o, op[o].request, status, op[o].cand, op[o].private, op[o].claim, op[o].claimed, op[o].expired)
Ended(o) == Became(o, None, "succeeded", op[o].cand, 0, op[o].claim, op[o].claimed, op[o].expired)
Dropped(o) == Became(o, None, "cancelled", 0, 0, 0, 0, FALSE)
Marked(o, s, v) == /\ step' \in [Ops -> [Steps -> StepStatus]] /\ step'[o][s] = v
                   /\ \A p \in Ops, t \in Steps : p # o \/ t # s => step'[p][t] = step[p][t]
Moved(pc, old, secret, answer) == /\ run' \in RunRow /\ run'.op = run.op /\ run'.pc = pc /\ run'.old = old
                                  /\ run'.secret = secret /\ run'.answer = answer
Stops == run' = Idle /\ run' \in RunRow
Concluded(unknown) == /\ Turned(run.op, IF unknown THEN "unknown" ELSE IF Effects(run.op) THEN "needs_action" ELSE "failed")
                      /\ Stops

OpStatus == {"none", "succeeded", "failed", "cancelled"} \cup Live
SetStatus(o, s) == [op EXCEPT ![o].status = s]
SetStep(o, s, v) == [step EXCEPT ![o][s] = v]

(* A status is set. *)
LEMMA StatusSet ==
  ASSUME OpTypes, NEW o \in Ops, NEW s \in OpStatus, op' = SetStatus(o, s)
  PROVE  Turned(o, s)
<1>1. op \in [Ops -> OpRow] /\ op[o] \in OpRow
  BY DEF OpTypes
<1>2. op' = [op EXCEPT ![o] = [op[o] EXCEPT !.status = s]]
  BY DEF SetStatus
<1> DEFINE x == [op[o] EXCEPT !.status = s]
<1>3. /\ x \in OpRow /\ x.request = op[o].request /\ x.status = s /\ x.cand = op[o].cand /\ x.private = op[o].private
      /\ x.claim = op[o].claim /\ x.claimed = op[o].claimed /\ x.expired = op[o].expired
  BY <1>1 DEF OpRow, OpStatus
<1> HIDE DEF x
<1>4. op' \in [Ops -> OpRow] /\ op'[o] = x /\ \A p \in Ops \ {o} : op'[p] = op[p]
  BY <1>1, <1>2, <1>3 DEF x
<1> QED BY <1>3, <1>4 DEF Turned, Became

(* completeLocalOperation *)
LEMMA SucceededSet ==
  ASSUME LimitsAreNat, OpTypes, NEW o \in Ops, op' = Succeeded(o)
  PROVE  Ended(o)
<1>1. op \in [Ops -> OpRow] /\ op[o] \in OpRow /\ 0 \in 0..MaxKeys
  BY LimitsAreNat DEF OpTypes
<1> DEFINE x == [[[op[o] EXCEPT !.status = "succeeded"] EXCEPT !.request = None] EXCEPT !.private = 0]
<1>2. op' = [op EXCEPT ![o] = x]
  BY <1>1 DEF Succeeded
<1>3. /\ x \in OpRow /\ x.request = None /\ x.status = "succeeded" /\ x.cand = op[o].cand /\ x.private = 0
      /\ x.claim = op[o].claim /\ x.claimed = op[o].claimed /\ x.expired = op[o].expired
  BY <1>1 DEF OpRow
<1> HIDE DEF x
<1>4. op' \in [Ops -> OpRow] /\ op'[o] = x /\ \A p \in Ops \ {o} : op'[p] = op[p]
  BY <1>1, <1>2, <1>3
<1> QED BY <1>3, <1>4 DEF Ended, Became

(* An operation that is given up keeps nothing. *)
LEMMA CancelledSet ==
  ASSUME LimitsAreNat, OpTypes, NEW o \in Ops, op' = [op EXCEPT ![o] = Settled("cancelled")]
  PROVE  Dropped(o)
<1>1. op \in [Ops -> OpRow]
  BY DEF OpTypes
<1> DEFINE x == Settled("cancelled")
<1>2. /\ x \in OpRow /\ x.request = None /\ x.status = "cancelled" /\ x.cand = 0 /\ x.private = 0
      /\ x.claim = 0 /\ x.claimed = 0 /\ x.expired = FALSE
  BY LimitsAreNat DEF OpRow, Settled
<1> HIDE DEF x
<1>3. op' \in [Ops -> OpRow] /\ op'[o] = x /\ \A p \in Ops \ {o} : op'[p] = op[p]
  BY <1>1, <1>2 DEF x
<1> QED BY <1>2, <1>3 DEF Dropped, Became

(* The outcome of a step is recorded. *)
LEMMA StepSet ==
  ASSUME OpTypes, NEW o \in Ops, NEW s \in Steps, NEW v \in StepStatus, step' = SetStep(o, s, v)
  PROVE  Marked(o, s, v)
<1>1. step \in [Ops -> [Steps -> StepStatus]] /\ step[o] \in [Steps -> StepStatus]
  BY DEF OpTypes
<1> DEFINE x == [step[o] EXCEPT ![s] = v]
<1>2. step' = [step EXCEPT ![o] = x]
  BY DEF SetStep
<1>3. x \in [Steps -> StepStatus] /\ x[s] = v /\ \A t \in Steps : t # s => x[t] = step[o][t]
  BY <1>1
<1> HIDE DEF x
<1>4. step' \in [Ops -> [Steps -> StepStatus]] /\ step'[o] = x /\ \A p \in Ops \ {o} : step'[p] = step[p]
  BY <1>1, <1>2, <1>3
<1> QED BY <1>3, <1>4 DEF Marked

(* The execution moves on. *)
LEMMA GotoSet ==
  ASSUME OpTypes, NEW pc \in Pcs, Goto(pc)
  PROVE  Moved(pc, run.old, run.secret, "none")
<1>1. run \in RunRow
  BY DEF OpTypes
<1>2. run' = [[run EXCEPT !.pc = pc] EXCEPT !.answer = "none"]
  BY <1>1 DEF Goto, RunRow
<1> HIDE DEF Pcs
<1> QED BY <1>1, <1>2 DEF RunRow, Moved

(* An idle execution. *)
LEMMA IdleIsRun ==
  ASSUME LimitsAreNat
  PROVE  Idle \in RunRow
BY LimitsAreNat DEF Idle, RunRow, Pcs

(* What is executed is an operation that is running. *)
LEMMA Running ==
  ASSUME OpTypes, Control, run.op # None
  PROVE  run.op \in Ops /\ op[run.op] \in OpRow /\ op[run.op].request \in Request /\ op[run.op].status = "running"
         /\ op[run.op].request.kind \in Kinds
<1>1. run.op \in Ops /\ op[run.op].status = "running"
  BY DEF OpTypes, RunRow, Control, Executing
<1> QED BY <1>1 DEF OpTypes, Control, Requested, Open, Live, Request

(* The last transaction of executeOperation for an execution that failed. *)
LEMMA ConcludeSet ==
  ASSUME LimitsAreNat, OpTypes, Control, run.op # None, NEW b \in BOOLEAN, Conclude(b)
  PROVE  Concluded(b)
<1> DEFINE s == IF b THEN "unknown" ELSE IF Effects(run.op) THEN "needs_action" ELSE "failed"
<1>1. run.op \in Ops
  BY Running
<1>2. op' = [op EXCEPT ![run.op].status = s] /\ run' = Idle
  BY DEF Conclude
<1>3. s \in OpStatus
  BY DEF OpStatus, Live
<1> HIDE DEF s
<1>4. Turned(run.op, s)
  BY <1>1, <1>2, <1>3, StatusSet DEF SetStatus
<1> QED BY <1>2, <1>4, IdleIsRun DEF Concluded, s, Stops

-----------------------------------------------------------------------------
(* Each action, as far as the invariants are concerned.                      *)

(* An operation that is queued is executed (executeOperation). *)
LEMMA ExecuteDoes ==
  ASSUME LimitsAreNat, LocalTypes, OpTypes, RemoteTypes, Control, NEW o \in Ops, Execute(o)
  PROVE  /\ op[o].status = "queued" /\ run = Idle /\ Turned(o, "running")
         /\ run' \in RunRow /\ run'.op = o /\ run'.pc = "started" /\ run'.old = 0 /\ run'.secret = 0 /\ run'.answer = "none"
         /\ UNCHANGED <<localVars, step, remoteVars, bounds, history>>
<1> USE LimitsAreNat DEF vars, localVars, opVars, bounds, history, remoteVars
<1>1. /\ op[o].status = "queued" /\ run = Idle /\ op' = SetStatus(o, "running")
      /\ run' = [Idle EXCEPT !.op = o, !.pc = "started"]
      /\ UNCHANGED <<localVars, step, remoteVars, bounds, history>>
  BY DEF Execute, SetStatus
<1>2. Turned(o, "running")
  BY <1>1, StatusSet DEF OpStatus, Live
<1>3. run' = [op |-> o, pc |-> "started", mailbox |-> 0, conn |-> 0, old |-> 0, secret |-> 0, answer |-> "none"]
  BY <1>1 DEF Idle
<1>4. 0 \in 0..MaxCreds /\ 0 \in 0..MaxKeys /\ 0 \in Nat
  OBVIOUS
<1>5. /\ run' \in RunRow /\ run'.op = o /\ run'.pc = "started" /\ run'.old = 0 /\ run'.secret = 0
      /\ run'.answer = "none"
  BY <1>3, <1>4 DEF RunRow, Pcs
<1> QED BY <1>1, <1>2, <1>3, <1>4, <1>5

(* An administrator confirms what had to be done by hand (ConfirmExternalOperation). *)
LEMMA ConfirmExternalDoes ==
  ASSUME LimitsAreNat, LocalTypes, OpTypes, RemoteTypes, Control, NEW o \in Ops, ConfirmExternal(o)
  PROVE  /\ op[o].status = "needs_action" /\ Kind(o) = "mailbox.revokeRemoteAccess" /\ Ended(o)
         /\ mailbox'.status = mailbox.status /\ mailbox'.remote = mailbox.remote
         /\ UNCHANGED <<conn, endpoint, step, run, remoteVars, bounds, history>>
<1> USE LimitsAreNat DEF vars, localVars, opVars, bounds, history, remoteVars
<1>1. /\ op[o].status = "needs_action" /\ Kind(o) = "mailbox.revokeRemoteAccess" /\ op' = Succeeded(o)
      /\ mailbox' = [mailbox EXCEPT !.revision = mailbox.revision + 1]
      /\ UNCHANGED <<conn, endpoint, step, run, remoteVars, bounds, history>>
  BY DEF ConfirmExternal, Kind
<1>2. Ended(o)
  BY <1>1, SucceededSet
<1>3. mailbox'.status = mailbox.status /\ mailbox'.remote = mailbox.remote
  BY <1>1 DEF LocalTypes, MailboxRow
<1> QED BY <1>1, <1>2, <1>3

(* What became of a step is found out (reconcileRemoteSteps). *)
LEMMA ReconcileStepDoes ==
  ASSUME LimitsAreNat, LocalTypes, OpTypes, RemoteTypes, Control, NEW o \in Ops, ReconcileStep(o)
  PROVE  /\ op[o].status = "unknown"
         /\ \E s \in Unresolved(o) : \E v \in {"succeeded", "failed"} : v = Verdict(o, s) /\ s \in Steps /\ Marked(o, s, v)
         /\ UNCHANGED <<localVars, op, run, remoteVars, bounds, history>>
<1> USE LimitsAreNat DEF vars, localVars, opVars, bounds, history, remoteVars
<1>1. op[o].status = "unknown" /\ UNCHANGED <<localVars, op, run, remoteVars, bounds, history>>
  BY DEF ReconcileStep
<1>2. \A s : Verdict(o, s) \in {"succeeded", "failed", "unknown"}
  BY DEF Verdict
<1>3. PICK s \in Unresolved(o) : Verdict(o, s) # "unknown" /\ step' = [step EXCEPT ![o][s] = Verdict(o, s)]
  BY DEF ReconcileStep
<1>4. Verdict(o, s) \in {"succeeded", "failed"} /\ s \in Steps
  BY <1>2, <1>3 DEF Unresolved
<1>5. step' = SetStep(o, s, Verdict(o, s))
  BY <1>3 DEF SetStep
<1>6. Marked(o, s, Verdict(o, s))
  BY <1>4, <1>5, StepSet DEF StepStatus
<1> QED BY <1>1, <1>2, <1>3, <1>4, <1>5, <1>6

(* An operation whose steps are resolved can be repeated (ReconcileOperation). *)
LEMMA ReconcileDoes ==
  ASSUME LimitsAreNat, LocalTypes, OpTypes, RemoteTypes, Control, NEW o \in Ops, Reconcile(o)
  PROVE  /\ op[o].status = "unknown" /\ Unresolved(o) = {}
         /\ Turned(o, IF Kind(o) \in Transactional THEN "failed" ELSE "needs_action")
         /\ UNCHANGED <<localVars, step, run, remoteVars, bounds, history>>
<1> USE LimitsAreNat DEF vars, localVars, opVars, bounds, history, remoteVars
<1>1. /\ op[o].status = "unknown" /\ Unresolved(o) = {} /\ UNCHANGED <<localVars, step, run, remoteVars, bounds, history>>
      /\ op' = SetStatus(o, IF Kind(o) \in Transactional THEN "failed" ELSE "needs_action")
  BY DEF Reconcile, SetStatus, Kind
<1>2. Turned(o, IF Kind(o) \in Transactional THEN "failed" ELSE "needs_action")
  BY <1>1, StatusSet DEF OpStatus, Live
<1> QED BY <1>1, <1>2

(* An operation is queued again, and its failed steps are forgotten (RetryOperation). *)
LEMMA RetryDoes ==
  ASSUME LimitsAreNat, LocalTypes, OpTypes, RemoteTypes, Control, NEW o \in Ops, Retry(o)
  PROVE  /\ op[o].status \in {"failed", "needs_action"} /\ Unresolved(o) = {} /\ Current(o)
         /\ \A p \in Ops \ {o} : op[p].status \notin Live
         /\ Turned(o, "queued") /\ step' \in [Ops -> [Steps -> StepStatus]]
         /\ \A p \in Ops, s \in Steps : step'[p][s] = IF p = o /\ step[p][s] = "failed" THEN "none" ELSE step[p][s]
         /\ UNCHANGED <<localVars, run, remoteVars, bounds, history>>
<1> USE LimitsAreNat DEF vars, localVars, opVars, bounds, history, remoteVars
<1>1. /\ op[o].status \in {"failed", "needs_action"} /\ Unresolved(o) = {} /\ Current(o)
      /\ \A p \in Ops \ {o} : op[p].status \notin Live
      /\ op' = SetStatus(o, "queued") /\ UNCHANGED <<localVars, run, remoteVars, bounds, history>>
  BY DEF Retry, SetStatus
<1>2. step' = [step EXCEPT ![o] = [s \in Steps |-> IF step[o][s] = "failed" THEN "none" ELSE step[o][s]]]
  BY DEF Retry, OpTypes
<1>3. step \in [Ops -> [Steps -> StepStatus]] /\ step[o] \in [Steps -> StepStatus]
  BY DEF OpTypes
<1>4. /\ step' \in [Ops -> [Steps -> StepStatus]]
      /\ \A p \in Ops, s \in Steps : step'[p][s] = IF p = o /\ step[p][s] = "failed" THEN "none" ELSE step[p][s]
  BY <1>2, <1>3 DEF StepStatus
<1>5. Turned(o, "queued")
  BY <1>1, StatusSet DEF OpStatus, Live
<1> QED BY <1>1, <1>2, <1>3, <1>4, <1>5

(* An operation is given up (CancelOperation). *)
LEMMA CancelDoes ==
  ASSUME LimitsAreNat, LocalTypes, OpTypes, RemoteTypes, Control, NEW o \in Ops, Cancel(o)
  PROVE  /\ op[o].status \in {"queued", "failed", "needs_action"} /\ Unresolved(o) = {} /\ Dropped(o)
         /\ UNCHANGED <<localVars, step, run, remoteVars, bounds, history>>
<1> USE LimitsAreNat DEF vars, localVars, opVars, bounds, history, remoteVars
<1>1. /\ op[o].status \in {"queued", "failed", "needs_action"} /\ Unresolved(o) = {}
      /\ op' = [op EXCEPT ![o] = Settled("cancelled")] /\ UNCHANGED <<localVars, step, run, remoteVars, bounds, history>>
  BY DEF Cancel
<1>2. Dropped(o)
  BY <1>1, CancelledSet
<1> QED BY <1>1, <1>2

(* Somebody saw to an app password whose secret never arrived (ReportLostCredentialCleanup). *)
LEMMA ReportDoes ==
  ASSUME LimitsAreNat, LocalTypes, OpTypes, RemoteTypes, Control, NEW o \in Ops, Report(o)
  PROVE  /\ op[o].status = "unknown" /\ step[o][Creation] = "unknown" /\ op[o].cand = 0 /\ Unresolved(o) = {Creation} /\ Dropped(o)
         /\ Creation \in Steps /\ Marked(o, Creation, "external_reported")
         /\ UNCHANGED <<localVars, run, remoteVars, bounds, history>>
<1> USE LimitsAreNat DEF vars, localVars, opVars, bounds, history, remoteVars
<1>1. /\ op[o].status = "unknown" /\ step[o][Creation] = "unknown" /\ op[o].cand = 0 /\ Unresolved(o) = {Creation}
      /\ op' = [op EXCEPT ![o] = Settled("cancelled")] /\ step' = SetStep(o, Creation, "external_reported")
      /\ UNCHANGED <<localVars, run, remoteVars, bounds, history>>
  BY DEF Report, Creation, SetStep
<1>2. Creation \in Steps
  BY DEF Creation, Steps
<1>3. Dropped(o) /\ Marked(o, Creation, "external_reported")
  BY <1>1, <1>2, CancelledSet, StepSet DEF StepStatus
<1> QED BY <1>1, <1>2, <1>3

(* The password that was set is fetched (claimOperationSecret). *)
LEMMA ClaimSecretDoes ==
  ASSUME LimitsAreNat, LocalTypes, OpTypes, RemoteTypes, Control, NEW o \in Ops, ClaimSecret(o)
  PROVE  /\ op[o].claim # 0 /\ op[o].claimed = 0
         /\ Became(o, op[o].request, op[o].status, op[o].cand, op[o].private, 0, op[o].claim, op[o].expired)
         /\ UNCHANGED <<localVars, step, run, remoteVars, bounds, history>>
<1> USE LimitsAreNat DEF vars, localVars, opVars, bounds, history, remoteVars
<1>1. /\ op[o].claim # 0 /\ op[o].claimed = 0 /\ UNCHANGED <<localVars, step, run, remoteVars, bounds, history>>
      /\ op' = [op EXCEPT ![o].claim = 0, ![o].claimed = op[o].claim]
  BY DEF ClaimSecret
<1>2. op \in [Ops -> OpRow] /\ op[o] \in OpRow /\ 0 \in 0..MaxKeys /\ op[o].claim \in 0..MaxKeys
  BY DEF OpTypes, OpRow
<1>3. op' = [op EXCEPT ![o] = [[op[o] EXCEPT !.claim = 0] EXCEPT !.claimed = op[o].claim]]
  BY <1>1, <1>2
<1>4. Became(o, op[o].request, op[o].status, op[o].cand, op[o].private, 0, op[o].claim, op[o].expired)
  <2> DEFINE x == [[op[o] EXCEPT !.claim = 0] EXCEPT !.claimed = op[o].claim]
  <2>1. /\ x \in OpRow /\ x.request = op[o].request /\ x.status = op[o].status /\ x.cand = op[o].cand
        /\ x.private = op[o].private /\ x.claim = 0 /\ x.claimed = op[o].claim /\ x.expired = op[o].expired
    BY <1>2 DEF OpRow
  <2>2. op' = [op EXCEPT ![o] = x] BY <1>3
  <2> HIDE DEF x
  <2>3. op' \in [Ops -> OpRow] /\ op'[o] = x /\ \A p \in Ops \ {o} : op'[p] = op[p]
    BY <1>2, <2>1, <2>2
  <2> QED BY <2>1, <2>3 DEF Became
<1> QED BY <1>1, <1>2, <1>3, <1>4

(* It is not fetched in time (claim_expires_at). *)
LEMMA ExpireDoes ==
  ASSUME LimitsAreNat, LocalTypes, OpTypes, RemoteTypes, Control, NEW o \in Ops, Expire(o)
  PROVE  /\ op[o].claim # 0
         /\ Became(o, op[o].request, op[o].status, op[o].cand, op[o].private, 0, op[o].claimed, TRUE)
         /\ UNCHANGED <<localVars, step, run, remoteVars, bounds, history>>
<1> USE LimitsAreNat DEF vars, localVars, opVars, bounds, history, remoteVars
<1>1. /\ op[o].claim # 0 /\ UNCHANGED <<localVars, step, run, remoteVars, bounds, history>>
      /\ op' = [op EXCEPT ![o].claim = 0, ![o].expired = TRUE]
  BY DEF Expire
<1>2. op \in [Ops -> OpRow] /\ op[o] \in OpRow /\ 0 \in 0..MaxKeys /\ op[o].claim \in 0..MaxKeys
  BY DEF OpTypes, OpRow
<1>3. op' = [op EXCEPT ![o] = [[op[o] EXCEPT !.claim = 0] EXCEPT !.expired = TRUE]]
  BY <1>1, <1>2
<1>4. Became(o, op[o].request, op[o].status, op[o].cand, op[o].private, 0, op[o].claimed, TRUE)
  <2> DEFINE x == [[op[o] EXCEPT !.claim = 0] EXCEPT !.expired = TRUE]
  <2>1. /\ x \in OpRow /\ x.request = op[o].request /\ x.status = op[o].status /\ x.cand = op[o].cand
        /\ x.private = op[o].private /\ x.claim = 0 /\ x.claimed = op[o].claimed /\ x.expired = TRUE
    BY <1>2 DEF OpRow
  <2>2. op' = [op EXCEPT ![o] = x] BY <1>3
  <2> HIDE DEF x
  <2>3. op' \in [Ops -> OpRow] /\ op'[o] = x /\ \A p \in Ops \ {o} : op'[p] = op[p]
    BY <1>2, <2>1, <2>2
  <2> QED BY <2>1, <2>3 DEF Became
<1> QED BY <1>1, <1>2, <1>3, <1>4

(* An operation is asked for (QueueOperation). *)
LEMMA QueueDoes ==
  ASSUME LimitsAreNat, LocalTypes, OpTypes, RemoteTypes, Control, NoneIsNoOp, IMAPIsProtocol, NEW o \in Ops, NEW k \in Kinds, Queue(o, k)
  PROVE  /\ op[o].status = "none" /\ Acceptable(k) /\ \A p \in Ops : op[p].status \notin Live
         /\ \E r \in Requests(k) : /\ r \in Request /\ (r.secret = fresh => fresh < MaxKeys)
                               /\ fresh' = (IF r.secret = fresh THEN fresh + 1 ELSE fresh)
                               /\ Became(o, r, "queued", 0, 0, 0, 0, FALSE)
         /\ mailbox'.remote = mailbox.remote /\ mailbox'.status = (IF k = "mailbox.deleteRemote" THEN "archived" ELSE mailbox.status)
         /\ UNCHANGED <<conn, endpoint, cred, step, run, account, late, bounds, history>>
<1> USE LimitsAreNat DEF vars, localVars, opVars, bounds, history, remoteVars
<1>1. /\ op[o].status = "none" /\ Acceptable(k) /\ \A p \in Ops : op[p].status \notin Live
      /\ UNCHANGED <<conn, endpoint, cred, step, run, account, late, bounds, history>>
  BY DEF Queue, Busy
<1>2. mailbox \in MailboxRow
  BY DEF LocalTypes
<1>3. PICK r \in Requests(k) :
       /\ r.secret = fresh => fresh < MaxKeys
       /\ fresh' = IF r.secret = fresh THEN fresh + 1 ELSE fresh
       /\ mailbox' = IF k = "mailbox.deleteRemote"
                     THEN [mailbox EXCEPT !.status = "archived", !.revision = mailbox.revision + 1] ELSE mailbox
       /\ op' = [op EXCEPT ![o] = Fresh(r, mailbox'.revision)]
  BY DEF Queue
<1>4. r \in Request
  BY NoneIsNoOp, IMAPIsProtocol, RequestsAre
<1>5. Became(o, r, "queued", 0, 0, 0, 0, FALSE)
  <2> DEFINE x == Fresh(r, mailbox'.revision)
  <2>1. mailbox'.revision \in Nat
    <3>1. CASE k = "mailbox.deleteRemote"
      <4>1. mailbox' = [mailbox EXCEPT !.status = "archived", !.revision = mailbox.revision + 1] BY <1>3, <3>1
      <4> QED BY <1>2, <4>1 DEF MailboxRow
    <3>2. CASE k # "mailbox.deleteRemote" BY <1>2, <1>3, <3>2 DEF MailboxRow
    <3> QED BY <3>1, <3>2
  <2> DEFINE n == mailbox'.revision
  <2> HIDE DEF n
  <2>2. conn.revision \in Nat /\ 0 \in 0..MaxCreds /\ 0 \in 0..MaxKeys /\ n \in Nat
    BY <2>1 DEF LocalTypes, ConnectionRow, n
  <2>3. x = Fresh(r, n)
    BY DEF n
  <2>4. /\ x \in OpRow /\ x.request = r /\ x.status = "queued" /\ x.cand = 0 /\ x.private = 0 /\ x.claim = 0
        /\ x.claimed = 0 /\ x.expired = FALSE
    <3> HIDE DEF x
    <3> QED BY <1>4, <2>2, <2>3 DEF Fresh, OpRow, Live
  <2>5. op' = [op EXCEPT ![o] = x] /\ op \in [Ops -> OpRow]
    BY <1>3 DEF OpTypes
  <2> HIDE DEF x
  <2>7. op' \in [Ops -> OpRow] /\ op'[o] = x /\ \A p \in Ops \ {o} : op'[p] = op[p]
    BY <2>4, <2>5
  <2> QED BY <2>4, <2>7 DEF Became
<1>6. mailbox'.remote = mailbox.remote /\ mailbox'.status = (IF k = "mailbox.deleteRemote" THEN "archived" ELSE mailbox.status)
  <2>1. CASE k = "mailbox.deleteRemote" BY <1>2, <1>3, <2>1 DEF MailboxRow
  <2>2. CASE k # "mailbox.deleteRemote" BY <1>3, <2>2
  <2> QED BY <2>1, <2>2
<1> QED BY <1>1, <1>2, <1>3, <1>4, <1>5, <1>6

(* managedCredential makes sure that a candidate is needed and for something. *)
LEMMA CandidateDoes ==
  ASSUME LimitsAreNat, LocalTypes, OpTypes, RemoteTypes, Control, Candidate
  PROVE  /\ run.op # None /\ run.op \in Ops /\ run.pc = "candidate"
         /\ Moved((IF op[run.op].cand = 0 /\ Kind(run.op) # "mailbox.rotate" /\ Ready THEN "commit" ELSE "credential.create"), run.old, run.secret, "none")
         /\ UNCHANGED <<localVars, op, step, remoteVars, bounds, history>>
<1> USE LimitsAreNat DEF vars, localVars, opVars, bounds, history, remoteVars
<1>1. /\ run.op # None /\ run.pc = "candidate" /\ Goto((IF op[run.op].cand = 0 /\ Kind(run.op) # "mailbox.rotate" /\ Ready THEN "commit" ELSE "credential.create"))
      /\ UNCHANGED <<localVars, op, step, remoteVars, bounds, history>>
  BY DEF Candidate, At, Kind
<1>2. run.op \in Ops /\ (IF op[run.op].cand = 0 /\ Kind(run.op) # "mailbox.rotate" /\ Ready THEN "commit" ELSE "credential.create") \in Pcs
  BY <1>1, Running DEF Pcs, Calls
<1>3. Moved((IF op[run.op].cand = 0 /\ Kind(run.op) # "mailbox.rotate" /\ Ready THEN "commit" ELSE "credential.create"), run.old, run.secret, "none")
  BY <1>1, <1>2, GotoSet
<1> QED BY <1>1, <1>2, <1>3

(* The candidate is tried. *)
LEMMA VerifyDoes ==
  ASSUME LimitsAreNat, LocalTypes, OpTypes, RemoteTypes, Control, Verify
  PROVE  /\ run.op # None /\ run.op \in Ops /\ run.pc = "verify"
         /\ Verified(op[run.op].cand)
         /\ Moved("activate", run.old, run.secret, "none")
         /\ UNCHANGED <<localVars, op, step, remoteVars, bounds, history>>
<1> USE LimitsAreNat DEF vars, localVars, opVars, bounds, history, remoteVars
<1>1. /\ run.op # None /\ run.pc = "verify" /\ Goto("activate")
      /\ Verified(op[run.op].cand)
      /\ UNCHANGED <<localVars, op, step, remoteVars, bounds, history>>
  BY DEF Verify, At
<1>2. run.op \in Ops /\ "activate" \in Pcs
  BY <1>1, Running DEF Pcs, Calls
<1>3. Moved("activate", run.old, run.secret, "none")
  BY <1>1, <1>2, GotoSet
<1> QED BY <1>1, <1>2, <1>3

(* Endpoints that use the old password are found out. *)
LEMMA ValidateDoes ==
  ASSUME LimitsAreNat, LocalTypes, OpTypes, RemoteTypes, Control, Validate
  PROVE  /\ run.op # None /\ run.op \in Ops /\ run.pc = "validate"
         /\ Moved("commit", run.old, run.secret, "none")
         /\ UNCHANGED <<localVars, op, step, remoteVars, bounds, history>>
<1> USE LimitsAreNat DEF vars, localVars, opVars, bounds, history, remoteVars
<1>1. /\ run.op # None /\ run.pc = "validate" /\ Goto("commit")
      /\ UNCHANGED <<localVars, op, step, remoteVars, bounds, history>>
  BY DEF Validate, At
<1>2. run.op \in Ops /\ "commit" \in Pcs
  BY <1>1, Running DEF Pcs, Calls
<1>3. Moved("commit", run.old, run.secret, "none")
  BY <1>1, <1>2, GotoSet
<1> QED BY <1>1, <1>2, <1>3

(* Everything is tried before one transaction changes it. *)
LEMMA CheckDoes ==
  ASSUME LimitsAreNat, LocalTypes, OpTypes, RemoteTypes, Control, Check
  PROVE  /\ run.op # None /\ run.op \in Ops /\ run.pc = "check"
         /\ (Kind(run.op) = "mailbox.create" /\ Done("credential.entered")) \/ Checked(op[run.op].request)
         /\ Moved((IF Kind(run.op) = "mailbox.create" /\ Done("credential.entered") THEN "commit" ELSE "apply"), run.old, run.secret, "none")
         /\ UNCHANGED <<localVars, op, step, remoteVars, bounds, history>>
<1> USE LimitsAreNat DEF vars, localVars, opVars, bounds, history, remoteVars
<1>1. /\ run.op # None /\ run.pc = "check" /\ Goto((IF Kind(run.op) = "mailbox.create" /\ Done("credential.entered") THEN "commit" ELSE "apply"))
      /\ (Kind(run.op) = "mailbox.create" /\ Done("credential.entered")) \/ Checked(op[run.op].request)
      /\ UNCHANGED <<localVars, op, step, remoteVars, bounds, history>>
  BY DEF Check, At, Kind
<1>2. run.op \in Ops /\ (IF Kind(run.op) = "mailbox.create" /\ Done("credential.entered") THEN "commit" ELSE "apply") \in Pcs
  BY <1>1, Running DEF Pcs, Calls
<1>3. Moved((IF Kind(run.op) = "mailbox.create" /\ Done("credential.entered") THEN "commit" ELSE "apply"), run.old, run.secret, "none")
  BY <1>1, <1>2, GotoSet
<1> QED BY <1>1, <1>2, <1>3

(* executeMailboxManagement up to the switch, and what the others read first. *)
LEMMA StartDoes ==
  ASSUME LimitsAreNat, LocalTypes, OpTypes, RemoteTypes, Control, Start
  PROVE  /\ run.op # None /\ run.op \in Ops /\ run.pc = "started"
         /\ Moved(First(run.op), run.old, run.secret, run.answer)
         /\ UNCHANGED <<localVars, op, step, remoteVars, bounds, history>>
<1> USE LimitsAreNat DEF vars, localVars, opVars, bounds, history, remoteVars
<1>1. run.op # None /\ run.pc = "started" /\ UNCHANGED <<localVars, op, step, remoteVars, bounds, history>>
      /\ run' = [run EXCEPT !.pc = First(run.op), !.mailbox = mailbox.revision, !.conn = conn.revision]
  BY DEF Start, At
<1>2. run.op \in Ops /\ op[run.op].request.kind \in Kinds
  BY <1>1, Running
<1>3. First(run.op) \in Pcs
  BY <1>2 DEF First, Pcs, Calls
<1>4. run \in RunRow /\ mailbox.revision \in Nat /\ conn.revision \in Nat
  BY DEF OpTypes, LocalTypes, MailboxRow, ConnectionRow
<1>5. Moved(First(run.op), run.old, run.secret, run.answer)
  <2> DEFINE f == First(run.op)
             m == mailbox.revision
             v == conn.revision
  <2>1. f \in Pcs /\ m \in Nat /\ v \in Nat BY <1>3, <1>4
  <2>2. run' = [[[run EXCEPT !.pc = f] EXCEPT !.mailbox = m] EXCEPT !.conn = v]
    BY <1>1, <1>4 DEF RunRow
  <2> HIDE DEF f, m, v
  <2>3. Moved(f, run.old, run.secret, run.answer)
    BY <1>4, <2>1, <2>2 DEF RunRow, Moved
  <2> QED BY <2>3 DEF f
<1> QED BY <1>1, <1>2, <1>3, <1>4, <1>5

(* An addition or a reactivation that is committed ends. *)
LEMMA CompleteDoes ==
  ASSUME LimitsAreNat, LocalTypes, OpTypes, RemoteTypes, Control, Complete
  PROVE  /\ run.op # None /\ run.op \in Ops /\ run.pc = "complete"
         /\ Ended(run.op) /\ Stops
         /\ UNCHANGED <<localVars, step, remoteVars, bounds, history>>
<1> USE LimitsAreNat DEF vars, localVars, opVars, bounds, history, remoteVars
<1>1. run.op # None /\ run.pc = "complete" /\ op' = Succeeded(run.op) /\ run' = Idle
      /\ UNCHANGED <<localVars, step, remoteVars, bounds, history>>
  BY DEF Complete, At
<1>2. run.op \in Ops
  BY <1>1, Running
<1>3. Ended(run.op) /\ Stops
  BY <1>1, <1>2, SucceededSet, IdleIsRun DEF Stops
<1> QED BY <1>1, <1>2, <1>3

(* A failure outside a call ends the execution. *)
LEMMA FailureDoes ==
  ASSUME LimitsAreNat, LocalTypes, OpTypes, RemoteTypes, Control, Failure
  PROVE  /\ run.op # None /\ run.op \in Ops
         /\ run.pc \in {"started", "confirm", "candidate", "verify", "activate", "refused", "validate", "check"}
         /\ Concluded(FALSE)
         /\ trouble' \in Nat
         /\ UNCHANGED <<localVars, step, remoteVars, foreign, changes, history>>
<1> USE LimitsAreNat DEF vars, localVars, opVars, bounds, history, remoteVars
<1>1. /\ run.op # None /\ Conclude(FALSE) /\ (trouble' = trouble \/ trouble' = trouble + 1)
      /\ run.pc \in {"started", "confirm", "candidate", "verify", "activate", "refused", "validate", "check"}
      /\ UNCHANGED <<localVars, step, remoteVars, foreign, changes, history>>
  BY DEF Failure, Conclude
<1>2. run.op \in Ops
  BY <1>1, Running
<1>3. Concluded(FALSE)
  BY <1>1, ConcludeSet
<1>4. trouble' \in Nat
  BY <1>1 DEF RemoteTypes
<1> QED BY <1>1, <1>2, <1>3, <1>4

(* The process stops and starts again, or the context of an execution ends. *)
LEMMA InterruptDoes ==
  ASSUME LimitsAreNat, LocalTypes, OpTypes, RemoteTypes, Control, Interrupt
  PROVE  /\ run.op # None /\ run.op \in Ops /\ Turned(run.op, "unknown") /\ Stops
         /\ trouble' \in Nat
         /\ step' \in [Ops -> [Steps -> StepStatus]]
         /\ \A p \in Ops, s \in Steps : step'[p][s] = IF p = run.op /\ step[p][s] = "running" THEN "unknown" ELSE step[p][s]
         /\ UNCHANGED <<localVars, remoteVars, foreign, changes, history>>
<1> USE LimitsAreNat DEF vars, localVars, opVars, bounds, history, remoteVars
<1>1. /\ run.op # None /\ op' = SetStatus(run.op, "unknown") /\ run' = Idle /\ trouble' = trouble + 1
      /\ UNCHANGED <<localVars, remoteVars, foreign, changes, history>>
  BY DEF Interrupt, SetStatus
<1>2. run.op \in Ops
  BY <1>1, Running
<1>3. step \in [Ops -> [Steps -> StepStatus]] /\ step[run.op] \in [Steps -> StepStatus]
  BY <1>2 DEF OpTypes
<1>4. step' = [step EXCEPT ![run.op] = [s \in Steps |-> IF step[run.op][s] = "running" THEN "unknown" ELSE step[run.op][s]]]
  BY <1>3 DEF Interrupt
<1>5. /\ step' \in [Ops -> [Steps -> StepStatus]]
      /\ \A p \in Ops, s \in Steps : step'[p][s] = IF p = run.op /\ step[p][s] = "running" THEN "unknown" ELSE step[p][s]
  BY <1>2, <1>3, <1>4 DEF StepStatus
<1>6. Turned(run.op, "unknown") /\ Stops
  BY <1>1, <1>2, StatusSet, IdleIsRun DEF OpStatus, Live, Stops
<1>7. trouble' \in Nat
  BY <1>1 DEF RemoteTypes
<1> QED BY <1>1, <1>2, <1>3, <1>4, <1>5, <1>6, <1>7

(* The step of a call. *)
LEMMA StepIsStep ==
  ASSUME LimitsAreNat, LocalTypes, OpTypes, Control, References, run.op # None, run.pc \in Calls
  PROVE  run.op \in Ops /\ Step \in Steps
<1>1. run.op \in Ops
  BY Running
<1>2. CASE run.pc = "credential.revoke"
  <2>1. run.old \in Rows /\ cred \in Seq(RowOf) /\ Len(cred) <= MaxCreds /\ MaxCreds \in Nat
    BY <1>2, LimitsAreNat DEF References, OldRow, OfState, Rows, LocalTypes
  <2>2. run.old \in Creds
    BY <2>1 DEF Rows, Creds
  <2> QED BY <1>1, <1>2, <2>2 DEF Step, Steps
<1>3. CASE run.pc # "credential.revoke"
  <2>1. run.old = 0
    BY <1>3 DEF Control, Answers, Calls
  <2> QED BY <1>1, <1>3, <2>1 DEF Step, Steps, Calls
<1> QED BY <1>2, <1>3

(* A step without a known outcome is not repeated (remoteOperationStep). *)
LEMMA BeginDoes ==
  ASSUME LimitsAreNat, LocalTypes, OpTypes, RemoteTypes, Control, References, Begin
  PROVE  /\ run.op # None /\ run.op \in Ops /\ run.pc \in Calls /\ Step \in Steps /\ run.answer = "none"
         /\ \/ step[run.op][Step] = "succeeded" /\ Moved(After(run.pc), run.old, run.secret, "none") /\ UNCHANGED <<op, step>>
            \/ step[run.op][Step] \in Unsure /\ Concluded(TRUE) /\ UNCHANGED step
            \/ /\ step[run.op][Step] \notin Unsure \cup {"succeeded"} /\ Marked(run.op, Step, "running")
               /\ Moved(run.pc, run.old, run.secret, "calling") /\ UNCHANGED op
         /\ UNCHANGED <<localVars, remoteVars, bounds, history>>
<1> USE LimitsAreNat DEF vars, localVars, opVars, bounds, history, remoteVars
<1>1. run.op # None /\ run.pc \in Calls /\ run.answer = "none" /\ UNCHANGED <<localVars, remoteVars, bounds, history>>
  BY DEF Begin
<1>2. run.op \in Ops /\ Step \in Steps
  BY <1>1, StepIsStep
<1>3. After(run.pc) \in Pcs /\ run \in RunRow
  BY <1>1 DEF Calls, After, Pcs, OpTypes
<1>4. \/ step[run.op][Step] = "succeeded" /\ Goto(After(run.pc)) /\ UNCHANGED <<op, step>>
      \/ step[run.op][Step] \in Unsure /\ Conclude(TRUE) /\ UNCHANGED step
      \/ /\ step[run.op][Step] \notin Unsure \cup {"succeeded"} /\ step' = SetStep(run.op, Step, "running")
         /\ run' = [run EXCEPT !.answer = "calling"] /\ UNCHANGED op
  BY DEF Begin, Unsure, SetStep
<1>5. step' = SetStep(run.op, Step, "running") => Marked(run.op, Step, "running")
  BY <1>2, StepSet DEF StepStatus
<1>6. Goto(After(run.pc)) => Moved(After(run.pc), run.old, run.secret, "none")
  BY <1>3, GotoSet
<1>7. Conclude(TRUE) => Concluded(TRUE)
  BY <1>1, ConcludeSet
<1>8. run' = [run EXCEPT !.answer = "calling"] => Moved(run.pc, run.old, run.secret, "calling")
  BY <1>3 DEF RunRow, Moved
<1> QED BY <1>1, <1>2, <1>3, <1>4, <1>5, <1>6, <1>7, <1>8

(* The call is refused, or the refusal does not arrive. *)
LEMMA RefusedDoes ==
  ASSUME LimitsAreNat, LocalTypes, OpTypes, RemoteTypes, Control, References, Refused
  PROVE  /\ run.op # None /\ run.op \in Ops /\ run.pc \in Calls /\ run.answer = "calling"
         /\ trouble' \in Nat
         /\ Moved(run.pc, run.old, run.secret, "failed") \/ (~Possible(Call) /\ Moved(run.pc, run.old, run.secret, "unknown"))
         /\ UNCHANGED <<localVars, op, step, remoteVars, foreign, changes, history>>
<1> USE LimitsAreNat DEF vars, localVars, opVars, bounds, history, remoteVars
<1>1. run.pc \in Calls /\ run.answer = "calling" /\ UNCHANGED <<localVars, op, step, remoteVars, foreign, changes, history>>
  BY DEF Refused
<1>2. run.op # None
  BY <1>1 DEF Control, Executing, Idle, Calls
<1>3. run.op \in Ops /\ run \in RunRow
  BY <1>2, Running DEF OpTypes
<1>4. \/ run' = [run EXCEPT !.answer = "failed"]
      \/ ~Possible(Call) /\ run' = [run EXCEPT !.answer = "unknown"]
  BY DEF Refused
<1>5. \A a \in {"failed", "unknown"} : run' = [run EXCEPT !.answer = a] => Moved(run.pc, run.old, run.secret, a)
  BY <1>3 DEF RunRow, Moved
<1>6. trouble' \in Nat
  BY DEF Refused, RemoteTypes
<1> QED BY <1>1, <1>2, <1>3, <1>4, <1>5, <1>6

(* The outcome of a call is recorded. *)
LEMMA RecordDoes ==
  ASSUME LimitsAreNat, LocalTypes, OpTypes, RemoteTypes, Control, References, Record
  PROVE  /\ run.op # None /\ run.op \in Ops /\ run.pc \in Calls /\ Step \in Steps /\ run.answer \in {"ok", "failed", "unknown"}
         /\ run.pc = "credential.create" /\ run.answer = "ok" => op[run.op].cand # 0
         /\ Outcome(run.answer) \in {"succeeded", "failed", "unknown"} /\ Marked(run.op, Step, Outcome(run.answer))
         /\ IF run.answer = "ok" THEN Moved(After(run.pc), run.old, 0, "none") ELSE Moved("failing", run.old, 0, run.answer)
         /\ UNCHANGED <<localVars, op, remoteVars, bounds, history>>
<1> USE LimitsAreNat DEF vars, localVars, opVars, bounds, history, remoteVars
<1>1. /\ run.pc \in Calls /\ run.answer \in {"ok", "failed", "unknown"} /\ UNCHANGED <<localVars, op, remoteVars, bounds, history>>
      /\ run.pc = "credential.create" /\ run.answer = "ok" => op[run.op].cand # 0
      /\ step' = SetStep(run.op, Step, Outcome(run.answer))
  BY DEF Record, SetStep
<1>2. run.op # None
  BY <1>1 DEF Control, Executing, Idle, Calls
<1>3. run.op \in Ops /\ Step \in Steps
  BY <1>1, <1>2, StepIsStep
<1>4. Outcome(run.answer) \in {"succeeded", "failed", "unknown"} /\ (run.answer # "ok" => Outcome(run.answer) = run.answer)
  BY <1>1 DEF Outcome
<1>5. Marked(run.op, Step, Outcome(run.answer))
  BY <1>1, <1>3, <1>4, StepSet DEF StepStatus
<1>6. run' = IF run.answer = "ok" THEN [run EXCEPT !.pc = After(run.pc), !.answer = "none", !.secret = 0]
             ELSE [run EXCEPT !.pc = "failing", !.answer = Outcome(run.answer), !.secret = 0]
  BY DEF Record
<1>7. run \in RunRow /\ 0 \in 0..MaxKeys /\ After(run.pc) \in Pcs
  BY <1>1 DEF OpTypes, After, Calls, Pcs
<1>8. IF run.answer = "ok" THEN Moved(After(run.pc), run.old, 0, "none") ELSE Moved("failing", run.old, 0, run.answer)
  <2> DEFINE f == After(run.pc)
             a == Outcome(run.answer)
  <2>1. f \in Pcs /\ a \in {"succeeded", "failed", "unknown"} /\ (run.answer # "ok" => a = run.answer)
    BY <1>4, <1>7
  <2>2. CASE run.answer = "ok"
    <3>1. run' = [[[run EXCEPT !.pc = f] EXCEPT !.answer = "none"] EXCEPT !.secret = 0]
      BY <1>6, <1>7, <2>2 DEF RunRow
    <3> HIDE DEF f
    <3>2. Moved(f, run.old, 0, "none")
      BY <1>7, <2>1, <3>1 DEF RunRow, Moved
    <3> QED BY <2>2, <3>2 DEF f
  <2>3. CASE run.answer # "ok"
    <3>1. run' = [[[run EXCEPT !.pc = "failing"] EXCEPT !.answer = a] EXCEPT !.secret = 0]
      BY <1>6, <1>7, <2>3 DEF RunRow
    <3>2. "failing" \in Pcs /\ a \in {"failed", "unknown"} /\ a = run.answer BY <1>1, <2>1, <2>3 DEF Pcs
    <3> HIDE DEF a, f
    <3>3. Moved("failing", run.old, 0, a)
      BY <1>7, <3>1, <3>2 DEF RunRow, Moved
    <3> QED BY <2>3, <3>2, <3>3
  <2> QED BY <2>2, <2>3
<1> QED BY <1>1, <1>2, <1>3, <1>4, <1>5, <1>6, <1>7, <1>8

(* A call that failed ends the execution. *)
LEMMA GiveUpDoes ==
  ASSUME LimitsAreNat, LocalTypes, OpTypes, RemoteTypes, Control, References, GiveUp
  PROVE  /\ run.op # None /\ run.op \in Ops /\ run.pc = "failing"
         /\ Concluded(run.answer = "unknown")
         /\ UNCHANGED <<localVars, step, remoteVars, bounds, history>>
<1> USE LimitsAreNat DEF vars, localVars, opVars, bounds, history, remoteVars
<1>1. run.op # None /\ run.pc = "failing" /\ Conclude(run.answer = "unknown") /\ UNCHANGED <<localVars, step, remoteVars, bounds, history>>
  BY DEF GiveUp, At
<1>2. run.op \in Ops
  BY <1>1, Running
<1>3. Concluded(run.answer = "unknown")
  BY <1>1, ConcludeSet
<1> QED BY <1>1, <1>2, <1>3

(* The call an execution makes. *)
LEMMA CallIs ==
  ASSUME LimitsAreNat, LocalTypes, OpTypes, RemoteTypes, Control, References, run.op # None, run.pc \in Calls
  PROVE  /\ run.op \in Ops /\ Call \in CallRow /\ Call.name = run.pc /\ Call.op = run.op
         /\ run.pc = "credential.create" => Call.key = fresh
         /\ run.pc = "credential.revoke" => Call.key = cred[run.old].key /\ run.old \in Rows
         /\ run.pc = "mailbox.delete" => Call.key = 0
         /\ run.pc \in {"mailbox.create", "mailbox.resetPassword"} => Call.key = op[run.op].private /\ Call.key # 0
<1>1. run.op \in Ops /\ op[run.op] \in OpRow /\ op[run.op].status = "running"
  BY Running
<1>2. /\ Call.name = run.pc /\ Call.op = run.op
      /\ run.pc = "credential.create" => Call.key = fresh
      /\ run.pc = "credential.revoke" => Call.key = cred[run.old].key
      /\ run.pc = "mailbox.delete" => Call.key = 0
      /\ run.pc \in {"mailbox.create", "mailbox.resetPassword"} => Call.key = op[run.op].private
  BY DEF Call, Calls
<1>3. run.pc = "credential.revoke" => run.old \in Rows /\ cred[run.old] \in RowOf
  BY DEF References, OldRow, OfState, Rows, LocalTypes
<1>4. run.pc = "mailbox.create" => op[run.op].private # 0
  <2>1. run.pc = "mailbox.create" => Kind(run.op) = "mailbox.create"
    BY DEF Control, OnPath, Kind
  <2>2. run.pc = "mailbox.create" => step[run.op][Reservation] = "succeeded"
    BY <2>1 DEF References, ReservedAt
  <2> QED BY <1>1, <2>1, <2>2 DEF References, Reserved, IsLive, Live
<1>5. run.pc = "mailbox.resetPassword" => op[run.op].private # 0
  BY DEF References, PasswordAt
<1>6. MaxKeys \in Nat /\ fresh \in 0..MaxKeys /\ 0 \in 0..MaxKeys
  BY LimitsAreNat DEF RemoteTypes, Keys
<1>7. Call.key \in 0..MaxKeys
  <2>1. CASE run.pc = "credential.create" BY <1>2, <1>6, <2>1
  <2>2. CASE run.pc = "credential.revoke" BY <1>2, <1>3, <2>2 DEF RowOf
  <2>3. CASE run.pc = "mailbox.delete" BY <1>2, <1>6, <2>3
  <2>4. CASE run.pc \in {"mailbox.create", "mailbox.resetPassword"} BY <1>1, <1>2, <2>4 DEF OpRow
  <2> QED BY <2>1, <2>2, <2>3, <2>4 DEF Calls
<1>8. Call \in CallRow
  <2> DEFINE k == Call.key
  <2>1. Call = [name |-> run.pc, op |-> run.op, key |-> k]
    BY DEF Call
  <2> HIDE DEF k
  <2>2. k \in 0..MaxKeys BY <1>7 DEF k
  <2> QED BY <1>1, <2>1, <2>2 DEF CallRow
<1> QED BY <1>1, <1>2, <1>3, <1>4, <1>5, <1>8

(* What a call does to the account. *)
LEMMA PerformDoes ==
  ASSUME LimitsAreNat, RemoteTypes, NEW call \in CallRow, call.name # "mailbox.delete" => call.key # 0, Perform(call)
  PROVE  /\ account' \in Account
         /\ account'.exists = (call.name = "mailbox.create" \/ (call.name # "mailbox.delete" /\ account.exists))
         /\ account'.primary = IF call.name \in {"mailbox.create", "mailbox.resetPassword"} THEN call.key
                               ELSE IF call.name = "mailbox.delete" THEN 0 ELSE account.primary
         /\ \A k : k \in account'.accepted <=>
              CASE call.name = "mailbox.create" -> k = call.key
                [] call.name = "credential.create" -> k \in account.accepted \/ k = call.key
                [] call.name = "credential.revoke" -> k \in account.accepted /\ k # call.key
                [] call.name = "mailbox.resetPassword" -> (k \in account.accepted /\ k # account.primary) \/ k = call.key
                [] call.name = "mailbox.delete" -> FALSE
         /\ lost \subseteq lost'
         /\ \A k \in account.accepted : \/ k \in account'.accepted \/ k \in lost'
                                        \/ call.name = "credential.revoke" /\ k = call.key
         /\ setter' = CASE call.name = "mailbox.resetPassword" -> call.op
                        [] call.name \in {"mailbox.create", "mailbox.delete"} -> None
                        [] OTHER -> setter
<1>1. /\ account' = Effect(call)
      /\ lost' = IF call.name = "credential.revoke" THEN lost ELSE lost \cup (account.accepted \ Effect(call).accepted)
      /\ setter' = CASE call.name = "mailbox.resetPassword" -> call.op
                     [] call.name \in {"mailbox.create", "mailbox.delete"} -> None
                     [] OTHER -> setter
  BY DEF Perform
<1>2. /\ account \in Account /\ call.name \in Calls /\ call.key \in 0..MaxKeys /\ MaxKeys \in Nat
      /\ call.name # "mailbox.delete" => call.key \in Keys
  BY LimitsAreNat DEF RemoteTypes, CallRow, Keys
<1> DEFINE e == Effect(call)
<1>3. /\ e \in Account
      /\ e.exists = (call.name = "mailbox.create" \/ (call.name # "mailbox.delete" /\ account.exists))
      /\ e.primary = IF call.name \in {"mailbox.create", "mailbox.resetPassword"} THEN call.key
                     ELSE IF call.name = "mailbox.delete" THEN 0 ELSE account.primary
      /\ \A k : k \in e.accepted <=>
           CASE call.name = "mailbox.create" -> k = call.key
             [] call.name = "credential.create" -> k \in account.accepted \/ k = call.key
             [] call.name = "credential.revoke" -> k \in account.accepted /\ k # call.key
             [] call.name = "mailbox.resetPassword" -> (k \in account.accepted /\ k # account.primary) \/ k = call.key
             [] call.name = "mailbox.delete" -> FALSE
  <2>0. account.exists \in BOOLEAN /\ account.primary \in 0..MaxKeys /\ account.accepted \in SUBSET Keys
    BY <1>2 DEF Account
  <2>1. CASE call.name = "mailbox.create"
    <3>1. e = [exists |-> TRUE, primary |-> call.key, accepted |-> {call.key}] BY <2>1 DEF Effect
    <3> HIDE DEF e
    <3> QED BY <1>2, <2>1, <3>1 DEF Account
  <2>2. CASE call.name = "credential.create"
    <3>1. e = [account EXCEPT !.accepted = account.accepted \cup {call.key}] BY <2>2 DEF Effect
    <3> HIDE DEF e
    <3>2. e.exists = account.exists /\ e.primary = account.primary /\ e.accepted = account.accepted \cup {call.key} /\ e \in Account
      BY <1>2, <2>2, <3>1 DEF Account
    <3> QED BY <2>0, <2>2, <3>2
  <2>3. CASE call.name = "credential.revoke"
    <3>1. e = [account EXCEPT !.accepted = account.accepted \ {call.key}] BY <2>3 DEF Effect
    <3> HIDE DEF e
    <3>2. e.exists = account.exists /\ e.primary = account.primary /\ e.accepted = account.accepted \ {call.key} /\ e \in Account
      BY <1>2, <2>3, <3>1 DEF Account
    <3> QED BY <2>0, <2>3, <3>2
  <2>4. CASE call.name = "mailbox.resetPassword"
    <3> DEFINE a == (account.accepted \ {account.primary}) \cup {call.key}
    <3>1. e = [[account EXCEPT !.primary = call.key] EXCEPT !.accepted = a] BY <1>2, <2>4 DEF Effect, Account
    <3>2. a \in SUBSET Keys BY <1>2, <2>0, <2>4
    <3> HIDE DEF e, a
    <3>3. e.exists = account.exists /\ e.primary = call.key /\ e.accepted = a /\ e \in Account
      BY <1>2, <2>4, <3>1, <3>2 DEF Account
    <3> QED BY <2>0, <2>4, <3>3 DEF a
  <2>5. CASE call.name = "mailbox.delete"
    <3>1. e = [exists |-> FALSE, primary |-> 0, accepted |-> {}] BY <2>5 DEF Effect
    <3> HIDE DEF e
    <3>2. 0 \in 0..MaxKeys /\ {} \in SUBSET Keys BY <1>2
    <3>3. e.exists = FALSE /\ e.primary = 0 /\ e.accepted = {} /\ e \in Account
      BY <3>1, <3>2 DEF Account
    <3> QED BY <2>0, <2>5, <3>3
  <2> QED BY <1>2, <2>1, <2>2, <2>3, <2>4, <2>5 DEF Calls
<1>4. account' = e /\ lost' = IF call.name = "credential.revoke" THEN lost ELSE lost \cup (account.accepted \ e.accepted)
  BY <1>1
<1> HIDE DEF e
<1>5. lost \subseteq lost' BY <1>4
<1>6. \A k \in account.accepted : k \in account'.accepted \/ k \in lost' \/ (call.name = "credential.revoke" /\ k = call.key)
  BY <1>3, <1>4
<1> QED BY <1>1, <1>3, <1>4, <1>5, <1>6

(* The provider performs the call, or may do so later. *)
LEMMA ProviderDoes ==
  ASSUME LimitsAreNat, LocalTypes, OpTypes, RemoteTypes, Control, References, Provider
  PROVE  /\ run.op # None /\ run.pc \in Calls /\ run.answer = "calling" /\ Possible(Call) /\ trouble' \in Nat
         /\ run.pc = "credential.create" =>
              /\ fresh < MaxKeys /\ fresh' = fresh + 1 /\ fresh' \in Keys /\ maker' \in [Keys -> Ops \cup {None}]
              /\ maker'[fresh] = run.op /\ \A k \in Keys : k # fresh => maker'[k] = maker[k]
         /\ run.pc # "credential.create" => UNCHANGED <<fresh, maker>>
         /\ \E a \in {"ok", "unknown"} :
              /\ Moved(run.pc, run.old, IF run.pc = "credential.create" THEN fresh ELSE 0, a)
              /\ \/ Perform(Call) /\ late' = late
                 \/ /\ late' = late \cup {Call} /\ UNCHANGED <<account, lost, setter>>
                    /\ a = "ok" => run.pc = "credential.revoke"
         /\ UNCHANGED <<localVars, op, step, foreign, changes, named>>
<1> USE LimitsAreNat DEF vars, localVars, opVars, bounds, history, remoteVars
<1>1. /\ run.pc \in Calls /\ run.answer = "calling" /\ Possible(Call) /\ UNCHANGED <<localVars, op, step, foreign, changes, named>>
      /\ run.pc = "credential.create" => fresh < MaxKeys /\ fresh' = fresh + 1 /\ maker' = [maker EXCEPT ![fresh] = run.op]
      /\ run.pc # "credential.create" => UNCHANGED <<fresh, maker>>
      /\ \/ Perform(Call) /\ Answer("ok") /\ UNCHANGED <<late, trouble>>
         \/ /\ trouble' = trouble + 1
            /\ \/ Perform(Call) /\ Answer("unknown") /\ UNCHANGED late
               \/ /\ late' = late \cup {Call} /\ UNCHANGED <<account, lost, setter>>
                  /\ \/ Answer("unknown")
                     \/ run.pc = "credential.revoke" /\ Answer("ok")
  BY DEF Provider
<1>2. run.op # None
  BY <1>1 DEF Control, Executing, Idle, Calls
<1>3. run.op \in Ops /\ run \in RunRow /\ trouble \in Nat /\ fresh \in Keys /\ maker \in [Keys -> Ops \cup {None}]
      /\ (run.pc = "credential.create" => Call.key = fresh)
  BY <1>1, <1>2, CallIs DEF OpTypes, RemoteTypes
<1>4. ASSUME run.pc = "credential.create"
      PROVE  /\ fresh < MaxKeys /\ fresh' = fresh + 1 /\ fresh' \in Keys /\ maker' \in [Keys -> Ops \cup {None}]
             /\ maker'[fresh] = run.op /\ \A k \in Keys : k # fresh => maker'[k] = maker[k]
  BY <1>1, <1>3, <1>4 DEF Keys
<1>5. \A a \in {"ok", "unknown"} : Answer(a) =>
        Moved(run.pc, run.old, IF run.pc = "credential.create" THEN fresh ELSE 0, a)
  <2> SUFFICES ASSUME NEW a \in {"ok", "unknown"}, Answer(a)
               PROVE  Moved(run.pc, run.old, IF run.pc = "credential.create" THEN fresh ELSE 0, a)
    OBVIOUS
  <2> DEFINE s == IF run.pc = "credential.create" THEN fresh ELSE 0
  <2>1. s \in 0..MaxKeys /\ s = IF run.pc = "credential.create" THEN Call.key ELSE 0
    BY <1>3 DEF Keys
  <2>2. run' = [[run EXCEPT !.answer = a] EXCEPT !.secret = s]
    BY <1>3, <2>1 DEF Answer, RunRow
  <2> HIDE DEF s
  <2>3. Moved(run.pc, run.old, s, a)
    BY <1>3, <2>1, <2>2 DEF RunRow, Moved
  <2> QED BY <2>3 DEF s
<1>6. trouble' \in Nat
  BY <1>1, <1>3
<1>7. \E a \in {"ok", "unknown"} :
        /\ Moved(run.pc, run.old, IF run.pc = "credential.create" THEN fresh ELSE 0, a)
        /\ \/ Perform(Call) /\ late' = late
           \/ /\ late' = late \cup {Call} /\ UNCHANGED <<account, lost, setter>>
              /\ a = "ok" => run.pc = "credential.revoke"
  <2>1. CASE Perform(Call) /\ Answer("ok") /\ UNCHANGED <<late, trouble>> BY <1>5, <2>1
  <2>2. CASE Perform(Call) /\ Answer("unknown") /\ UNCHANGED late BY <1>5, <2>2
  <2>3. CASE late' = late \cup {Call} /\ UNCHANGED <<account, lost, setter>> /\ Answer("unknown") BY <1>5, <2>3
  <2>4. CASE late' = late \cup {Call} /\ UNCHANGED <<account, lost, setter>> /\ run.pc = "credential.revoke" /\ Answer("ok")
    BY <1>5, <2>4
  <2> QED BY <1>1, <2>1, <2>2, <2>3, <2>4
<1> QED BY <1>1, <1>2, <1>4, <1>6, <1>7

(* A call is performed although the client gave up. *)
LEMMA LandDoes ==
  ASSUME Land
  PROVE  \E call \in late :
           /\ late' = late \ {call}
           /\ (Possible(call) /\ Perform(call)) \/ (~Possible(call) /\ UNCHANGED <<account, lost, setter>>)
           /\ UNCHANGED <<localVars, opVars, fresh, bounds, maker, named>>
BY DEF Land

(* The secret that was returned is saved, or it is not (managedCredential). *)
LEMMA KeepDoes ==
  ASSUME LimitsAreNat, LocalTypes, OpTypes, RemoteTypes, Control, References, Keep
  PROVE  /\ run.op # None /\ run.op \in Ops /\ run.pc = "credential.create" /\ run.answer = "ok" /\ op[run.op].cand = 0
         /\ \/ cred' = cred /\ op' = op /\ Moved(run.pc, run.old, 0, "unknown")
            \/ /\ Adds([source |-> "managed", state |-> "candidate", key |-> run.secret, secret |-> TRUE])
               /\ Became(run.op, op[run.op].request, op[run.op].status, Len(cred) + 1, op[run.op].private, op[run.op].claim, op[run.op].claimed, op[run.op].expired) /\ run' = run
         /\ trouble' \in Nat
         /\ UNCHANGED <<conn, mailbox, endpoint, step, remoteVars, foreign, changes, history>>
<1> USE LimitsAreNat DEF vars, localVars, opVars, bounds, history, remoteVars
<1>1. /\ run.op # None /\ run.pc = "credential.create" /\ run.answer = "ok" /\ op[run.op].cand = 0
      /\ UNCHANGED <<conn, mailbox, endpoint, step, remoteVars, foreign, changes, history>>
      /\ trouble' \in Nat
  BY DEF Keep, At, RemoteTypes
<1>2. run.op \in Ops /\ run \in RunRow
  BY <1>1, Running DEF OpTypes
<1>3. \/ cred' = cred /\ op' = op /\ run' = [run EXCEPT !.answer = "unknown", !.secret = 0]
      \/ /\ Adds([source |-> "managed", state |-> "candidate", key |-> run.secret, secret |-> TRUE])
         /\ op' = [op EXCEPT ![run.op].cand = Len(cred) + 1] /\ run' = run
  BY RowsKept
<1>4. ASSUME run' = [run EXCEPT !.answer = "unknown", !.secret = 0] PROVE Moved(run.pc, run.old, 0, "unknown")
  <2>1. 0 \in 0..MaxKeys OBVIOUS
  <2>2. run' = [[run EXCEPT !.answer = "unknown"] EXCEPT !.secret = 0] BY <1>2, <1>4 DEF RunRow
  <2> QED BY <1>2, <2>1, <2>2 DEF RunRow, Moved
<1>5. ASSUME Adds([source |-> "managed", state |-> "candidate", key |-> run.secret, secret |-> TRUE]),
             op' = [op EXCEPT ![run.op].cand = Len(cred) + 1]
      PROVE  Became(run.op, op[run.op].request, op[run.op].status, Len(cred) + 1, op[run.op].private, op[run.op].claim, op[run.op].claimed, op[run.op].expired)
  <2> DEFINE v == Len(cred) + 1
             x == [op[run.op] EXCEPT !.cand = v]
  <2>1. op \in [Ops -> OpRow] /\ op[run.op] \in OpRow /\ v \in 0..MaxCreds
    BY <1>2, <1>5 DEF OpTypes, Adds
  <2>2. op' = [op EXCEPT ![run.op] = x]
    BY <1>5
  <2> HIDE DEF v
  <2>3. /\ x \in OpRow /\ x.request = op[run.op].request /\ x.status = op[run.op].status /\ x.cand = v
        /\ x.private = op[run.op].private /\ x.claim = op[run.op].claim /\ x.claimed = op[run.op].claimed /\ x.expired = op[run.op].expired
    BY <2>1 DEF OpRow
  <2> HIDE DEF x
  <2>4. op' \in [Ops -> OpRow] /\ op'[run.op] = x /\ \A p \in Ops \ {run.op} : op'[p] = op[p]
    BY <1>2, <1>5, <2>1, <2>2, <2>3
  <2> QED BY <2>3, <2>4 DEF Became, v
<1> QED BY <1>1, <1>2, <1>3, <1>4, <1>5

(* The mailbox, its endpoints and its password are saved before the provider is called (createManagedMailbox). *)
LEMMA ReserveDoes ==
  ASSUME LimitsAreNat, LocalTypes, OpTypes, RemoteTypes, Control, References, Reserve
  PROVE  /\ run.op # None /\ run.op \in Ops /\ run.pc = "reserve" /\ Moved("mailbox.create", run.old, run.secret, "none")
         /\ \/ Done("mailbox.reserve") /\ UNCHANGED <<mailbox, endpoint, op, step, fresh>>
            \/ \E k \in 0..MaxKeys :
                 /\ k = IF op[run.op].private # 0 THEN op[run.op].private
                        ELSE IF op[run.op].request.entered THEN op[run.op].request.secret ELSE fresh
                 /\ (k = fresh => fresh < MaxKeys) /\ fresh' = (IF k = fresh THEN fresh + 1 ELSE fresh)
                 /\ Became(run.op, op[run.op].request, op[run.op].status, op[run.op].cand, k, op[run.op].claim, op[run.op].claimed, op[run.op].expired)
                 /\ mailbox'.status = "suspended" /\ mailbox'.remote = "unknown" /\ Marked(run.op, Reservation, "succeeded")
                 /\ \A p \in Protocols : endpoint'[p].cred = 0 /\ (endpoint'[p].mode # "disabled" => p \in conn.templates)
         /\ UNCHANGED <<conn, cred, account, late, bounds, history>>
<1> USE LimitsAreNat DEF vars, localVars, opVars, bounds, history, remoteVars
<1>1. run.op # None /\ run.pc = "reserve" /\ Goto("mailbox.create") /\ UNCHANGED <<conn, cred, account, late, bounds, history>>
  BY DEF Reserve, At
<1>2. run.op \in Ops /\ op[run.op] \in OpRow /\ op[run.op].request \in Request
  BY <1>1, Running
<1>3. Moved("mailbox.create", run.old, run.secret, "none")
  BY <1>1, GotoSet DEF Pcs, Calls
<1>4. PICK k : k = (IF op[run.op].private # 0 THEN op[run.op].private
                     ELSE IF op[run.op].request.entered THEN op[run.op].request.secret ELSE fresh)
  OBVIOUS
<1>5. k \in 0..MaxKeys
  BY <1>2, <1>4 DEF OpRow, Request, RemoteTypes, Keys
<1>6. \/ Done("mailbox.reserve") /\ UNCHANGED <<mailbox, endpoint, op, step, fresh>>
      \/ /\ k = fresh => fresh < MaxKeys
         /\ fresh' = IF k = fresh THEN fresh + 1 ELSE fresh
         /\ op' = [op EXCEPT ![run.op].private = k]
         /\ mailbox' = [status |-> "suspended", mode |-> "api", remote |-> "unknown", revision |-> 1]
         /\ endpoint' = [p \in Protocols |-> IF p \in conn.templates /\ ~op[run.op].request.entered
                                             THEN [Off EXCEPT !.mode = "inherit"] ELSE Off]
         /\ step' = SetStep(run.op, Reservation, "succeeded")
  BY <1>4 DEF Reserve, MarkDone, SetStep, Reservation
<1>7. ASSUME op' = [op EXCEPT ![run.op].private = k]
      PROVE  Became(run.op, op[run.op].request, op[run.op].status, op[run.op].cand, k, op[run.op].claim, op[run.op].claimed, op[run.op].expired)
  <2> DEFINE v == k
             x == [op[run.op] EXCEPT !.private = v]
  <2>1. op \in [Ops -> OpRow] /\ op[run.op] \in OpRow /\ v \in 0..MaxKeys
    BY <1>2, <1>5 DEF OpTypes
  <2>2. op' = [op EXCEPT ![run.op] = x]
    BY <1>7
  <2> HIDE DEF v
  <2>3. /\ x \in OpRow /\ x.request = op[run.op].request /\ x.status = op[run.op].status /\ x.cand = op[run.op].cand
        /\ x.private = v /\ x.claim = op[run.op].claim /\ x.claimed = op[run.op].claimed /\ x.expired = op[run.op].expired
    BY <2>1 DEF OpRow
  <2> HIDE DEF x
  <2>4. op' \in [Ops -> OpRow] /\ op'[run.op] = x /\ \A p \in Ops \ {run.op} : op'[p] = op[p]
    BY <1>2, <1>5, <2>1, <2>2, <2>3
  <2> QED BY <2>3, <2>4 DEF Became, v
<1>8. step' = SetStep(run.op, Reservation, "succeeded") => Marked(run.op, Reservation, "succeeded")
  BY <1>2, StepSet DEF StepStatus, Reservation, Steps
<1>9. ASSUME endpoint' = [p \in Protocols |-> IF p \in conn.templates /\ ~op[run.op].request.entered
                                                  THEN [Off EXCEPT !.mode = "inherit"] ELSE Off]
      PROVE  \A p \in Protocols : endpoint'[p].cred = 0 /\ (endpoint'[p].mode # "disabled" => p \in conn.templates)
  <2>1. Off.mode = "disabled" /\ Off.cred = 0 /\ [Off EXCEPT !.mode = "inherit"].cred = 0 BY DEF Off
  <2> QED BY <1>9, <2>1
<1>10. CASE Done("mailbox.reserve") /\ UNCHANGED <<mailbox, endpoint, op, step, fresh>>
  BY <1>1, <1>2, <1>3, <1>10
<1>11. CASE ~(Done("mailbox.reserve") /\ UNCHANGED <<mailbox, endpoint, op, step, fresh>>)
  <2>1. mailbox'.status = "suspended" /\ mailbox'.remote = "unknown" BY <1>6, <1>11
  <2> QED BY <1>1, <1>2, <1>3, <1>4, <1>5, <1>6, <1>7, <1>8, <1>9, <1>11, <2>1
<1> QED BY <1>10, <1>11

(* A new password is saved before the provider hears of it (operationPassword). *)
LEMMA PasswordDoes ==
  ASSUME LimitsAreNat, LocalTypes, OpTypes, RemoteTypes, Control, References, Password
  PROVE  /\ run.op # None /\ run.op \in Ops /\ run.pc = "password" /\ Moved("mailbox.resetPassword", run.old, run.secret, "none")
         /\ \/ op[run.op].private # 0 /\ UNCHANGED <<op, fresh>>
            \/ /\ op[run.op].private = 0 /\ fresh < MaxKeys /\ fresh' = fresh + 1
               /\ Became(run.op, op[run.op].request, op[run.op].status, op[run.op].cand, fresh, op[run.op].claim, op[run.op].claimed, op[run.op].expired)
         /\ UNCHANGED <<localVars, step, account, late, bounds, history>>
<1> USE LimitsAreNat DEF vars, localVars, opVars, bounds, history, remoteVars
<1>1. /\ run.op # None /\ run.pc = "password" /\ Goto("mailbox.resetPassword") /\ UNCHANGED <<localVars, step, account, late, bounds, history>>
      /\ \/ op[run.op].private # 0 /\ UNCHANGED <<op, fresh>>
         \/ /\ op[run.op].private = 0 /\ fresh < MaxKeys /\ fresh' = fresh + 1
            /\ op' = [op EXCEPT ![run.op].private = fresh]
  BY DEF Password, At, SavedPassword
<1>2. run.op \in Ops /\ op[run.op] \in OpRow /\ fresh \in 0..MaxKeys
  BY <1>1, Running DEF RemoteTypes, Keys
<1>3. Moved("mailbox.resetPassword", run.old, run.secret, "none")
  BY <1>1, GotoSet DEF Pcs, Calls
<1>4. ASSUME op' = [op EXCEPT ![run.op].private = fresh]
      PROVE  Became(run.op, op[run.op].request, op[run.op].status, op[run.op].cand, fresh, op[run.op].claim, op[run.op].claimed, op[run.op].expired)
  <2> DEFINE v == fresh
             x == [op[run.op] EXCEPT !.private = v]
  <2>1. op \in [Ops -> OpRow] /\ op[run.op] \in OpRow /\ v \in 0..MaxKeys
    BY <1>2 DEF OpTypes
  <2>2. op' = [op EXCEPT ![run.op] = x]
    BY <1>4
  <2> HIDE DEF v
  <2>3. /\ x \in OpRow /\ x.request = op[run.op].request /\ x.status = op[run.op].status /\ x.cand = op[run.op].cand
        /\ x.private = v /\ x.claim = op[run.op].claim /\ x.claimed = op[run.op].claimed /\ x.expired = op[run.op].expired
    BY <2>1 DEF OpRow
  <2> HIDE DEF x
  <2>4. op' \in [Ops -> OpRow] /\ op'[run.op] = x /\ \A p \in Ops \ {run.op} : op'[p] = op[p]
    BY <1>2, <2>1, <2>2, <2>3
  <2> QED BY <2>3, <2>4 DEF Became, v
<1> QED BY <1>1, <1>2, <1>3, <1>4

(* Whoever asked may fetch the password. *)
LEMMA ClaimDoes ==
  ASSUME LimitsAreNat, LocalTypes, OpTypes, RemoteTypes, Control, References, Claim
  PROVE  /\ run.op # None /\ run.op \in Ops /\ run.pc = "claim" /\ Moved("validate", run.old, run.secret, "none")
         /\ \/ op[run.op].claimed # 0 /\ op' = op
            \/ /\ op[run.op].claimed = 0
               /\ Became(run.op, op[run.op].request, op[run.op].status, op[run.op].cand, op[run.op].private, op[run.op].private, op[run.op].claimed, op[run.op].expired)
         /\ UNCHANGED <<localVars, step, remoteVars, bounds, history>>
<1> USE LimitsAreNat DEF vars, localVars, opVars, bounds, history, remoteVars
<1>1. /\ run.op # None /\ run.pc = "claim" /\ Goto("validate") /\ UNCHANGED <<localVars, step, remoteVars, bounds, history>>
      /\ \/ op[run.op].claimed # 0 /\ op' = op
         \/ op[run.op].claimed = 0 /\ op' = [op EXCEPT ![run.op].claim = op[run.op].private]
  BY DEF Claim, At
<1>2. run.op \in Ops /\ op[run.op] \in OpRow /\ op[run.op].private \in 0..MaxKeys
  BY <1>1, Running DEF OpRow
<1>3. Moved("validate", run.old, run.secret, "none")
  BY <1>1, GotoSet DEF Pcs
<1>4. ASSUME op' = [op EXCEPT ![run.op].claim = op[run.op].private]
      PROVE  Became(run.op, op[run.op].request, op[run.op].status, op[run.op].cand, op[run.op].private, op[run.op].private, op[run.op].claimed, op[run.op].expired)
  <2> DEFINE v == op[run.op].private
             x == [op[run.op] EXCEPT !.claim = v]
  <2>1. op \in [Ops -> OpRow] /\ op[run.op] \in OpRow /\ v \in 0..MaxKeys
    BY <1>2 DEF OpTypes
  <2>2. op' = [op EXCEPT ![run.op] = x]
    BY <1>4
  <2> HIDE DEF v
  <2>3. /\ x \in OpRow /\ x.request = op[run.op].request /\ x.status = op[run.op].status /\ x.cand = op[run.op].cand
        /\ x.private = op[run.op].private /\ x.claim = v /\ x.claimed = op[run.op].claimed /\ x.expired = op[run.op].expired
    BY <2>1 DEF OpRow
  <2> HIDE DEF x
  <2>4. op' \in [Ops -> OpRow] /\ op'[run.op] = x /\ \A p \in Ops \ {run.op} : op'[p] = op[p]
    BY <1>2, <2>1, <2>2, <2>3
  <2> QED BY <2>3, <2>4 DEF Became, v
<1> QED BY <1>1, <1>2, <1>3, <1>4

(* The deletion is read back. *)
LEMMA GoneDoes ==
  ASSUME LimitsAreNat, LocalTypes, OpTypes, RemoteTypes, Control, References, Gone
  PROVE  /\ run.op # None /\ run.op \in Ops /\ run.pc = "gone"
         /\ \/ account.exists /\ Concluded(TRUE)
            \/ ~account.exists /\ Moved("commit", run.old, run.secret, "none") /\ UNCHANGED op
         /\ UNCHANGED <<localVars, step, remoteVars, bounds, history>>
<1> USE LimitsAreNat DEF vars, localVars, opVars, bounds, history, remoteVars
<1>1. /\ run.op # None /\ run.pc = "gone" /\ UNCHANGED <<localVars, step, remoteVars, bounds, history>>
      /\ \/ account.exists /\ Conclude(TRUE)
         \/ ~account.exists /\ Goto("commit") /\ UNCHANGED op
  BY DEF Gone, At
<1>2. run.op \in Ops
  BY <1>1, Running
<1>3. Goto("commit") => Moved("commit", run.old, run.secret, "none")
  BY GotoSet DEF Pcs
<1>4. Conclude(TRUE) => Concluded(TRUE)
  BY <1>1, ConcludeSet
<1> QED BY <1>1, <1>2, <1>3, <1>4

(* The rest is left to an administrator (executeRemoteAccessRevocation). *)
LEMMA ExternalDoes ==
  ASSUME LimitsAreNat, LocalTypes, OpTypes, RemoteTypes, Control, References, External
  PROVE  /\ run.op # None /\ run.op \in Ops /\ run.pc = "external" /\ Turned(run.op, "needs_action") /\ Stops
         /\ Marked(run.op, <<"remoteAccess", 0>>, "succeeded")
         /\ UNCHANGED <<localVars, remoteVars, bounds, history>>
<1> USE LimitsAreNat DEF vars, localVars, opVars, bounds, history, remoteVars
<1>1. /\ run.op # None /\ run.pc = "external" /\ UNCHANGED <<localVars, remoteVars, bounds, history>>
      /\ op' = SetStatus(run.op, "needs_action") /\ run' = Idle /\ step' = SetStep(run.op, <<"remoteAccess", 0>>, "succeeded")
  BY DEF External, At, MarkDone, SetStatus, SetStep
<1>2. run.op \in Ops
  BY <1>1, Running
<1>3. Turned(run.op, "needs_action") /\ Stops
  BY <1>1, <1>2, StatusSet, IdleIsRun DEF OpStatus, Live, Stops
<1>4. Marked(run.op, <<"remoteAccess", 0>>, "succeeded")
  BY <1>1, <1>2, StepSet DEF StepStatus, Steps
<1> QED BY <1>1, <1>2, <1>3, <1>4

(* The mailbox is read back before it counts as present. *)
LEMMA ConfirmDoes ==
  ASSUME LimitsAreNat, LocalTypes, OpTypes, RemoteTypes, Control, References, Confirm
  PROVE  /\ run.op # None /\ run.op \in Ops /\ run.pc = "confirm" /\ account.exists
         /\ mailbox'.status = mailbox.status /\ mailbox'.remote = "present"
         /\ Moved(IF op[run.op].request.entered THEN "check" ELSE "candidate", run.old, run.secret, run.answer)
         /\ UNCHANGED <<conn, endpoint, cred, op, step, remoteVars, bounds, history>>
<1> USE LimitsAreNat DEF vars, localVars, opVars, bounds, history, remoteVars
<1>1. /\ run.op # None /\ run.pc = "confirm" /\ account.exists /\ mailbox' = [mailbox EXCEPT !.remote = "present"]
      /\ run' = [run EXCEPT !.pc = IF op[run.op].request.entered THEN "check" ELSE "candidate", !.mailbox = mailbox.revision]
      /\ UNCHANGED <<conn, endpoint, cred, op, step, remoteVars, bounds, history>>
  BY DEF Confirm, At
<1>2. run.op \in Ops /\ run \in RunRow /\ mailbox \in MailboxRow /\ mailbox.revision \in Nat
  BY <1>1, Running DEF OpTypes, LocalTypes, MailboxRow
<1>3. mailbox'.status = mailbox.status /\ mailbox'.remote = "present"
  BY <1>1, <1>2 DEF MailboxRow
<1>4. Moved(IF op[run.op].request.entered THEN "check" ELSE "candidate", run.old, run.secret, run.answer)
  <2> DEFINE f == IF op[run.op].request.entered THEN "check" ELSE "candidate"
             m == mailbox.revision
  <2>1. f \in Pcs /\ m \in Nat BY <1>2 DEF Pcs
  <2>2. run' = [[run EXCEPT !.pc = f] EXCEPT !.mailbox = m] BY <1>1, <1>2 DEF RunRow
  <2> HIDE DEF f, m
  <2>3. Moved(f, run.old, run.secret, run.answer) BY <1>2, <2>1, <2>2 DEF RunRow, Moved
  <2> QED BY <2>3 DEF f
<1> QED BY <1>1, <1>2, <1>3, <1>4

(* The candidate is made the one in use (managedCredential). *)
LEMMA ActivateDoes ==
  ASSUME LimitsAreNat, LocalTypes, OpTypes, RemoteTypes, Control, References, Activate
  PROVE  /\ run.op # None /\ run.op \in Ops /\ run.pc = "activate" /\ Moved("revoke", run.old, run.secret, "none")
         /\ mailbox'.status = mailbox.status /\ mailbox'.remote = mailbox.remote
         /\ SameRows /\ \A d \in Rows : cred'[d].secret = cred[d].secret
         /\ \/ cred[op[run.op].cand].state = "active" /\ UNCHANGED <<cred, endpoint, op>>
            \/ /\ cred[op[run.op].cand].state # "active" /\ Turned(run.op, op[run.op].status)
               /\ \A d \in Rows : cred'[d].state = ActivatedState(op[run.op].cand, d)
               /\ endpoint' = Activated(op[run.op].cand)
         /\ UNCHANGED <<conn, step, remoteVars, bounds, history>>
<1> USE LimitsAreNat DEF vars, localVars, opVars, bounds, history, remoteVars
<1>1. /\ run.op # None /\ run.pc = "activate" /\ Goto("revoke") /\ UNCHANGED <<conn, step, remoteVars, bounds, history>>
  BY DEF Activate, At
<1>2. run.op \in Ops /\ mailbox \in MailboxRow /\ mailbox.revision + 1 \in Nat
  BY <1>1, Running DEF LocalTypes, MailboxRow
<1>3. Moved("revoke", run.old, run.secret, "none")
  BY <1>1, GotoSet DEF Pcs
<1>4. /\ SameRows /\ \A d \in Rows : cred'[d].secret = cred[d].secret
      /\ \/ cred[op[run.op].cand].state = "active" /\ UNCHANGED <<cred, endpoint, mailbox, op>>
         \/ /\ cred[op[run.op].cand].state # "active" /\ \A d \in Rows : cred'[d].state = ActivatedState(op[run.op].cand, d)
            /\ endpoint' = Activated(op[run.op].cand) /\ mailbox' = [mailbox EXCEPT !.revision = mailbox.revision + 1]
            /\ op' = [op EXCEPT ![run.op].active = mailbox.revision + 1]
  BY RowsActivated
<1>5. ASSUME op' = [op EXCEPT ![run.op].active = mailbox.revision + 1] PROVE Turned(run.op, op[run.op].status)
  <2> DEFINE v == mailbox.revision + 1
             x == [op[run.op] EXCEPT !.active = v]
  <2>1. op \in [Ops -> OpRow] /\ op[run.op] \in OpRow /\ v \in Nat
    BY <1>2 DEF OpTypes
  <2>2. op' = [op EXCEPT ![run.op] = x]
    BY <1>5
  <2> HIDE DEF v
  <2>3. /\ x \in OpRow /\ x.request = op[run.op].request /\ x.status = op[run.op].status /\ x.cand = op[run.op].cand
        /\ x.private = op[run.op].private /\ x.claim = op[run.op].claim /\ x.claimed = op[run.op].claimed /\ x.expired = op[run.op].expired
    BY <2>1 DEF OpRow
  <2> HIDE DEF x
  <2>4. op' \in [Ops -> OpRow] /\ op'[run.op] = x /\ \A p \in Ops \ {run.op} : op'[p] = op[p]
    BY <1>2, <2>1, <2>2, <2>3
  <2> QED BY <2>3, <2>4 DEF Turned, Became
<1>6. mailbox'.status = mailbox.status /\ mailbox'.remote = mailbox.remote
  <2>1. CASE mailbox' = mailbox BY <2>1
  <2>2. CASE mailbox' = [mailbox EXCEPT !.revision = mailbox.revision + 1] BY <1>2, <2>2 DEF MailboxRow
  <2> QED BY <1>4, <2>1, <2>2
<1> QED BY <1>1, <1>2, <1>3, <1>4, <1>5, <1>6

(* A set of numbers that is not empty has a least one. *)
LEMMA LeastElement ==
  ASSUME NEW T \in SUBSET Nat, T # {}
  PROVE  Min(T) \in T
<1> DEFINE R == OpToRel(<, Nat)
<1>1. IsWellFoundedOn(R, Nat)
  BY NatLessThanWellFounded
<1>2. \A x, y \in Nat : y < x => <<y, x>> \in R
  BY DEF OpToRel
<1> HIDE DEF R
<1>3. T \subseteq Nat
  OBVIOUS
<1>4. PICK x \in T : \A y \in T : ~ (<<y, x>> \in R)
  <2>1. \E x \in T : \A y \in T : ~ (<<y, x>> \in R)
    BY <1>1, <1>3, WFMin, Zenon
  <2> QED BY <2>1, Zenon
<1>5. ASSUME NEW y \in T PROVE x <= y
  <2>1. x \in Nat /\ y \in Nat OBVIOUS
  <2>2. ~ (y < x) BY <1>2, <1>4, <2>1, Zenon
  <2> QED BY <2>1, <2>2
<1>6. Min(T) = CHOOSE m \in T : \A n \in T : m <= n
  BY DEF Min
<1> QED BY <1>5, <1>6

(* The next of the old credentials, in the order of their ids. *)
LEMMA RevokeDoes ==
  ASSUME LimitsAreNat, LocalTypes, OpTypes, RemoteTypes, Control, References, Revoke
  PROVE  /\ run.op # None /\ run.op \in Ops /\ run.pc = "revoke"
         /\ \/ OfState({"revocation_pending"}) = {} /\ Moved("commit", 0, run.secret, run.answer)
            \/ \E c \in OfState({"revocation_pending"}) : c \in Rows /\ Moved("credential.revoke", c, run.secret, run.answer)
         /\ UNCHANGED <<localVars, op, step, remoteVars, bounds, history>>
<1> USE LimitsAreNat DEF vars, localVars, opVars, bounds, history, remoteVars
<1>1. /\ run.op # None /\ run.pc = "revoke" /\ UNCHANGED <<localVars, op, step, remoteVars, bounds, history>>
      /\ run' = IF OfState({"revocation_pending"}) = {} THEN [run EXCEPT !.pc = "commit", !.old = 0]
                ELSE [run EXCEPT !.pc = "credential.revoke", !.old = Min(OfState({"revocation_pending"}))]
  BY DEF Revoke, At
<1>2. run.op \in Ops /\ run \in RunRow /\ 0 \in 0..MaxCreds
  BY <1>1, Running DEF OpTypes
<1>3. cred \in Seq(RowOf) /\ Len(cred) \in Nat /\ Len(cred) <= MaxCreds /\ MaxCreds \in Nat
  BY DEF LocalTypes
<1>4. \A c \in Rows : c \in 0..MaxCreds /\ c \in Nat
  BY <1>3 DEF Rows
<1>5. OfState({"revocation_pending"}) \subseteq Rows
  BY DEF OfState, Rows
<1>6. CASE OfState({"revocation_pending"}) = {}
  <2>1. run' = [[run EXCEPT !.pc = "commit"] EXCEPT !.old = 0] BY <1>1, <1>2, <1>6 DEF RunRow
  <2>2. Moved("commit", 0, run.secret, run.answer) BY <1>2, <2>1 DEF RunRow, Moved, Pcs
  <2> QED BY <1>1, <1>2, <1>6, <2>2
<1>7. CASE OfState({"revocation_pending"}) # {}
  <2> DEFINE S == OfState({"revocation_pending"})
             c == Min(S)
  <2>1. c \in S
    <3>1. S \subseteq Nat /\ S # {} BY <1>4, <1>5, <1>7
    <3> HIDE DEF S
    <3> QED BY <3>1, LeastElement
  <2>2. c \in 0..MaxCreds /\ c \in Rows BY <1>4, <1>5, <2>1
  <2>3. run' = [[run EXCEPT !.pc = "credential.revoke"] EXCEPT !.old = c] BY <1>1, <1>2, <1>7 DEF RunRow
  <2> HIDE DEF c
  <2>4. Moved("credential.revoke", c, run.secret, run.answer) BY <1>2, <2>2, <2>3 DEF RunRow, Moved, Pcs, Calls
  <2> QED BY <1>1, <1>2, <2>1, <2>2, <2>4
<1> QED BY <1>6, <1>7

(* A credential that every endpoint refuses is shown as revoked (verifySavedManagedCredential). *)
LEMMA RevokedDoes ==
  ASSUME LimitsAreNat, LocalTypes, OpTypes, RemoteTypes, Control, References, Revoked
  PROVE  /\ run.op # None /\ run.op \in Ops /\ run.pc = "refused" /\ Moved("revoke", 0, run.secret, run.answer) /\ SameRows /\ Refuses(run.old)
         /\ run.old \in OfState({"revocation_pending"})
         /\ \A d \in Rows : IF d = run.old THEN cred'[d].state = "revoked" /\ ~cred'[d].secret ELSE cred'[d] = cred[d]
         /\ UNCHANGED <<conn, mailbox, endpoint, op, step, remoteVars, bounds, history>>
<1> USE LimitsAreNat DEF vars, localVars, opVars, bounds, history, remoteVars
<1>1. /\ run.op # None /\ run.pc = "refused" /\ UNCHANGED <<conn, mailbox, endpoint, op, step, remoteVars, bounds, history>>
      /\ run' = [run EXCEPT !.pc = "revoke", !.old = 0]
  BY DEF Revoked, IsRefused, At
<1>2. run.op \in Ops /\ run \in RunRow /\ 0 \in 0..MaxCreds
  BY <1>1, Running DEF OpTypes
<1>3. Moved("revoke", 0, run.secret, run.answer)
  <2>1. run' = [[run EXCEPT !.pc = "revoke"] EXCEPT !.old = 0] BY <1>1, <1>2 DEF RunRow
  <2> QED BY <1>2, <2>1 DEF RunRow, Moved, Pcs
<1>4. run.old \in OfState({"revocation_pending"})
  BY <1>1 DEF References, OldRow
<1> QED BY <1>1, <1>2, <1>3, <1>4, RowsRevoked

(* The entered credential of a mailbox that was created is saved (enteredCreationCredential). *)
LEMMA SaveEnteredDoes ==
  ASSUME LimitsAreNat, LocalTypes, OpTypes, RemoteTypes, Control, References, SaveEntered
  PROVE  /\ run.op # None /\ run.op \in Ops /\ run.pc = "apply" /\ Kind(run.op) = "mailbox.create" /\ Room(op[run.op].request)
         /\ mailbox'.status = mailbox.status /\ mailbox'.remote = mailbox.remote
         /\ endpoint' = EndpointsOf(op[run.op].request)
         /\ Marked(run.op, <<"credential.entered", 0>>, "succeeded") /\ Moved("commit", run.old, run.secret, "none")
         /\ UNCHANGED <<conn, op, remoteVars, bounds, history>>
<1> USE LimitsAreNat DEF vars, localVars, opVars, bounds, history, remoteVars
<1>1. /\ run.op # None /\ run.pc = "apply" /\ Kind(run.op) = "mailbox.create" /\ Room(op[run.op].request) /\ Goto("commit")
      /\ endpoint' = EndpointsOf(op[run.op].request) /\ mailbox' = [mailbox EXCEPT !.revision = mailbox.revision + 1]
      /\ step' = SetStep(run.op, <<"credential.entered", 0>>, "succeeded") /\ UNCHANGED <<conn, op, remoteVars, bounds, history>>
  BY DEF SaveEntered, Applies, At, kind, Kind, MarkDone, SetStep
<1>2. run.op \in Ops /\ op[run.op].request \in Request
  BY <1>1, Running
<1>3. mailbox'.status = mailbox.status /\ mailbox'.remote = mailbox.remote
  BY <1>1 DEF LocalTypes, MailboxRow
<1>4. Marked(run.op, <<"credential.entered", 0>>, "succeeded")
  BY <1>1, <1>2, StepSet DEF StepStatus, Steps
<1>5. Moved("commit", run.old, run.secret, "none")
  BY <1>1, GotoSet DEF Pcs
<1> QED BY <1>1, <1>2, <1>3, <1>4, <1>5

(* A mailbox is added with what was entered (AttachMailbox). *)
LEMMA AttachDoes ==
  ASSUME LimitsAreNat, LocalTypes, OpTypes, RemoteTypes, Control, References, Attach
  PROVE  /\ run.op # None /\ run.op \in Ops /\ run.pc = "apply" /\ Kind(run.op) = "mailbox.attach" /\ Room(op[run.op].request)
         /\ mailbox'.status = "active" /\ mailbox'.remote = "external"
         /\ endpoint' = EndpointsOf(op[run.op].request) /\ Turned(run.op, op[run.op].status)
         /\ Marked(run.op, <<"local.commit", 0>>, "succeeded") /\ Moved("complete", run.old, run.secret, "none")
         /\ UNCHANGED <<conn, remoteVars, bounds, history>>
<1> USE LimitsAreNat DEF vars, localVars, opVars, bounds, history, remoteVars
<1>1. /\ run.op # None /\ run.pc = "apply" /\ Kind(run.op) = "mailbox.attach" /\ Room(op[run.op].request) /\ Goto("complete")
      /\ endpoint' = EndpointsOf(op[run.op].request)
      /\ mailbox' = [status |-> "active", mode |-> "external", remote |-> "external", revision |-> 1]
      /\ op' = [op EXCEPT ![run.op].expected = 1]
      /\ step' = SetStep(run.op, <<"local.commit", 0>>, "succeeded") /\ UNCHANGED <<conn, remoteVars, bounds, history>>
  BY DEF Attach, Applies, At, kind, Kind, MarkDone, SetStep
<1>2. run.op \in Ops /\ op[run.op].request \in Request
  BY <1>1, Running
<1>3. mailbox'.status = "active" /\ mailbox'.remote = "external"
  BY <1>1
<1>4. Marked(run.op, <<"local.commit", 0>>, "succeeded")
  BY <1>1, <1>2, StepSet DEF StepStatus, Steps
<1>5. Moved("complete", run.old, run.secret, "none")
  BY <1>1, GotoSet DEF Pcs
<1>6. Turned(run.op, op[run.op].status)
  <2> DEFINE v == 1
             x == [op[run.op] EXCEPT !.expected = v]
  <2>1. op \in [Ops -> OpRow] /\ op[run.op] \in OpRow /\ v \in Nat
    BY <1>2 DEF OpTypes
  <2>2. op' = [op EXCEPT ![run.op] = x]
    BY <1>1
  <2> HIDE DEF v
  <2>3. /\ x \in OpRow /\ x.request = op[run.op].request /\ x.status = op[run.op].status /\ x.cand = op[run.op].cand
        /\ x.private = op[run.op].private /\ x.claim = op[run.op].claim /\ x.claimed = op[run.op].claimed /\ x.expired = op[run.op].expired
    BY <2>1 DEF OpRow
  <2> HIDE DEF x
  <2>4. op' \in [Ops -> OpRow] /\ op'[run.op] = x /\ \A p \in Ops \ {run.op} : op'[p] = op[p]
    BY <1>2, <2>1, <2>2, <2>3
  <2> QED BY <2>3, <2>4 DEF Turned, Became
<1> QED BY <1>1, <1>2, <1>3, <1>4, <1>5, <1>6

(* The endpoints are changed in one transaction (UpdateEndpoints). *)
LEMMA UpdateEndpointsDoes ==
  ASSUME LimitsAreNat, LocalTypes, OpTypes, RemoteTypes, Control, References, UpdateEndpoints
  PROVE  /\ run.op # None /\ run.op \in Ops /\ run.pc = "apply" /\ Kind(run.op) = "mailbox.endpoints" /\ Room(op[run.op].request) /\ Choosable(op[run.op].request)
         /\ mailbox'.status = mailbox.status /\ mailbox'.remote = mailbox.remote
         /\ endpoint' = EndpointsOf(op[run.op].request) /\ Ended(run.op) /\ Stops
         /\ UNCHANGED <<conn, step, remoteVars, bounds, history>>
<1> USE LimitsAreNat DEF vars, localVars, opVars, bounds, history, remoteVars
<1>1. /\ run.op # None /\ run.pc = "apply" /\ Kind(run.op) = "mailbox.endpoints" /\ Room(op[run.op].request) /\ Choosable(op[run.op].request)
      /\ endpoint' = EndpointsOf(op[run.op].request) /\ mailbox' = [mailbox EXCEPT !.revision = mailbox.revision + 1]
      /\ op' = Succeeded(run.op) /\ run' = Idle /\ UNCHANGED <<conn, step, remoteVars, bounds, history>>
  BY DEF UpdateEndpoints, Applies, At, kind, Kind
<1>2. run.op \in Ops /\ op[run.op].request \in Request
  BY <1>1, Running
<1>3. mailbox'.status = mailbox.status /\ mailbox'.remote = mailbox.remote
  BY <1>1 DEF LocalTypes, MailboxRow
<1>4. Ended(run.op) /\ Stops
  BY <1>1, <1>2, SucceededSet, IdleIsRun DEF Stops
<1> QED BY <1>1, <1>2, <1>3, <1>4

(* A mailbox is put into use again (reactivateMailboxProtocols). *)
LEMMA ReactivateDoes ==
  ASSUME LimitsAreNat, LocalTypes, OpTypes, RemoteTypes, Control, References, Reactivate
  PROVE  /\ run.op # None /\ run.op \in Ops /\ run.pc = "apply" /\ Kind(run.op) = "mailbox.reactivate" /\ Turned(run.op, op[run.op].status)
         /\ mailbox'.status = "active" /\ mailbox'.remote = mailbox.remote
         /\ \A p \in Protocols : endpoint'[p].mode = endpoint[p].mode /\ endpoint'[p].cred = endpoint[p].cred
         /\ Marked(run.op, <<"local.commit", 0>>, "succeeded") /\ Moved("complete", run.old, run.secret, "none")
         /\ UNCHANGED <<conn, cred, remoteVars, bounds, history>>
<1> USE LimitsAreNat DEF vars, localVars, opVars, bounds, history, remoteVars
<1>1. /\ run.op # None /\ run.pc = "apply" /\ Kind(run.op) = "mailbox.reactivate" /\ Goto("complete")
      /\ endpoint' = [p \in Protocols |-> IF p \in Enabled THEN [endpoint[p] EXCEPT !.checked = conn.revision] ELSE endpoint[p]]
      /\ mailbox' = [mailbox EXCEPT !.status = "active", !.revision = mailbox.revision + 1]
      /\ op' = [op EXCEPT ![run.op].expected = mailbox.revision + 1]
      /\ step' = SetStep(run.op, <<"local.commit", 0>>, "succeeded") /\ UNCHANGED <<conn, cred, remoteVars, bounds, history>>
  BY DEF Reactivate, Applies, At, kind, Kind, MarkDone, SetStep
<1>2. run.op \in Ops /\ mailbox \in MailboxRow /\ mailbox.revision + 1 \in Nat /\ endpoint \in [Protocols -> EndpointRow]
  BY <1>1, Running DEF LocalTypes, MailboxRow
<1>3. mailbox'.status = "active" /\ mailbox'.remote = mailbox.remote
  BY <1>1, <1>2 DEF MailboxRow
<1>4. Marked(run.op, <<"local.commit", 0>>, "succeeded")
  BY <1>1, <1>2, StepSet DEF StepStatus, Steps
<1>5. Moved("complete", run.old, run.secret, "none")
  BY <1>1, GotoSet DEF Pcs
<1>6. ASSUME NEW p \in Protocols PROVE endpoint'[p].mode = endpoint[p].mode /\ endpoint'[p].cred = endpoint[p].cred
  <2>1. endpoint[p] \in EndpointRow BY <1>2
  <2>2. endpoint'[p] = endpoint[p] \/ endpoint'[p] = [endpoint[p] EXCEPT !.checked = conn.revision] BY <1>1
  <2> QED BY <2>1, <2>2 DEF EndpointRow
<1>7. Turned(run.op, op[run.op].status)
  <2> DEFINE v == mailbox.revision + 1
             x == [op[run.op] EXCEPT !.expected = v]
  <2>1. op \in [Ops -> OpRow] /\ op[run.op] \in OpRow /\ v \in Nat
    BY <1>2 DEF OpTypes
  <2>2. op' = [op EXCEPT ![run.op] = x]
    BY <1>1
  <2> HIDE DEF v
  <2>3. /\ x \in OpRow /\ x.request = op[run.op].request /\ x.status = op[run.op].status /\ x.cand = op[run.op].cand
        /\ x.private = op[run.op].private /\ x.claim = op[run.op].claim /\ x.claimed = op[run.op].claimed /\ x.expired = op[run.op].expired
    BY <2>1 DEF OpRow
  <2> HIDE DEF x
  <2>4. op' \in [Ops -> OpRow] /\ op'[run.op] = x /\ \A p \in Ops \ {run.op} : op'[p] = op[p]
    BY <1>2, <2>1, <2>2, <2>3
  <2> QED BY <2>3, <2>4 DEF Turned, Became
<1> QED BY <1>1, <1>2, <1>3, <1>4, <1>5, <1>6, <1>7

(* The templates of the connection are changed (ConfigureConnection). *)
LEMMA ConfigureConnectionDoes ==
  ASSUME LimitsAreNat, LocalTypes, OpTypes, RemoteTypes, Control, References, ConfigureConnection
  PROVE  /\ run.op # None /\ run.op \in Ops /\ run.pc = "apply" /\ Kind(run.op) = "connection.configure" /\ Ended(run.op) /\ Stops
         /\ conn'.templates = op[run.op].request.templates
         /\ \A p \in Protocols : endpoint'[p].mode = endpoint[p].mode /\ endpoint'[p].cred = endpoint[p].cred
         /\ UNCHANGED <<mailbox, cred, step, remoteVars, bounds, history>>
<1> USE LimitsAreNat DEF vars, localVars, opVars, bounds, history, remoteVars
<1>1. /\ run.op # None /\ run.pc = "apply" /\ Kind(run.op) = "connection.configure"
      /\ conn' = [conn EXCEPT !.templates = op[run.op].request.templates, !.revision = conn.revision + 1]
      /\ endpoint' = [p \in Protocols |-> [endpoint[p] EXCEPT !.checked = 0]]
      /\ op' = Succeeded(run.op) /\ run' = Idle /\ UNCHANGED <<mailbox, cred, step, remoteVars, bounds, history>>
  BY DEF ConfigureConnection, Applies, At, kind, Kind
<1>2. run.op \in Ops /\ conn \in ConnectionRow /\ endpoint \in [Protocols -> EndpointRow]
  BY <1>1, Running DEF LocalTypes
<1>3. Ended(run.op) /\ Stops
  BY <1>1, <1>2, SucceededSet, IdleIsRun DEF Stops
<1>4. conn'.templates = op[run.op].request.templates
  BY <1>1, <1>2 DEF ConnectionRow
<1>5. ASSUME NEW p \in Protocols PROVE endpoint'[p].mode = endpoint[p].mode /\ endpoint'[p].cred = endpoint[p].cred
  <2>1. endpoint[p] \in EndpointRow BY <1>2
  <2>2. endpoint'[p] = [endpoint[p] EXCEPT !.checked = 0] BY <1>1
  <2> QED BY <2>1, <2>2 DEF EndpointRow
<1> QED BY <1>1, <1>2, <1>3, <1>4, <1>5

(* The last transaction of executeMailboxManagement. *)
LEMMA CommitDoes ==
  ASSUME LimitsAreNat, LocalTypes, OpTypes, RemoteTypes, Control, References, Commit
  PROVE  /\ run.op # None /\ run.op \in Ops /\ run.pc = "commit"
         /\ \/ /\ Kind(run.op) = "mailbox.create" /\ mailbox'.status \in {"active", mailbox.status} /\ mailbox'.remote = mailbox.remote
               /\ Turned(run.op, op[run.op].status) /\ Marked(run.op, <<"local.commit", 0>>, "succeeded")
               /\ Moved("complete", run.old, run.secret, "none") /\ UNCHANGED cred
            \/ /\ Kind(run.op) = "mailbox.deleteRemote" /\ mailbox'.status = "archived" /\ mailbox'.remote = "missing"
               /\ Ended(run.op) /\ Stops /\ UNCHANGED step
            \/ /\ Kind(run.op) \notin {"mailbox.create", "mailbox.deleteRemote"} /\ UNCHANGED <<mailbox, cred, step>>
               /\ Ended(run.op) /\ Stops
         /\ UNCHANGED <<conn, endpoint, remoteVars, bounds, history>>
<1> USE LimitsAreNat DEF vars, localVars, opVars, bounds, history, remoteVars
<1>1. /\ run.op # None /\ run.pc = "commit" /\ UNCHANGED <<conn, endpoint, remoteVars, bounds, history>>
  BY DEF Commit, At
<1>2. run.op \in Ops /\ mailbox \in MailboxRow /\ mailbox.revision + 1 \in Nat /\ mailbox.revision \in Nat
  BY <1>1, Running DEF LocalTypes, MailboxRow
<1>3. CASE Kind(run.op) = "mailbox.create"
  <2>1. /\ mailbox' = mailbox \/ mailbox' = [mailbox EXCEPT !.status = "active", !.revision = mailbox.revision + 1]
        /\ op' = [op EXCEPT ![run.op].expected = mailbox'.revision]
        /\ step' = SetStep(run.op, <<"local.commit", 0>>, "succeeded") /\ Goto("complete") /\ UNCHANGED cred
    BY <1>3 DEF Commit, kind, Kind, MarkDone, SetStep
  <2>2. mailbox'.status \in {"active", mailbox.status} /\ mailbox'.remote = mailbox.remote /\ mailbox'.revision \in Nat
    <3>1. CASE mailbox' = mailbox BY <1>2, <3>1
    <3>2. CASE mailbox' = [mailbox EXCEPT !.status = "active", !.revision = mailbox.revision + 1]
      BY <1>2, <3>2 DEF MailboxRow
    <3> QED BY <2>1, <3>1, <3>2
  <2>3. Turned(run.op, op[run.op].status)
    <3> DEFINE v == mailbox'.revision
               x == [op[run.op] EXCEPT !.expected = v]
    <3>1. op \in [Ops -> OpRow] /\ op[run.op] \in OpRow /\ v \in Nat
      BY <1>2, <2>2 DEF OpTypes
    <3>2. op' = [op EXCEPT ![run.op] = x]
      BY <2>1
    <3> HIDE DEF v
    <3>3. /\ x \in OpRow /\ x.request = op[run.op].request /\ x.status = op[run.op].status /\ x.cand = op[run.op].cand
          /\ x.private = op[run.op].private /\ x.claim = op[run.op].claim /\ x.claimed = op[run.op].claimed /\ x.expired = op[run.op].expired
      BY <3>1 DEF OpRow
    <3> HIDE DEF x
    <3>4. op' \in [Ops -> OpRow] /\ op'[run.op] = x /\ \A p \in Ops \ {run.op} : op'[p] = op[p]
      BY <1>2, <2>2, <3>1, <3>2, <3>3
    <3> QED BY <3>3, <3>4 DEF Turned, Became
  <2>4. Marked(run.op, <<"local.commit", 0>>, "succeeded")
    BY <1>2, <2>1, StepSet DEF StepStatus, Steps
  <2>5. Moved("complete", run.old, run.secret, "none")
    BY <2>1, GotoSet DEF Pcs
  <2> QED BY <1>1, <1>2, <1>3, <2>1, <2>2, <2>3, <2>4, <2>5
<1>4. CASE Kind(run.op) = "mailbox.deleteRemote"
  <2>1. /\ mailbox' = [mailbox EXCEPT !.status = "archived", !.remote = "missing", !.revision = mailbox.revision + 1]
        /\ op' = Succeeded(run.op) /\ run' = Idle /\ UNCHANGED step
    BY <1>4 DEF Commit, kind, Kind
  <2>2. mailbox'.status = "archived" /\ mailbox'.remote = "missing"
    BY <1>2, <2>1 DEF MailboxRow
  <2>3. Ended(run.op) /\ Stops
    BY <1>2, <2>1, SucceededSet, IdleIsRun DEF Stops
  <2> QED BY <1>1, <1>2, <1>4, <2>1, <2>2, <2>3
<1>5. CASE Kind(run.op) \notin {"mailbox.create", "mailbox.deleteRemote"}
  <2>1. op' = Succeeded(run.op) /\ run' = Idle /\ UNCHANGED <<mailbox, cred, step>>
    BY <1>5 DEF Commit, kind, Kind
  <2>2. Ended(run.op) /\ Stops
    BY <1>2, <2>1, SucceededSet, IdleIsRun DEF Stops
  <2> QED BY <1>1, <1>2, <1>5, <2>1, <2>2
<1> QED BY <1>3, <1>4, <1>5

(* The connection is switched on or off (UpdateConnection). *)
LEMMA SwitchDoes ==
  ASSUME LimitsAreNat, LocalTypes, OpTypes, RemoteTypes, Control, References, Switch
  PROVE  /\ (\A o \in Ops : op[o].status \notin Live) /\ changes' = changes + 1
         /\ conn'.templates = conn.templates
         /\ UNCHANGED <<mailbox, endpoint, cred, opVars, remoteVars, trouble, foreign, history>>
<1> USE LimitsAreNat DEF vars, localVars, opVars, bounds, history, remoteVars
<1>1. /\ (\A o \in Ops : op[o].status \notin Live) /\ changes' = changes + 1
      /\ conn' = [conn EXCEPT !.enabled = ~conn.enabled, !.revision = conn.revision + 1]
      /\ UNCHANGED <<mailbox, endpoint, cred, opVars, remoteVars, trouble, foreign, history>>
  BY DEF Switch, Change, Busy
<1>2. conn'.templates = conn.templates
  BY <1>1 DEF LocalTypes, ConnectionRow
<1> QED BY <1>1, <1>2

(* The mailbox is suspended, or changed otherwise. *)
LEMMA SuspendDoes ==
  ASSUME LimitsAreNat, LocalTypes, OpTypes, RemoteTypes, Control, References, Suspend
  PROVE  /\ (\A o \in Ops : op[o].status \notin Live) /\ changes' = changes + 1
         /\ mailbox'.remote = mailbox.remote
         /\ mailbox'.status \in {mailbox.status, "suspended"} /\ (mailbox'.status # mailbox.status => mailbox.status = "active")
         /\ UNCHANGED <<conn, endpoint, cred, opVars, remoteVars, trouble, foreign, history>>
<1> USE LimitsAreNat DEF vars, localVars, opVars, bounds, history, remoteVars
<1>1. /\ (\A o \in Ops : op[o].status \notin Live) /\ changes' = changes + 1
      /\ UNCHANGED <<conn, endpoint, cred, opVars, remoteVars, trouble, foreign, history>>
  BY DEF Suspend, Change, Busy
<1>2. PICK s \in {"suspended", mailbox.status} :
         /\ s = "suspended" => mailbox.status \in {"active", "suspended"}
         /\ mailbox' = [mailbox EXCEPT !.status = s, !.revision = mailbox.revision + 1]
  BY DEF Suspend
<1>3. mailbox'.status = s /\ mailbox'.remote = mailbox.remote
  BY <1>2 DEF LocalTypes, MailboxRow
<1> QED BY <1>1, <1>2, <1>3

(* The mailbox is removed here (DeleteMailbox). *)
LEMMA UnregisterDoes ==
  ASSUME LimitsAreNat, LocalTypes, OpTypes, RemoteTypes, Control, References, Unregister
  PROVE  /\ (\A o \in Ops : op[o].status \notin Live) /\ changes' = changes + 1 /\ mailbox' = Unregistered /\ cred' = <<>>
         /\ mailbox.status # "none" /\ \A o \in Ops : op[o].status = "failed" => Kind(o) \in Additions \cup {"connection.configure"}
         /\ \A p \in Protocols : endpoint'[p].mode = "disabled" /\ endpoint'[p].cred = 0
         /\ named \subseteq named' /\ \A c \in Rows : cred[c].state # "revoked" => cred[c].key \in named'
         /\ UNCHANGED <<conn, opVars, remoteVars, trouble, foreign, maker, lost, setter>>
<1> USE LimitsAreNat DEF vars, localVars, opVars, bounds, history, remoteVars
<1>1. /\ (\A o \in Ops : op[o].status \notin Live) /\ changes' = changes + 1 /\ mailbox' = Unregistered /\ cred' = <<>>
      /\ mailbox.status # "none" /\ endpoint' = [p \in Protocols |-> Off]
      /\ \A o \in Ops : op[o].status = "failed" => Kind(o) \in Additions \cup {"connection.configure"}
      /\ named' = named \cup {cred[c].key : c \in {c \in DOMAIN cred : cred[c].state # "revoked"}}
      /\ UNCHANGED <<conn, opVars, remoteVars, trouble, foreign, maker, lost, setter>>
  BY DEF Unregister, Change, Busy, RowsDeleted, Kind
<1>2. \A p \in Protocols : endpoint'[p].mode = "disabled" /\ endpoint'[p].cred = 0
  BY <1>1 DEF Off
<1>3. named \subseteq named' /\ \A c \in Rows : cred[c].state # "revoked" => cred[c].key \in named'
  BY <1>1 DEF Rows
<1> QED BY <1>1, <1>2, <1>3

(* Somebody revokes an app password or changes the password at the provider. *)
LEMMA ForeignDoes ==
  ASSUME LimitsAreNat, LocalTypes, OpTypes, RemoteTypes, Control, References, Foreign
  PROVE  /\ account' \in Account /\ account'.exists = account.exists
         /\ \E k \in account.accepted :
               /\ \A j : j \in account'.accepted <=> j \in account.accepted /\ j # k
               /\ account'.primary = (IF account.primary = k THEN 0 ELSE account.primary) /\ lost' = lost \cup {k}
               /\ setter' = IF k = account.primary THEN None ELSE setter
         /\ UNCHANGED <<localVars, opVars, late, fresh, trouble, changes, maker, named>>
<1> USE LimitsAreNat DEF vars, localVars, opVars, bounds, history, remoteVars
<1>1. /\ UNCHANGED <<localVars, opVars, late, fresh, trouble, changes, maker, named>> /\ account \in Account /\ 0 \in 0..MaxKeys
  BY DEF Foreign, RemoteTypes
<1>2. PICK k \in account.accepted :
         /\ account' = [account EXCEPT !.accepted = account.accepted \ {k}, !.primary = IF account.primary = k THEN 0 ELSE account.primary]
         /\ lost' = lost \cup {k}
         /\ setter' = IF k = account.primary THEN None ELSE setter
  <2>1. PICK k \in account.accepted :
         /\ account' = [account EXCEPT !.accepted = @ \ {k}, !.primary = IF @ = k THEN 0 ELSE @]
         /\ lost' = lost \cup {k}
         /\ setter' = IF k = account.primary THEN None ELSE setter
    BY DEF Foreign
  <2>2. [account EXCEPT !.accepted = @ \ {k}, !.primary = IF @ = k THEN 0 ELSE @]
        = [account EXCEPT !.accepted = account.accepted \ {k}, !.primary = IF account.primary = k THEN 0 ELSE account.primary]
    BY <1>1 DEF Account
  <2> QED BY <2>1, <2>2
<1>3. /\ account' \in Account /\ account'.exists = account.exists /\ account'.accepted = account.accepted \ {k}
      /\ account'.primary = IF account.primary = k THEN 0 ELSE account.primary
  <2> DEFINE a == account.accepted \ {k}
             q == IF account.primary = k THEN 0 ELSE account.primary
  <2>1. a \in SUBSET Keys /\ q \in 0..MaxKeys BY <1>1 DEF Account
  <2>2. account' = [[account EXCEPT !.accepted = a] EXCEPT !.primary = q] BY <1>1, <1>2 DEF Account
  <2> HIDE DEF a, q
  <2>3. account' \in Account /\ account'.exists = account.exists /\ account'.accepted = a /\ account'.primary = q
    BY <1>1, <2>1, <2>2 DEF Account
  <2> QED BY <2>3 DEF a, q
<1> QED BY <1>1, <1>2, <1>3

-----------------------------------------------------------------------------
(* Types, further. *)

(* Operations, their steps and the execution keep their types. *)
LEMMA OpTypesStep ==
  ASSUME NoneIsNoOp, IMAPIsProtocol, LimitsAreNat, LocalTypes, OpTypes, RemoteTypes, Control, References, Next
  PROVE  OpTypes'
<1> USE NoneIsNoOp, IMAPIsProtocol, LimitsAreNat DEF vars, localVars, opVars, bounds, history, remoteVars
<1>1. ASSUME NEW o \in Ops, NEW k \in Kinds, Queue(o, k) PROVE OpTypes'
  BY <1>1, QueueDoes DEF OpTypes, Became, Turned, Ended, Dropped, Marked, Moved, Stops, Concluded
<1>2. ASSUME NEW o \in Ops, Execute(o) PROVE OpTypes'
  BY <1>2, ExecuteDoes DEF OpTypes, Became, Turned, Ended, Dropped, Marked, Moved, Stops, Concluded
<1>3. ASSUME NEW o \in Ops, ConfirmExternal(o) PROVE OpTypes'
  BY <1>3, ConfirmExternalDoes DEF OpTypes, Became, Turned, Ended, Dropped, Marked, Moved, Stops, Concluded
<1>4. ASSUME NEW o \in Ops, ReconcileStep(o) PROVE OpTypes'
  BY <1>4, ReconcileStepDoes DEF OpTypes, Became, Turned, Ended, Dropped, Marked, Moved, Stops, Concluded
<1>5. ASSUME NEW o \in Ops, Reconcile(o) PROVE OpTypes'
  BY <1>5, ReconcileDoes DEF OpTypes, Became, Turned, Ended, Dropped, Marked, Moved, Stops, Concluded
<1>6. ASSUME NEW o \in Ops, Retry(o) PROVE OpTypes'
  BY <1>6, RetryDoes DEF OpTypes, Became, Turned, Ended, Dropped, Marked, Moved, Stops, Concluded
<1>7. ASSUME NEW o \in Ops, Cancel(o) PROVE OpTypes'
  BY <1>7, CancelDoes DEF OpTypes, Became, Turned, Ended, Dropped, Marked, Moved, Stops, Concluded
<1>8. ASSUME NEW o \in Ops, Report(o) PROVE OpTypes'
  BY <1>8, ReportDoes DEF OpTypes, Became, Turned, Ended, Dropped, Marked, Moved, Stops, Concluded
<1>9. ASSUME NEW o \in Ops, ClaimSecret(o) PROVE OpTypes'
  BY <1>9, ClaimSecretDoes DEF OpTypes, Became, Turned, Ended, Dropped, Marked, Moved, Stops, Concluded
<1>10. ASSUME NEW o \in Ops, Expire(o) PROVE OpTypes'
  BY <1>10, ExpireDoes DEF OpTypes, Became, Turned, Ended, Dropped, Marked, Moved, Stops, Concluded
<1>11. ASSUME Failure PROVE OpTypes'
  BY <1>11, FailureDoes DEF OpTypes, Became, Turned, Ended, Dropped, Marked, Moved, Stops, Concluded
<1>12. ASSUME Start PROVE OpTypes'
  BY <1>12, StartDoes DEF OpTypes, Became, Turned, Ended, Dropped, Marked, Moved, Stops, Concluded
<1>13. ASSUME Complete PROVE OpTypes'
  BY <1>13, CompleteDoes DEF OpTypes, Became, Turned, Ended, Dropped, Marked, Moved, Stops, Concluded
<1>14. ASSUME Begin PROVE OpTypes'
  BY <1>14, BeginDoes DEF OpTypes, Became, Turned, Ended, Dropped, Marked, Moved, Stops, Concluded
<1>15. ASSUME Provider PROVE OpTypes'
  BY <1>15, ProviderDoes DEF OpTypes, Became, Turned, Ended, Dropped, Marked, Moved, Stops, Concluded
<1>16. ASSUME Refused PROVE OpTypes'
  BY <1>16, RefusedDoes DEF OpTypes, Became, Turned, Ended, Dropped, Marked, Moved, Stops, Concluded
<1>17. ASSUME Keep PROVE OpTypes'
  BY <1>17, KeepDoes DEF OpTypes, Became, Turned, Ended, Dropped, Marked, Moved, Stops, Concluded
<1>18. ASSUME Record PROVE OpTypes'
  BY <1>18, RecordDoes DEF OpTypes, Became, Turned, Ended, Dropped, Marked, Moved, Stops, Concluded
<1>19. ASSUME GiveUp PROVE OpTypes'
  BY <1>19, GiveUpDoes DEF OpTypes, Became, Turned, Ended, Dropped, Marked, Moved, Stops, Concluded
<1>20. ASSUME Reserve PROVE OpTypes'
  BY <1>20, ReserveDoes DEF OpTypes, Became, Turned, Ended, Dropped, Marked, Moved, Stops, Concluded
<1>21. ASSUME Confirm PROVE OpTypes'
  BY <1>21, ConfirmDoes DEF OpTypes, Became, Turned, Ended, Dropped, Marked, Moved, Stops, Concluded
<1>22. ASSUME Candidate PROVE OpTypes'
  BY <1>22, CandidateDoes DEF OpTypes, Became, Turned, Ended, Dropped, Marked, Moved, Stops, Concluded
<1>23. ASSUME Verify PROVE OpTypes'
  BY <1>23, VerifyDoes DEF OpTypes, Became, Turned, Ended, Dropped, Marked, Moved, Stops, Concluded
<1>24. ASSUME Activate PROVE OpTypes'
  BY <1>24, ActivateDoes DEF OpTypes, Became, Turned, Ended, Dropped, Marked, Moved, Stops, Concluded
<1>25. ASSUME Revoke PROVE OpTypes'
  BY <1>25, RevokeDoes DEF OpTypes, Became, Turned, Ended, Dropped, Marked, Moved, Stops, Concluded
<1>26. ASSUME Revoked PROVE OpTypes'
  BY <1>26, RevokedDoes DEF OpTypes, Became, Turned, Ended, Dropped, Marked, Moved, Stops, Concluded
<1>27. ASSUME Password PROVE OpTypes'
  BY <1>27, PasswordDoes DEF OpTypes, Became, Turned, Ended, Dropped, Marked, Moved, Stops, Concluded
<1>28. ASSUME Claim PROVE OpTypes'
  BY <1>28, ClaimDoes DEF OpTypes, Became, Turned, Ended, Dropped, Marked, Moved, Stops, Concluded
<1>29. ASSUME Validate PROVE OpTypes'
  BY <1>29, ValidateDoes DEF OpTypes, Became, Turned, Ended, Dropped, Marked, Moved, Stops, Concluded
<1>30. ASSUME Gone PROVE OpTypes'
  BY <1>30, GoneDoes DEF OpTypes, Became, Turned, Ended, Dropped, Marked, Moved, Stops, Concluded
<1>31. ASSUME External PROVE OpTypes'
  BY <1>31, ExternalDoes DEF OpTypes, Became, Turned, Ended, Dropped, Marked, Moved, Stops, Concluded
<1>32. ASSUME Check PROVE OpTypes'
  BY <1>32, CheckDoes DEF OpTypes, Became, Turned, Ended, Dropped, Marked, Moved, Stops, Concluded
<1>33. ASSUME SaveEntered PROVE OpTypes'
  BY <1>33, SaveEnteredDoes DEF OpTypes, Became, Turned, Ended, Dropped, Marked, Moved, Stops, Concluded
<1>34. ASSUME Attach PROVE OpTypes'
  BY <1>34, AttachDoes DEF OpTypes, Became, Turned, Ended, Dropped, Marked, Moved, Stops, Concluded
<1>35. ASSUME UpdateEndpoints PROVE OpTypes'
  BY <1>35, UpdateEndpointsDoes DEF OpTypes, Became, Turned, Ended, Dropped, Marked, Moved, Stops, Concluded
<1>36. ASSUME Reactivate PROVE OpTypes'
  BY <1>36, ReactivateDoes DEF OpTypes, Became, Turned, Ended, Dropped, Marked, Moved, Stops, Concluded
<1>37. ASSUME ConfigureConnection PROVE OpTypes'
  BY <1>37, ConfigureConnectionDoes DEF OpTypes, Became, Turned, Ended, Dropped, Marked, Moved, Stops, Concluded
<1>38. ASSUME Commit PROVE OpTypes'
  BY <1>38, CommitDoes DEF OpTypes, Became, Turned, Ended, Dropped, Marked, Moved, Stops, Concluded
<1>39. ASSUME Interrupt PROVE OpTypes'
  BY <1>39, InterruptDoes DEF OpTypes, Became, Turned, Ended, Dropped, Marked, Moved, Stops, Concluded
<1>40. UNCHANGED <<op, step, run>> => OpTypes'
  BY DEF OpTypes, Became, Turned, Ended, Dropped, Marked, Moved, Stops, Concluded
<1>41. ASSUME Land PROVE UNCHANGED <<op, step, run>>
  BY <1>41, LandDoes
<1>42. ASSUME Switch PROVE UNCHANGED <<op, step, run>>
  BY <1>42, SwitchDoes
<1>43. ASSUME Suspend PROVE UNCHANGED <<op, step, run>>
  BY <1>43, SuspendDoes
<1>44. ASSUME Unregister PROVE UNCHANGED <<op, step, run>>
  BY <1>44, UnregisterDoes
<1>45. ASSUME Foreign PROVE UNCHANGED <<op, step, run>>
  BY <1>45, ForeignDoes
<1> QED
  BY Failures, <1>1, <1>2, <1>3, <1>4, <1>5, <1>6, <1>7, <1>8, <1>9, <1>10, <1>11, <1>12, <1>13, <1>14, <1>15, <1>16, <1>17,
     <1>18, <1>19, <1>20, <1>21, <1>22, <1>23, <1>24, <1>25, <1>26, <1>27, <1>28, <1>29, <1>30, <1>31, <1>32, <1>33, <1>34,
     <1>35, <1>36, <1>37, <1>38, <1>39, <1>40, <1>41, <1>42, <1>43, <1>44, <1>45 DEF Next, Execution

(* An app password is not the secret that was never valid. *)
LEMMA RowHasKey ==
  ASSUME LimitsAreNat, LocalTypes, OpTypes, RemoteTypes, Control, References, Secrets, run.op # None, run.pc \in Calls
  PROVE  Call.name # "mailbox.delete" => Call.key # 0
<1>1. run.pc = "credential.create" => fresh # 0
  BY LimitsAreNat DEF RemoteTypes, Keys
<1>2. run.pc = "credential.revoke" => cred[run.old].key # 0
  BY DEF References, OldRow, OfState, Secrets, Below, RowsBelow, LateBelow, Rows
<1> QED BY <1>1, <1>2, CallIs DEF Calls

(* The provider and the history of the calls keep their types. *)
LEMMA RemoteTypesStep ==
  ASSUME NoneIsNoOp, IMAPIsProtocol, LimitsAreNat, LocalTypes, OpTypes, RemoteTypes, Control, References, Secrets, Next
  PROVE  RemoteTypes'
<1> USE NoneIsNoOp, IMAPIsProtocol, LimitsAreNat DEF vars, localVars, opVars, bounds, history, remoteVars
<1>1. ASSUME NEW o \in Ops, NEW k \in Kinds, Queue(o, k) PROVE RemoteTypes'
  <2>1. fresh' \in {fresh, fresh + 1} /\ (fresh' = fresh + 1 => fresh < MaxKeys)
    <3>1. \E r \in Requests(k) : (r.secret = fresh => fresh < MaxKeys) /\ fresh' = IF r.secret = fresh THEN fresh + 1 ELSE fresh
      BY <1>1, QueueDoes
    <3> QED BY <3>1 DEF RemoteTypes, Keys
  <2>2. UNCHANGED <<account, late, maker, setter, trouble>>
    BY <1>1, QueueDoes
  <2> QED BY <2>1, <2>2 DEF RemoteTypes, Keys
<1>2. ASSUME Failure PROVE RemoteTypes'
  BY <1>2, FailureDoes DEF RemoteTypes, Keys
<1>3. ASSUME Provider PROVE RemoteTypes'
  <2>1. run.op # None /\ run.pc \in Calls /\ Call \in CallRow /\ (Call.name # "mailbox.delete" => Call.key # 0) /\ Call.op \in Ops
    BY <1>3, ProviderDoes, CallIs, RowHasKey
  <2>2. account \in Account /\ fresh \in Keys /\ late \subseteq CallRow /\ setter \in Ops \cup {None}
    BY DEF RemoteTypes
  <2>3. /\ trouble' \in Nat /\ fresh' \in Keys /\ maker' \in [Keys -> Ops \cup {None}]
        /\ \/ Perform(Call) /\ late' = late
           \/ late' = late \cup {Call} /\ UNCHANGED <<account, lost, setter>>
    BY <1>3, ProviderDoes DEF RemoteTypes
  <2>4. late' \subseteq CallRow
    BY <2>1, <2>2, <2>3
  <2>5. account' \in Account /\ setter' \in Ops \cup {None}
    <3>1. CASE Perform(Call) BY <2>1, <2>2, <3>1, PerformDoes
    <3>2. CASE ~Perform(Call) BY <2>2, <2>3, <3>2
    <3> QED BY <3>1, <3>2
  <2> QED BY <2>3, <2>4, <2>5 DEF RemoteTypes
<1>4. ASSUME Refused PROVE RemoteTypes'
  BY <1>4, RefusedDoes DEF RemoteTypes, Keys
<1>5. ASSUME Keep PROVE RemoteTypes'
  BY <1>5, KeepDoes DEF RemoteTypes, Keys
<1>6. ASSUME Reserve PROVE RemoteTypes'
  <2>1. fresh' \in Keys
    BY <1>6, ReserveDoes DEF RemoteTypes, Keys
  <2> QED BY <1>6, <2>1, ReserveDoes DEF RemoteTypes
<1>7. ASSUME Password PROVE RemoteTypes'
  BY <1>7, PasswordDoes DEF RemoteTypes, Keys
<1>8. ASSUME Interrupt PROVE RemoteTypes'
  BY <1>8, InterruptDoes DEF RemoteTypes, Keys
<1>9. ASSUME Land PROVE RemoteTypes'
  <2>1. PICK call \in late :
           /\ late' = late \ {call}
           /\ (Possible(call) /\ Perform(call)) \/ (~Possible(call) /\ UNCHANGED <<account, lost, setter>>)
           /\ UNCHANGED <<localVars, opVars, fresh, bounds, maker, named>>
    BY <1>9, LandDoes
  <2>2. call \in CallRow /\ (call.name # "mailbox.delete" => call.key # 0) /\ call.op \in Ops
    BY DEF RemoteTypes, Secrets, Below, RowsBelow, LateBelow, CallRow
  <2>3. account' \in Account /\ setter' \in Ops \cup {None}
    <3>1. CASE Perform(call) BY <2>2, <3>1, PerformDoes DEF RemoteTypes
    <3>2. CASE ~Perform(call) BY <2>1, <3>2 DEF RemoteTypes
    <3> QED BY <3>1, <3>2
  <2> QED BY <2>1, <2>3 DEF RemoteTypes
<1>10. ASSUME Foreign PROVE RemoteTypes'
  BY <1>10, ForeignDoes DEF RemoteTypes
<1>11. UNCHANGED <<account, late, fresh, maker, setter, trouble>> => RemoteTypes'
  BY DEF RemoteTypes, Keys
<1>12. ASSUME NEW o \in Ops, Execute(o) PROVE UNCHANGED <<account, late, fresh, maker, setter, trouble>>
  BY <1>12, ExecuteDoes
<1>13. ASSUME NEW o \in Ops, ConfirmExternal(o) PROVE UNCHANGED <<account, late, fresh, maker, setter, trouble>>
  BY <1>13, ConfirmExternalDoes
<1>14. ASSUME NEW o \in Ops, ReconcileStep(o) PROVE UNCHANGED <<account, late, fresh, maker, setter, trouble>>
  BY <1>14, ReconcileStepDoes
<1>15. ASSUME NEW o \in Ops, Reconcile(o) PROVE UNCHANGED <<account, late, fresh, maker, setter, trouble>>
  BY <1>15, ReconcileDoes
<1>16. ASSUME NEW o \in Ops, Retry(o) PROVE UNCHANGED <<account, late, fresh, maker, setter, trouble>>
  BY <1>16, RetryDoes
<1>17. ASSUME NEW o \in Ops, Cancel(o) PROVE UNCHANGED <<account, late, fresh, maker, setter, trouble>>
  BY <1>17, CancelDoes
<1>18. ASSUME NEW o \in Ops, Report(o) PROVE UNCHANGED <<account, late, fresh, maker, setter, trouble>>
  BY <1>18, ReportDoes
<1>19. ASSUME NEW o \in Ops, ClaimSecret(o) PROVE UNCHANGED <<account, late, fresh, maker, setter, trouble>>
  BY <1>19, ClaimSecretDoes
<1>20. ASSUME NEW o \in Ops, Expire(o) PROVE UNCHANGED <<account, late, fresh, maker, setter, trouble>>
  BY <1>20, ExpireDoes
<1>21. ASSUME Start PROVE UNCHANGED <<account, late, fresh, maker, setter, trouble>>
  BY <1>21, StartDoes
<1>22. ASSUME Complete PROVE UNCHANGED <<account, late, fresh, maker, setter, trouble>>
  BY <1>22, CompleteDoes
<1>23. ASSUME Begin PROVE UNCHANGED <<account, late, fresh, maker, setter, trouble>>
  BY <1>23, BeginDoes
<1>24. ASSUME Record PROVE UNCHANGED <<account, late, fresh, maker, setter, trouble>>
  BY <1>24, RecordDoes
<1>25. ASSUME GiveUp PROVE UNCHANGED <<account, late, fresh, maker, setter, trouble>>
  BY <1>25, GiveUpDoes
<1>26. ASSUME Confirm PROVE UNCHANGED <<account, late, fresh, maker, setter, trouble>>
  BY <1>26, ConfirmDoes
<1>27. ASSUME Candidate PROVE UNCHANGED <<account, late, fresh, maker, setter, trouble>>
  BY <1>27, CandidateDoes
<1>28. ASSUME Verify PROVE UNCHANGED <<account, late, fresh, maker, setter, trouble>>
  BY <1>28, VerifyDoes
<1>29. ASSUME Activate PROVE UNCHANGED <<account, late, fresh, maker, setter, trouble>>
  BY <1>29, ActivateDoes
<1>30. ASSUME Revoke PROVE UNCHANGED <<account, late, fresh, maker, setter, trouble>>
  BY <1>30, RevokeDoes
<1>31. ASSUME Revoked PROVE UNCHANGED <<account, late, fresh, maker, setter, trouble>>
  BY <1>31, RevokedDoes
<1>32. ASSUME Claim PROVE UNCHANGED <<account, late, fresh, maker, setter, trouble>>
  BY <1>32, ClaimDoes
<1>33. ASSUME Validate PROVE UNCHANGED <<account, late, fresh, maker, setter, trouble>>
  BY <1>33, ValidateDoes
<1>34. ASSUME Gone PROVE UNCHANGED <<account, late, fresh, maker, setter, trouble>>
  BY <1>34, GoneDoes
<1>35. ASSUME External PROVE UNCHANGED <<account, late, fresh, maker, setter, trouble>>
  BY <1>35, ExternalDoes
<1>36. ASSUME Check PROVE UNCHANGED <<account, late, fresh, maker, setter, trouble>>
  BY <1>36, CheckDoes
<1>37. ASSUME SaveEntered PROVE UNCHANGED <<account, late, fresh, maker, setter, trouble>>
  BY <1>37, SaveEnteredDoes
<1>38. ASSUME Attach PROVE UNCHANGED <<account, late, fresh, maker, setter, trouble>>
  BY <1>38, AttachDoes
<1>39. ASSUME UpdateEndpoints PROVE UNCHANGED <<account, late, fresh, maker, setter, trouble>>
  BY <1>39, UpdateEndpointsDoes
<1>40. ASSUME Reactivate PROVE UNCHANGED <<account, late, fresh, maker, setter, trouble>>
  BY <1>40, ReactivateDoes
<1>41. ASSUME ConfigureConnection PROVE UNCHANGED <<account, late, fresh, maker, setter, trouble>>
  BY <1>41, ConfigureConnectionDoes
<1>42. ASSUME Commit PROVE UNCHANGED <<account, late, fresh, maker, setter, trouble>>
  BY <1>42, CommitDoes
<1>43. ASSUME Switch PROVE UNCHANGED <<account, late, fresh, maker, setter, trouble>>
  BY <1>43, SwitchDoes
<1>44. ASSUME Suspend PROVE UNCHANGED <<account, late, fresh, maker, setter, trouble>>
  BY <1>44, SuspendDoes
<1>45. ASSUME Unregister PROVE UNCHANGED <<account, late, fresh, maker, setter, trouble>>
  BY <1>45, UnregisterDoes
<1> QED
  BY Failures, <1>1, <1>2, <1>3, <1>4, <1>5, <1>6, <1>7, <1>8, <1>9, <1>10, <1>11, <1>12, <1>13, <1>14, <1>15, <1>16, <1>17,
     <1>18, <1>19, <1>20, <1>21, <1>22, <1>23, <1>24, <1>25, <1>26, <1>27, <1>28, <1>29, <1>30, <1>31, <1>32, <1>33, <1>34,
     <1>35, <1>36, <1>37, <1>38, <1>39, <1>40, <1>41, <1>42, <1>43, <1>44, <1>45 DEF Next, Execution

-----------------------------------------------------------------------------
(* Control. *)

(* One operation is live at a time. *)
LEMMA OneLiveStep ==
  ASSUME NoneIsNoOp, IMAPIsProtocol, LimitsAreNat, LocalTypes, OpTypes, RemoteTypes, Control, References, Next
  PROVE  OneLive'
<1> USE NoneIsNoOp, IMAPIsProtocol, LimitsAreNat DEF vars, localVars, opVars, bounds, history, remoteVars
<1>1. ASSUME NEW o \in Ops, NEW k \in Kinds, Queue(o, k) PROVE OneLive'
  <2>1. PICK r \in Requests(k) : r \in Request /\ Became(o, r, "queued", 0, 0, 0, 0, FALSE)
    BY <1>1, QueueDoes
  <2>2. /\ op[o].status = "none" /\ (\A p \in Ops : op[p].status \notin Live) /\ UNCHANGED <<run, step>>
    BY <1>1, QueueDoes
  <2>3. \A p \in Ops : IsLive(p)' => p = o
    BY <2>1, <2>2 DEF IsLive, Became
  <2> QED BY <2>3 DEF OneLive
<1>2. ASSUME NEW o \in Ops, Execute(o) PROVE OneLive'
  BY <1>2, ExecuteDoes DEF Control, OpTypes, Live, IsLive, Open, Kind, Became, Turned, Ended, Dropped, Marked, Moved, Stops,
     Concluded, OneLive, Executing
<1>3. ASSUME NEW o \in Ops, ConfirmExternal(o) PROVE OneLive'
  <2>1. \A p \in Ops : IsLive(p)' => IsLive(p)
    BY <1>3, ConfirmExternalDoes DEF OpTypes, Live, IsLive, Became, Turned, Ended, Dropped, Marked, Moved, Stops, Concluded
  <2> QED BY <2>1 DEF Control, OneLive
<1>4. ASSUME NEW o \in Ops, ReconcileStep(o) PROVE OneLive'
  <2>1. \A p \in Ops : IsLive(p)' => IsLive(p)
    BY <1>4, ReconcileStepDoes DEF OpTypes, Live, IsLive, Became, Turned, Ended, Dropped, Marked, Moved, Stops, Concluded
  <2> QED BY <2>1 DEF Control, OneLive
<1>5. ASSUME NEW o \in Ops, Reconcile(o) PROVE OneLive'
  <2>1. \A p \in Ops : IsLive(p)' => IsLive(p)
    BY <1>5, ReconcileDoes DEF OpTypes, Live, IsLive, Became, Turned, Ended, Dropped, Marked, Moved, Stops, Concluded
  <2> QED BY <2>1 DEF Control, OneLive
<1>6. ASSUME NEW o \in Ops, Retry(o) PROVE OneLive'
  <2>3. \A p \in Ops : IsLive(p)' => p = o
    BY <1>6, RetryDoes DEF IsLive, Became, Turned
  <2> QED BY <2>3 DEF OneLive
<1>7. ASSUME NEW o \in Ops, Cancel(o) PROVE OneLive'
  <2>1. \A p \in Ops : IsLive(p)' => IsLive(p)
    BY <1>7, CancelDoes DEF OpTypes, Live, IsLive, Became, Turned, Ended, Dropped, Marked, Moved, Stops, Concluded
  <2> QED BY <2>1 DEF Control, OneLive
<1>8. ASSUME NEW o \in Ops, Report(o) PROVE OneLive'
  <2>1. \A p \in Ops : IsLive(p)' => IsLive(p)
    BY <1>8, ReportDoes DEF OpTypes, Live, IsLive, Became, Turned, Ended, Dropped, Marked, Moved, Stops, Concluded
  <2> QED BY <2>1 DEF Control, OneLive
<1>9. ASSUME NEW o \in Ops, ClaimSecret(o) PROVE OneLive'
  <2>1. \A p \in Ops : IsLive(p)' => IsLive(p)
    BY <1>9, ClaimSecretDoes DEF OpTypes, Live, IsLive, Became, Turned, Ended, Dropped, Marked, Moved, Stops, Concluded
  <2> QED BY <2>1 DEF Control, OneLive
<1>10. ASSUME NEW o \in Ops, Expire(o) PROVE OneLive'
  <2>1. \A p \in Ops : IsLive(p)' => IsLive(p)
    BY <1>10, ExpireDoes DEF OpTypes, Live, IsLive, Became, Turned, Ended, Dropped, Marked, Moved, Stops, Concluded
  <2> QED BY <2>1 DEF Control, OneLive
<1>11. ASSUME Failure PROVE OneLive'
  BY <1>11, FailureDoes DEF Control, OpTypes, Live, IsLive, Open, Kind, Became, Turned, Ended, Dropped, Marked, Moved,
     Stops, Concluded, OneLive, Executing
<1>12. ASSUME Start PROVE OneLive'
  BY <1>12, StartDoes DEF Control, OpTypes, Live, IsLive, Open, Kind, Became, Turned, Ended, Dropped, Marked, Moved, Stops,
     Concluded, OneLive, Executing
<1>13. ASSUME Complete PROVE OneLive'
  BY <1>13, CompleteDoes DEF Control, OpTypes, Live, IsLive, Open, Kind, Became, Turned, Ended, Dropped, Marked, Moved,
     Stops, Concluded, OneLive, Executing
<1>14. ASSUME Begin PROVE OneLive'
  BY <1>14, BeginDoes DEF Control, OpTypes, Live, IsLive, Open, Kind, Became, Turned, Ended, Dropped, Marked, Moved, Stops,
     Concluded, OneLive, Executing
<1>15. ASSUME Provider PROVE OneLive'
  BY <1>15, ProviderDoes DEF Control, OpTypes, Live, IsLive, Open, Kind, Became, Turned, Ended, Dropped, Marked, Moved,
     Stops, Concluded, OneLive, Executing
<1>16. ASSUME Refused PROVE OneLive'
  BY <1>16, RefusedDoes DEF Control, OpTypes, Live, IsLive, Open, Kind, Became, Turned, Ended, Dropped, Marked, Moved,
     Stops, Concluded, OneLive, Executing
<1>17. ASSUME Keep PROVE OneLive'
  BY <1>17, KeepDoes DEF Control, OpTypes, Live, IsLive, Open, Kind, Became, Turned, Ended, Dropped, Marked, Moved, Stops,
     Concluded, OneLive, Executing
<1>18. ASSUME Record PROVE OneLive'
  BY <1>18, RecordDoes DEF Control, OpTypes, Live, IsLive, Open, Kind, Became, Turned, Ended, Dropped, Marked, Moved, Stops,
     Concluded, OneLive, Executing
<1>19. ASSUME GiveUp PROVE OneLive'
  BY <1>19, GiveUpDoes DEF Control, OpTypes, Live, IsLive, Open, Kind, Became, Turned, Ended, Dropped, Marked, Moved, Stops,
     Concluded, OneLive, Executing
<1>20. ASSUME Reserve PROVE OneLive'
  BY <1>20, ReserveDoes DEF Control, OpTypes, Live, IsLive, Open, Kind, Became, Turned, Ended, Dropped, Marked, Moved,
     Stops, Concluded, OneLive, Executing
<1>21. ASSUME Confirm PROVE OneLive'
  BY <1>21, ConfirmDoes DEF Control, OpTypes, Live, IsLive, Open, Kind, Became, Turned, Ended, Dropped, Marked, Moved,
     Stops, Concluded, OneLive, Executing
<1>22. ASSUME Candidate PROVE OneLive'
  BY <1>22, CandidateDoes DEF Control, OpTypes, Live, IsLive, Open, Kind, Became, Turned, Ended, Dropped, Marked, Moved,
     Stops, Concluded, OneLive, Executing
<1>23. ASSUME Verify PROVE OneLive'
  BY <1>23, VerifyDoes DEF Control, OpTypes, Live, IsLive, Open, Kind, Became, Turned, Ended, Dropped, Marked, Moved, Stops,
     Concluded, OneLive, Executing
<1>24. ASSUME Activate PROVE OneLive'
  BY <1>24, ActivateDoes DEF Control, OpTypes, Live, IsLive, Open, Kind, Became, Turned, Ended, Dropped, Marked, Moved,
     Stops, Concluded, OneLive, Executing
<1>25. ASSUME Revoke PROVE OneLive'
  BY <1>25, RevokeDoes DEF Control, OpTypes, Live, IsLive, Open, Kind, Became, Turned, Ended, Dropped, Marked, Moved, Stops,
     Concluded, OneLive, Executing
<1>26. ASSUME Revoked PROVE OneLive'
  BY <1>26, RevokedDoes DEF Control, OpTypes, Live, IsLive, Open, Kind, Became, Turned, Ended, Dropped, Marked, Moved,
     Stops, Concluded, OneLive, Executing
<1>27. ASSUME Password PROVE OneLive'
  BY <1>27, PasswordDoes DEF Control, OpTypes, Live, IsLive, Open, Kind, Became, Turned, Ended, Dropped, Marked, Moved,
     Stops, Concluded, OneLive, Executing
<1>28. ASSUME Claim PROVE OneLive'
  BY <1>28, ClaimDoes DEF Control, OpTypes, Live, IsLive, Open, Kind, Became, Turned, Ended, Dropped, Marked, Moved, Stops,
     Concluded, OneLive, Executing
<1>29. ASSUME Validate PROVE OneLive'
  BY <1>29, ValidateDoes DEF Control, OpTypes, Live, IsLive, Open, Kind, Became, Turned, Ended, Dropped, Marked, Moved,
     Stops, Concluded, OneLive, Executing
<1>30. ASSUME Gone PROVE OneLive'
  BY <1>30, GoneDoes DEF Control, OpTypes, Live, IsLive, Open, Kind, Became, Turned, Ended, Dropped, Marked, Moved, Stops,
     Concluded, OneLive, Executing
<1>31. ASSUME External PROVE OneLive'
  BY <1>31, ExternalDoes DEF Control, OpTypes, Live, IsLive, Open, Kind, Became, Turned, Ended, Dropped, Marked, Moved,
     Stops, Concluded, OneLive, Executing
<1>32. ASSUME Check PROVE OneLive'
  BY <1>32, CheckDoes DEF Control, OpTypes, Live, IsLive, Open, Kind, Became, Turned, Ended, Dropped, Marked, Moved, Stops,
     Concluded, OneLive, Executing
<1>33. ASSUME SaveEntered PROVE OneLive'
  BY <1>33, SaveEnteredDoes DEF Control, OpTypes, Live, IsLive, Open, Kind, Became, Turned, Ended, Dropped, Marked, Moved,
     Stops, Concluded, OneLive, Executing
<1>34. ASSUME Attach PROVE OneLive'
  BY <1>34, AttachDoes DEF Control, OpTypes, Live, IsLive, Open, Kind, Became, Turned, Ended, Dropped, Marked, Moved, Stops,
     Concluded, OneLive, Executing
<1>35. ASSUME UpdateEndpoints PROVE OneLive'
  BY <1>35, UpdateEndpointsDoes DEF Control, OpTypes, Live, IsLive, Open, Kind, Became, Turned, Ended, Dropped, Marked,
     Moved, Stops, Concluded, OneLive, Executing
<1>36. ASSUME Reactivate PROVE OneLive'
  BY <1>36, ReactivateDoes DEF Control, OpTypes, Live, IsLive, Open, Kind, Became, Turned, Ended, Dropped, Marked, Moved,
     Stops, Concluded, OneLive, Executing
<1>37. ASSUME ConfigureConnection PROVE OneLive'
  BY <1>37, ConfigureConnectionDoes DEF Control, OpTypes, Live, IsLive, Open, Kind, Became, Turned, Ended, Dropped, Marked,
     Moved, Stops, Concluded, OneLive, Executing
<1>38. ASSUME Commit PROVE OneLive'
  BY <1>38, CommitDoes DEF Control, OpTypes, Live, IsLive, Open, Kind, Became, Turned, Ended, Dropped, Marked, Moved, Stops,
     Concluded, OneLive, Executing
<1>39. ASSUME Interrupt PROVE OneLive'
  BY <1>39, InterruptDoes DEF Control, OpTypes, Live, IsLive, Open, Kind, Became, Turned, Ended, Dropped, Marked, Moved,
     Stops, Concluded, OneLive, Executing
<1>40. UNCHANGED <<op, step, run>> => OneLive'
  BY DEF Control, OpTypes, IsLive, Open, Kind, OneLive, Executing
<1>41. ASSUME Land PROVE UNCHANGED <<op, step, run>>
  BY <1>41, LandDoes
<1>42. ASSUME Switch PROVE UNCHANGED <<op, step, run>>
  BY <1>42, SwitchDoes
<1>43. ASSUME Suspend PROVE UNCHANGED <<op, step, run>>
  BY <1>43, SuspendDoes
<1>44. ASSUME Unregister PROVE UNCHANGED <<op, step, run>>
  BY <1>44, UnregisterDoes
<1>45. ASSUME Foreign PROVE UNCHANGED <<op, step, run>>
  BY <1>45, ForeignDoes
<1> QED
  BY Failures, <1>1, <1>2, <1>3, <1>4, <1>5, <1>6, <1>7, <1>8, <1>9, <1>10, <1>11, <1>12, <1>13, <1>14, <1>15, <1>16, <1>17,
     <1>18, <1>19, <1>20, <1>21, <1>22, <1>23, <1>24, <1>25, <1>26, <1>27, <1>28, <1>29, <1>30, <1>31, <1>32, <1>33, <1>34,
     <1>35, <1>36, <1>37, <1>38, <1>39, <1>40, <1>41, <1>42, <1>43, <1>44, <1>45 DEF Next, Execution

(* What is executed is running. *)
LEMMA ExecutingStep ==
  ASSUME NoneIsNoOp, IMAPIsProtocol, LimitsAreNat, LocalTypes, OpTypes, RemoteTypes, Control, References, Next
  PROVE  Executing'
<1> USE NoneIsNoOp, IMAPIsProtocol, LimitsAreNat DEF vars, localVars, opVars, bounds, history, remoteVars
<1>1. ASSUME NEW o \in Ops, NEW k \in Kinds, Queue(o, k) PROVE Executing'
  <2>1. PICK r \in Requests(k) : r \in Request /\ Became(o, r, "queued", 0, 0, 0, 0, FALSE)
    BY <1>1, QueueDoes
  <2>2. /\ op[o].status = "none" /\ (\A p \in Ops : op[p].status \notin Live) /\ UNCHANGED <<run, step>>
    BY <1>1, QueueDoes
  <2>3. \A p \in Ops : (op'[p].status = "running") <=> (op[p].status = "running")
    BY <2>1, <2>2 DEF OpTypes, Live, Became, Turned, Ended, Dropped, Marked, Moved, Stops, Concluded
  <2>4. UNCHANGED run /\ run \in RunRow
    BY <2>2 DEF OpTypes
  <2> QED BY <2>3, <2>4 DEF Control, Executing, RunRow, Idle
<1>2. ASSUME NEW o \in Ops, Execute(o) PROVE Executing'
  BY <1>2, ExecuteDoes DEF Control, OpTypes, Live, IsLive, Open, Kind, Became, Turned, Ended, Dropped, Marked, Moved, Stops,
     Concluded, Executing, OneLive, Idle
<1>3. ASSUME NEW o \in Ops, ConfirmExternal(o) PROVE Executing'
  <2>1. \A p \in Ops : (op'[p].status = "running") <=> (op[p].status = "running")
    BY <1>3, ConfirmExternalDoes DEF OpTypes, Live, Became, Turned, Ended, Dropped, Marked, Moved, Stops, Concluded
  <2>2. UNCHANGED run /\ run \in RunRow
    BY <1>3, ConfirmExternalDoes DEF OpTypes
  <2> QED BY <2>1, <2>2 DEF Control, Executing, RunRow, Idle
<1>4. ASSUME NEW o \in Ops, ReconcileStep(o) PROVE Executing'
  <2>1. \A p \in Ops : (op'[p].status = "running") <=> (op[p].status = "running")
    BY <1>4, ReconcileStepDoes DEF OpTypes, Live, Became, Turned, Ended, Dropped, Marked, Moved, Stops, Concluded
  <2>2. UNCHANGED run /\ run \in RunRow
    BY <1>4, ReconcileStepDoes DEF OpTypes
  <2> QED BY <2>1, <2>2 DEF Control, Executing, RunRow, Idle
<1>5. ASSUME NEW o \in Ops, Reconcile(o) PROVE Executing'
  <2>1. \A p \in Ops : (op'[p].status = "running") <=> (op[p].status = "running")
    BY <1>5, ReconcileDoes DEF OpTypes, Live, Became, Turned, Ended, Dropped, Marked, Moved, Stops, Concluded
  <2>2. UNCHANGED run /\ run \in RunRow
    BY <1>5, ReconcileDoes DEF OpTypes
  <2> QED BY <2>1, <2>2 DEF Control, Executing, RunRow, Idle
<1>6. ASSUME NEW o \in Ops, Retry(o) PROVE Executing'
  <2>1. \A p \in Ops : (op'[p].status = "running") <=> (op[p].status = "running")
    BY <1>6, RetryDoes DEF OpTypes, Live, Became, Turned, Ended, Dropped, Marked, Moved, Stops, Concluded
  <2>2. UNCHANGED run /\ run \in RunRow
    BY <1>6, RetryDoes DEF OpTypes
  <2> QED BY <2>1, <2>2 DEF Control, Executing, RunRow, Idle
<1>7. ASSUME NEW o \in Ops, Cancel(o) PROVE Executing'
  <2>1. \A p \in Ops : (op'[p].status = "running") <=> (op[p].status = "running")
    BY <1>7, CancelDoes DEF OpTypes, Live, Became, Turned, Ended, Dropped, Marked, Moved, Stops, Concluded
  <2>2. UNCHANGED run /\ run \in RunRow
    BY <1>7, CancelDoes DEF OpTypes
  <2> QED BY <2>1, <2>2 DEF Control, Executing, RunRow, Idle
<1>8. ASSUME NEW o \in Ops, Report(o) PROVE Executing'
  <2>1. \A p \in Ops : (op'[p].status = "running") <=> (op[p].status = "running")
    BY <1>8, ReportDoes DEF OpTypes, Live, Became, Turned, Ended, Dropped, Marked, Moved, Stops, Concluded
  <2>2. UNCHANGED run /\ run \in RunRow
    BY <1>8, ReportDoes DEF OpTypes
  <2> QED BY <2>1, <2>2 DEF Control, Executing, RunRow, Idle
<1>9. ASSUME NEW o \in Ops, ClaimSecret(o) PROVE Executing'
  <2>1. \A p \in Ops : (op'[p].status = "running") <=> (op[p].status = "running")
    BY <1>9, ClaimSecretDoes DEF OpTypes, Live, Became, Turned, Ended, Dropped, Marked, Moved, Stops, Concluded
  <2>2. UNCHANGED run /\ run \in RunRow
    BY <1>9, ClaimSecretDoes DEF OpTypes
  <2> QED BY <2>1, <2>2 DEF Control, Executing, RunRow, Idle
<1>10. ASSUME NEW o \in Ops, Expire(o) PROVE Executing'
  <2>1. \A p \in Ops : (op'[p].status = "running") <=> (op[p].status = "running")
    BY <1>10, ExpireDoes DEF OpTypes, Live, Became, Turned, Ended, Dropped, Marked, Moved, Stops, Concluded
  <2>2. UNCHANGED run /\ run \in RunRow
    BY <1>10, ExpireDoes DEF OpTypes
  <2> QED BY <2>1, <2>2 DEF Control, Executing, RunRow, Idle
<1>11. ASSUME Failure PROVE Executing'
  BY <1>11, FailureDoes DEF Control, OpTypes, Live, IsLive, Open, Kind, Became, Turned, Ended, Dropped, Marked, Moved,
     Stops, Concluded, Executing, OneLive, Idle
<1>12. ASSUME Start PROVE Executing'
  BY <1>12, StartDoes DEF Control, OpTypes, Live, IsLive, Open, Kind, Became, Turned, Ended, Dropped, Marked, Moved, Stops,
     Concluded, Executing, OneLive, Idle
<1>13. ASSUME Complete PROVE Executing'
  BY <1>13, CompleteDoes DEF Control, OpTypes, Live, IsLive, Open, Kind, Became, Turned, Ended, Dropped, Marked, Moved,
     Stops, Concluded, Executing, OneLive, Idle
<1>14. ASSUME Begin PROVE Executing'
  BY <1>14, BeginDoes DEF Control, OpTypes, Live, IsLive, Open, Kind, Became, Turned, Ended, Dropped, Marked, Moved, Stops,
     Concluded, Executing, OneLive, Idle
<1>15. ASSUME Provider PROVE Executing'
  BY <1>15, ProviderDoes DEF Control, OpTypes, Live, IsLive, Open, Kind, Became, Turned, Ended, Dropped, Marked, Moved,
     Stops, Concluded, Executing, OneLive, Idle
<1>16. ASSUME Refused PROVE Executing'
  BY <1>16, RefusedDoes DEF Control, OpTypes, Live, IsLive, Open, Kind, Became, Turned, Ended, Dropped, Marked, Moved,
     Stops, Concluded, Executing, OneLive, Idle
<1>17. ASSUME Keep PROVE Executing'
  BY <1>17, KeepDoes DEF Control, OpTypes, Live, IsLive, Open, Kind, Became, Turned, Ended, Dropped, Marked, Moved, Stops,
     Concluded, Executing, OneLive, Idle
<1>18. ASSUME Record PROVE Executing'
  BY <1>18, RecordDoes DEF Control, OpTypes, Live, IsLive, Open, Kind, Became, Turned, Ended, Dropped, Marked, Moved, Stops,
     Concluded, Executing, OneLive, Idle
<1>19. ASSUME GiveUp PROVE Executing'
  BY <1>19, GiveUpDoes DEF Control, OpTypes, Live, IsLive, Open, Kind, Became, Turned, Ended, Dropped, Marked, Moved, Stops,
     Concluded, Executing, OneLive, Idle
<1>20. ASSUME Reserve PROVE Executing'
  BY <1>20, ReserveDoes DEF Control, OpTypes, Live, IsLive, Open, Kind, Became, Turned, Ended, Dropped, Marked, Moved,
     Stops, Concluded, Executing, OneLive, Idle
<1>21. ASSUME Confirm PROVE Executing'
  BY <1>21, ConfirmDoes DEF Control, OpTypes, Live, IsLive, Open, Kind, Became, Turned, Ended, Dropped, Marked, Moved,
     Stops, Concluded, Executing, OneLive, Idle
<1>22. ASSUME Candidate PROVE Executing'
  BY <1>22, CandidateDoes DEF Control, OpTypes, Live, IsLive, Open, Kind, Became, Turned, Ended, Dropped, Marked, Moved,
     Stops, Concluded, Executing, OneLive, Idle
<1>23. ASSUME Verify PROVE Executing'
  BY <1>23, VerifyDoes DEF Control, OpTypes, Live, IsLive, Open, Kind, Became, Turned, Ended, Dropped, Marked, Moved, Stops,
     Concluded, Executing, OneLive, Idle
<1>24. ASSUME Activate PROVE Executing'
  BY <1>24, ActivateDoes DEF Control, OpTypes, Live, IsLive, Open, Kind, Became, Turned, Ended, Dropped, Marked, Moved,
     Stops, Concluded, Executing, OneLive, Idle
<1>25. ASSUME Revoke PROVE Executing'
  BY <1>25, RevokeDoes DEF Control, OpTypes, Live, IsLive, Open, Kind, Became, Turned, Ended, Dropped, Marked, Moved, Stops,
     Concluded, Executing, OneLive, Idle
<1>26. ASSUME Revoked PROVE Executing'
  BY <1>26, RevokedDoes DEF Control, OpTypes, Live, IsLive, Open, Kind, Became, Turned, Ended, Dropped, Marked, Moved,
     Stops, Concluded, Executing, OneLive, Idle
<1>27. ASSUME Password PROVE Executing'
  BY <1>27, PasswordDoes DEF Control, OpTypes, Live, IsLive, Open, Kind, Became, Turned, Ended, Dropped, Marked, Moved,
     Stops, Concluded, Executing, OneLive, Idle
<1>28. ASSUME Claim PROVE Executing'
  BY <1>28, ClaimDoes DEF Control, OpTypes, Live, IsLive, Open, Kind, Became, Turned, Ended, Dropped, Marked, Moved, Stops,
     Concluded, Executing, OneLive, Idle
<1>29. ASSUME Validate PROVE Executing'
  BY <1>29, ValidateDoes DEF Control, OpTypes, Live, IsLive, Open, Kind, Became, Turned, Ended, Dropped, Marked, Moved,
     Stops, Concluded, Executing, OneLive, Idle
<1>30. ASSUME Gone PROVE Executing'
  BY <1>30, GoneDoes DEF Control, OpTypes, Live, IsLive, Open, Kind, Became, Turned, Ended, Dropped, Marked, Moved, Stops,
     Concluded, Executing, OneLive, Idle
<1>31. ASSUME External PROVE Executing'
  BY <1>31, ExternalDoes DEF Control, OpTypes, Live, IsLive, Open, Kind, Became, Turned, Ended, Dropped, Marked, Moved,
     Stops, Concluded, Executing, OneLive, Idle
<1>32. ASSUME Check PROVE Executing'
  BY <1>32, CheckDoes DEF Control, OpTypes, Live, IsLive, Open, Kind, Became, Turned, Ended, Dropped, Marked, Moved, Stops,
     Concluded, Executing, OneLive, Idle
<1>33. ASSUME SaveEntered PROVE Executing'
  BY <1>33, SaveEnteredDoes DEF Control, OpTypes, Live, IsLive, Open, Kind, Became, Turned, Ended, Dropped, Marked, Moved,
     Stops, Concluded, Executing, OneLive, Idle
<1>34. ASSUME Attach PROVE Executing'
  BY <1>34, AttachDoes DEF Control, OpTypes, Live, IsLive, Open, Kind, Became, Turned, Ended, Dropped, Marked, Moved, Stops,
     Concluded, Executing, OneLive, Idle
<1>35. ASSUME UpdateEndpoints PROVE Executing'
  BY <1>35, UpdateEndpointsDoes DEF Control, OpTypes, Live, IsLive, Open, Kind, Became, Turned, Ended, Dropped, Marked,
     Moved, Stops, Concluded, Executing, OneLive, Idle
<1>36. ASSUME Reactivate PROVE Executing'
  BY <1>36, ReactivateDoes DEF Control, OpTypes, Live, IsLive, Open, Kind, Became, Turned, Ended, Dropped, Marked, Moved,
     Stops, Concluded, Executing, OneLive, Idle
<1>37. ASSUME ConfigureConnection PROVE Executing'
  BY <1>37, ConfigureConnectionDoes DEF Control, OpTypes, Live, IsLive, Open, Kind, Became, Turned, Ended, Dropped, Marked,
     Moved, Stops, Concluded, Executing, OneLive, Idle
<1>38. ASSUME Commit PROVE Executing'
  BY <1>38, CommitDoes DEF Control, OpTypes, Live, IsLive, Open, Kind, Became, Turned, Ended, Dropped, Marked, Moved, Stops,
     Concluded, Executing, OneLive, Idle
<1>39. ASSUME Interrupt PROVE Executing'
  BY <1>39, InterruptDoes DEF Control, OpTypes, Live, IsLive, Open, Kind, Became, Turned, Ended, Dropped, Marked, Moved,
     Stops, Concluded, Executing, OneLive, Idle
<1>40. UNCHANGED <<op, step, run>> => Executing'
  BY DEF Control, OpTypes, IsLive, Open, Kind, Executing, OneLive, Idle
<1>41. ASSUME Land PROVE UNCHANGED <<op, step, run>>
  BY <1>41, LandDoes
<1>42. ASSUME Switch PROVE UNCHANGED <<op, step, run>>
  BY <1>42, SwitchDoes
<1>43. ASSUME Suspend PROVE UNCHANGED <<op, step, run>>
  BY <1>43, SuspendDoes
<1>44. ASSUME Unregister PROVE UNCHANGED <<op, step, run>>
  BY <1>44, UnregisterDoes
<1>45. ASSUME Foreign PROVE UNCHANGED <<op, step, run>>
  BY <1>45, ForeignDoes
<1> QED
  BY Failures, <1>1, <1>2, <1>3, <1>4, <1>5, <1>6, <1>7, <1>8, <1>9, <1>10, <1>11, <1>12, <1>13, <1>14, <1>15, <1>16, <1>17,
     <1>18, <1>19, <1>20, <1>21, <1>22, <1>23, <1>24, <1>25, <1>26, <1>27, <1>28, <1>29, <1>30, <1>31, <1>32, <1>33, <1>34,
     <1>35, <1>36, <1>37, <1>38, <1>39, <1>40, <1>41, <1>42, <1>43, <1>44, <1>45 DEF Next, Execution

(* An operation that is open has its request. *)
LEMMA RequestedStep ==
  ASSUME NoneIsNoOp, IMAPIsProtocol, LimitsAreNat, LocalTypes, OpTypes, RemoteTypes, Control, References, Next
  PROVE  Requested'
<1> USE NoneIsNoOp, IMAPIsProtocol, LimitsAreNat DEF vars, localVars, opVars, bounds, history, remoteVars
<1>1. ASSUME NEW o \in Ops, NEW k \in Kinds, Queue(o, k) PROVE Requested'
  <2>1. PICK r \in Requests(k) : r \in Request /\ Became(o, r, "queued", 0, 0, 0, 0, FALSE)
    BY <1>1, QueueDoes
  <2>2. /\ op[o].status = "none" /\ (\A p \in Ops : op[p].status \notin Live) /\ UNCHANGED <<run, step>>
    BY <1>1, QueueDoes
  <2>3. op'[o].request \in Request /\ \A p \in Ops \ {o} : op'[p] = op[p]
    BY <2>1 DEF Became
  <2> QED BY <2>3 DEF Control, Requested, Open
<1>2. ASSUME NEW o \in Ops, Execute(o) PROVE Requested'
  BY <1>2, ExecuteDoes DEF Control, OpTypes, Live, IsLive, Open, Kind, Became, Turned, Ended, Dropped, Marked, Moved, Stops,
     Concluded, Requested, Executing
<1>3. ASSUME NEW o \in Ops, ConfirmExternal(o) PROVE Requested'
  BY <1>3, ConfirmExternalDoes DEF Control, OpTypes, Live, IsLive, Open, Kind, Became, Turned, Ended, Dropped, Marked,
     Moved, Stops, Concluded, Requested, Executing
<1>4. ASSUME NEW o \in Ops, ReconcileStep(o) PROVE Requested'
  BY <1>4, ReconcileStepDoes DEF Control, OpTypes, Live, IsLive, Open, Kind, Became, Turned, Ended, Dropped, Marked, Moved,
     Stops, Concluded, Requested, Executing
<1>5. ASSUME NEW o \in Ops, Reconcile(o) PROVE Requested'
  BY <1>5, ReconcileDoes DEF Control, OpTypes, Live, IsLive, Open, Kind, Became, Turned, Ended, Dropped, Marked, Moved,
     Stops, Concluded, Requested, Executing
<1>6. ASSUME NEW o \in Ops, Retry(o) PROVE Requested'
  BY <1>6, RetryDoes DEF Control, OpTypes, Live, IsLive, Open, Kind, Became, Turned, Ended, Dropped, Marked, Moved, Stops,
     Concluded, Requested, Executing
<1>7. ASSUME NEW o \in Ops, Cancel(o) PROVE Requested'
  <2>1. \A p \in Ops : Open(p)' => Open(p) /\ op'[p].request = op[p].request
    BY <1>7, CancelDoes DEF OpTypes, Open, Live, Dropped, Ended, Became
  <2> QED BY <2>1 DEF Control, Requested
<1>8. ASSUME NEW o \in Ops, Report(o) PROVE Requested'
  <2>1. \A p \in Ops : Open(p)' => Open(p) /\ op'[p].request = op[p].request
    BY <1>8, ReportDoes DEF OpTypes, Open, Live, Dropped, Ended, Became
  <2> QED BY <2>1 DEF Control, Requested
<1>9. ASSUME NEW o \in Ops, ClaimSecret(o) PROVE Requested'
  <2>1. \A p \in Ops : Open(p)' => Open(p) /\ op'[p].request = op[p].request
    BY <1>9, ClaimSecretDoes DEF OpTypes, Open, Live, Became
  <2> QED BY <2>1 DEF Control, Requested
<1>10. ASSUME NEW o \in Ops, Expire(o) PROVE Requested'
  <2>1. \A p \in Ops : Open(p)' => Open(p) /\ op'[p].request = op[p].request
    BY <1>10, ExpireDoes DEF OpTypes, Open, Live, Became
  <2> QED BY <2>1 DEF Control, Requested
<1>11. ASSUME Failure PROVE Requested'
  BY <1>11, FailureDoes DEF Control, OpTypes, Live, IsLive, Open, Kind, Became, Turned, Ended, Dropped, Marked, Moved,
     Stops, Concluded, Requested, Executing
<1>12. ASSUME Start PROVE Requested'
  BY <1>12, StartDoes DEF Control, OpTypes, Live, IsLive, Open, Kind, Became, Turned, Ended, Dropped, Marked, Moved, Stops,
     Concluded, Requested, Executing
<1>13. ASSUME Complete PROVE Requested'
  BY <1>13, CompleteDoes DEF Control, OpTypes, Live, IsLive, Open, Kind, Became, Turned, Ended, Dropped, Marked, Moved,
     Stops, Concluded, Requested, Executing
<1>14. ASSUME Begin PROVE Requested'
  BY <1>14, BeginDoes DEF Control, OpTypes, Live, IsLive, Open, Kind, Became, Turned, Ended, Dropped, Marked, Moved, Stops,
     Concluded, Requested, Executing
<1>15. ASSUME Provider PROVE Requested'
  BY <1>15, ProviderDoes DEF Control, OpTypes, Live, IsLive, Open, Kind, Became, Turned, Ended, Dropped, Marked, Moved,
     Stops, Concluded, Requested, Executing
<1>16. ASSUME Refused PROVE Requested'
  BY <1>16, RefusedDoes DEF Control, OpTypes, Live, IsLive, Open, Kind, Became, Turned, Ended, Dropped, Marked, Moved,
     Stops, Concluded, Requested, Executing
<1>17. ASSUME Keep PROVE Requested'
  BY <1>17, KeepDoes DEF Control, OpTypes, Live, IsLive, Open, Kind, Became, Turned, Ended, Dropped, Marked, Moved, Stops,
     Concluded, Requested, Executing
<1>18. ASSUME Record PROVE Requested'
  BY <1>18, RecordDoes DEF Control, OpTypes, Live, IsLive, Open, Kind, Became, Turned, Ended, Dropped, Marked, Moved, Stops,
     Concluded, Requested, Executing
<1>19. ASSUME GiveUp PROVE Requested'
  BY <1>19, GiveUpDoes DEF Control, OpTypes, Live, IsLive, Open, Kind, Became, Turned, Ended, Dropped, Marked, Moved, Stops,
     Concluded, Requested, Executing
<1>20. ASSUME Reserve PROVE Requested'
  BY <1>20, ReserveDoes DEF Control, OpTypes, Live, IsLive, Open, Kind, Became, Turned, Ended, Dropped, Marked, Moved,
     Stops, Concluded, Requested, Executing
<1>21. ASSUME Confirm PROVE Requested'
  BY <1>21, ConfirmDoes DEF Control, OpTypes, Live, IsLive, Open, Kind, Became, Turned, Ended, Dropped, Marked, Moved,
     Stops, Concluded, Requested, Executing
<1>22. ASSUME Candidate PROVE Requested'
  BY <1>22, CandidateDoes DEF Control, OpTypes, Live, IsLive, Open, Kind, Became, Turned, Ended, Dropped, Marked, Moved,
     Stops, Concluded, Requested, Executing
<1>23. ASSUME Verify PROVE Requested'
  BY <1>23, VerifyDoes DEF Control, OpTypes, Live, IsLive, Open, Kind, Became, Turned, Ended, Dropped, Marked, Moved, Stops,
     Concluded, Requested, Executing
<1>24. ASSUME Activate PROVE Requested'
  BY <1>24, ActivateDoes DEF Control, OpTypes, Live, IsLive, Open, Kind, Became, Turned, Ended, Dropped, Marked, Moved,
     Stops, Concluded, Requested, Executing
<1>25. ASSUME Revoke PROVE Requested'
  BY <1>25, RevokeDoes DEF Control, OpTypes, Live, IsLive, Open, Kind, Became, Turned, Ended, Dropped, Marked, Moved, Stops,
     Concluded, Requested, Executing
<1>26. ASSUME Revoked PROVE Requested'
  BY <1>26, RevokedDoes DEF Control, OpTypes, Live, IsLive, Open, Kind, Became, Turned, Ended, Dropped, Marked, Moved,
     Stops, Concluded, Requested, Executing
<1>27. ASSUME Password PROVE Requested'
  BY <1>27, PasswordDoes DEF Control, OpTypes, Live, IsLive, Open, Kind, Became, Turned, Ended, Dropped, Marked, Moved,
     Stops, Concluded, Requested, Executing
<1>28. ASSUME Claim PROVE Requested'
  BY <1>28, ClaimDoes DEF Control, OpTypes, Live, IsLive, Open, Kind, Became, Turned, Ended, Dropped, Marked, Moved, Stops,
     Concluded, Requested, Executing
<1>29. ASSUME Validate PROVE Requested'
  BY <1>29, ValidateDoes DEF Control, OpTypes, Live, IsLive, Open, Kind, Became, Turned, Ended, Dropped, Marked, Moved,
     Stops, Concluded, Requested, Executing
<1>30. ASSUME Gone PROVE Requested'
  BY <1>30, GoneDoes DEF Control, OpTypes, Live, IsLive, Open, Kind, Became, Turned, Ended, Dropped, Marked, Moved, Stops,
     Concluded, Requested, Executing
<1>31. ASSUME External PROVE Requested'
  BY <1>31, ExternalDoes DEF Control, OpTypes, Live, IsLive, Open, Kind, Became, Turned, Ended, Dropped, Marked, Moved,
     Stops, Concluded, Requested, Executing
<1>32. ASSUME Check PROVE Requested'
  BY <1>32, CheckDoes DEF Control, OpTypes, Live, IsLive, Open, Kind, Became, Turned, Ended, Dropped, Marked, Moved, Stops,
     Concluded, Requested, Executing
<1>33. ASSUME SaveEntered PROVE Requested'
  BY <1>33, SaveEnteredDoes DEF Control, OpTypes, Live, IsLive, Open, Kind, Became, Turned, Ended, Dropped, Marked, Moved,
     Stops, Concluded, Requested, Executing
<1>34. ASSUME Attach PROVE Requested'
  <2>1. \A p \in Ops : Open(p)' => Open(p) /\ op'[p].request = op[p].request
    BY <1>34, AttachDoes DEF OpTypes, Open, Turned, Became
  <2> QED BY <2>1 DEF Control, Requested
<1>35. ASSUME UpdateEndpoints PROVE Requested'
  BY <1>35, UpdateEndpointsDoes DEF Control, OpTypes, Live, IsLive, Open, Kind, Became, Turned, Ended, Dropped, Marked,
     Moved, Stops, Concluded, Requested, Executing
<1>36. ASSUME Reactivate PROVE Requested'
  <2>1. \A p \in Ops : Open(p)' => Open(p) /\ op'[p].request = op[p].request
    BY <1>36, ReactivateDoes DEF OpTypes, Open, Turned, Became
  <2> QED BY <2>1 DEF Control, Requested
<1>37. ASSUME ConfigureConnection PROVE Requested'
  BY <1>37, ConfigureConnectionDoes DEF Control, OpTypes, Live, IsLive, Open, Kind, Became, Turned, Ended, Dropped, Marked,
     Moved, Stops, Concluded, Requested, Executing
<1>38. ASSUME Commit PROVE Requested'
  BY <1>38, CommitDoes DEF Control, OpTypes, Live, IsLive, Open, Kind, Became, Turned, Ended, Dropped, Marked, Moved, Stops,
     Concluded, Requested, Executing
<1>39. ASSUME Interrupt PROVE Requested'
  BY <1>39, InterruptDoes DEF Control, OpTypes, Live, IsLive, Open, Kind, Became, Turned, Ended, Dropped, Marked, Moved,
     Stops, Concluded, Requested, Executing
<1>40. UNCHANGED <<op, step, run>> => Requested'
  BY DEF Control, OpTypes, IsLive, Open, Kind, Requested, Executing
<1>41. ASSUME Land PROVE UNCHANGED <<op, step, run>>
  BY <1>41, LandDoes
<1>42. ASSUME Switch PROVE UNCHANGED <<op, step, run>>
  BY <1>42, SwitchDoes
<1>43. ASSUME Suspend PROVE UNCHANGED <<op, step, run>>
  BY <1>43, SuspendDoes
<1>44. ASSUME Unregister PROVE UNCHANGED <<op, step, run>>
  BY <1>44, UnregisterDoes
<1>45. ASSUME Foreign PROVE UNCHANGED <<op, step, run>>
  BY <1>45, ForeignDoes
<1> QED
  BY Failures, <1>1, <1>2, <1>3, <1>4, <1>5, <1>6, <1>7, <1>8, <1>9, <1>10, <1>11, <1>12, <1>13, <1>14, <1>15, <1>16, <1>17,
     <1>18, <1>19, <1>20, <1>21, <1>22, <1>23, <1>24, <1>25, <1>26, <1>27, <1>28, <1>29, <1>30, <1>31, <1>32, <1>33, <1>34,
     <1>35, <1>36, <1>37, <1>38, <1>39, <1>40, <1>41, <1>42, <1>43, <1>44, <1>45 DEF Next, Execution

(* What is executed is at a point of its kind. *)
LEMMA OnPathStep ==
  ASSUME NoneIsNoOp, IMAPIsProtocol, LimitsAreNat, LocalTypes, OpTypes, RemoteTypes, Control, References, Next
  PROVE  OnPath'
<1> USE NoneIsNoOp, IMAPIsProtocol, LimitsAreNat DEF vars, localVars, opVars, bounds, history, remoteVars
<1>1. ASSUME NEW o \in Ops, NEW k \in Kinds, Queue(o, k) PROVE OnPath'
  <2>1. PICK r \in Requests(k) : r \in Request /\ Became(o, r, "queued", 0, 0, 0, 0, FALSE)
    BY <1>1, QueueDoes
  <2>2. /\ op[o].status = "none" /\ (\A p \in Ops : op[p].status \notin Live) /\ UNCHANGED <<run, step>>
    BY <1>1, QueueDoes
  <2>8. UNCHANGED run /\ (run.op # None => run.op \in Ops /\ op'[run.op].request = op[run.op].request)
    BY <2>1, <2>2 DEF Became, Turned, Ended, Dropped, Marked, Moved, Stops, Concluded, OpTypes, Live, Control, Executing, RunRow
  <2> QED BY <2>8 DEF Control, OnPath
<1>2. ASSUME NEW o \in Ops, Execute(o) PROVE OnPath'
  BY Running, <1>2, ExecuteDoes DEF Control, OpTypes, Live, IsLive, Open, Kind, Became, Turned, Ended, Dropped, Marked,
     Moved, Stops, Concluded, OnPath, Answers, Executing, Idle, First, After, Calls, Additions, Remote, Transactional,
     Kinds, Kind, Done, Committed
<1>3. ASSUME NEW o \in Ops, ConfirmExternal(o) PROVE OnPath'
  <2>8. UNCHANGED run /\ (run.op # None => run.op \in Ops /\ op'[run.op].request = op[run.op].request)
    BY <1>3, ConfirmExternalDoes DEF Became, Turned, Ended, Dropped, Marked, Moved, Stops, Concluded, OpTypes, Live, Control,
       Executing, RunRow
  <2> QED BY <2>8 DEF Control, OnPath
<1>4. ASSUME NEW o \in Ops, ReconcileStep(o) PROVE OnPath'
  <2>8. UNCHANGED run /\ (run.op # None => run.op \in Ops /\ op'[run.op].request = op[run.op].request)
    BY <1>4, ReconcileStepDoes DEF Became, Turned, Ended, Dropped, Marked, Moved, Stops, Concluded, OpTypes, Live, Control,
       Executing, RunRow
  <2> QED BY <2>8 DEF Control, OnPath
<1>5. ASSUME NEW o \in Ops, Reconcile(o) PROVE OnPath'
  <2>8. UNCHANGED run /\ (run.op # None => run.op \in Ops /\ op'[run.op].request = op[run.op].request)
    BY <1>5, ReconcileDoes DEF Became, Turned, Ended, Dropped, Marked, Moved, Stops, Concluded, OpTypes, Live, Control,
       Executing, RunRow
  <2> QED BY <2>8 DEF Control, OnPath
<1>6. ASSUME NEW o \in Ops, Retry(o) PROVE OnPath'
  <2>8. UNCHANGED run /\ (run.op # None => run.op \in Ops /\ op'[run.op].request = op[run.op].request)
    BY <1>6, RetryDoes DEF Became, Turned, Ended, Dropped, Marked, Moved, Stops, Concluded, OpTypes, Live, Control, Executing,
       RunRow
  <2> QED BY <2>8 DEF Control, OnPath
<1>7. ASSUME NEW o \in Ops, Cancel(o) PROVE OnPath'
  <2>8. UNCHANGED run /\ (run.op # None => run.op \in Ops /\ op'[run.op].request = op[run.op].request)
    BY <1>7, CancelDoes DEF Became, Turned, Ended, Dropped, Marked, Moved, Stops, Concluded, OpTypes, Live, Control,
       Executing, RunRow
  <2> QED BY <2>8 DEF Control, OnPath
<1>8. ASSUME NEW o \in Ops, Report(o) PROVE OnPath'
  <2>8. UNCHANGED run /\ (run.op # None => run.op \in Ops /\ op'[run.op].request = op[run.op].request)
    BY <1>8, ReportDoes DEF Became, Turned, Ended, Dropped, Marked, Moved, Stops, Concluded, OpTypes, Live, Control,
       Executing, RunRow
  <2> QED BY <2>8 DEF Control, OnPath
<1>9. ASSUME NEW o \in Ops, ClaimSecret(o) PROVE OnPath'
  <2>8. UNCHANGED run /\ (run.op # None => run.op \in Ops /\ op'[run.op].request = op[run.op].request)
    BY <1>9, ClaimSecretDoes DEF Became, Turned, Ended, Dropped, Marked, Moved, Stops, Concluded, OpTypes, Live, Control,
       Executing, RunRow
  <2> QED BY <2>8 DEF Control, OnPath
<1>10. ASSUME NEW o \in Ops, Expire(o) PROVE OnPath'
  <2>8. UNCHANGED run /\ (run.op # None => run.op \in Ops /\ op'[run.op].request = op[run.op].request)
    BY <1>10, ExpireDoes DEF Became, Turned, Ended, Dropped, Marked, Moved, Stops, Concluded, OpTypes, Live, Control,
       Executing, RunRow
  <2> QED BY <2>8 DEF Control, OnPath
<1>11. ASSUME Failure PROVE OnPath'
  BY <1>11, FailureDoes DEF OnPath, Stops, Idle, Concluded
<1>12. ASSUME Start PROVE OnPath'
  BY Running, <1>12, StartDoes DEF Control, OpTypes, Live, IsLive, Open, Kind, Became, Turned, Ended, Dropped, Marked,
     Moved, Stops, Concluded, OnPath, Answers, Executing, Idle, First, After, Calls, Additions, Remote, Transactional,
     Kinds, Kind, Done, Committed
<1>13. ASSUME Complete PROVE OnPath'
  BY <1>13, CompleteDoes DEF OnPath, Stops, Idle
<1>14. ASSUME Begin PROVE OnPath'
  BY Running, <1>14, BeginDoes DEF Control, OpTypes, Live, IsLive, Open, Kind, Became, Turned, Ended, Dropped, Marked,
     Moved, Stops, Concluded, OnPath, Answers, Executing, Idle, First, After, Calls, Additions, Remote, Transactional,
     Kinds, Kind, Done, Committed
<1>15. ASSUME Provider PROVE OnPath'
  BY Running, <1>15, ProviderDoes DEF Control, OpTypes, Live, IsLive, Open, Kind, Became, Turned, Ended, Dropped, Marked,
     Moved, Stops, Concluded, OnPath, Answers, Executing, Idle, First, After, Calls, Additions, Remote, Transactional,
     Kinds, Kind, Done, Committed
<1>16. ASSUME Refused PROVE OnPath'
  BY Running, <1>16, RefusedDoes DEF Control, OpTypes, Live, IsLive, Open, Kind, Became, Turned, Ended, Dropped, Marked,
     Moved, Stops, Concluded, OnPath, Answers, Executing, Idle, First, After, Calls, Additions, Remote, Transactional,
     Kinds, Kind, Done, Committed
<1>17. ASSUME Keep PROVE OnPath'
  BY Running, <1>17, KeepDoes DEF Control, OpTypes, Live, IsLive, Open, Kind, Became, Turned, Ended, Dropped, Marked, Moved,
     Stops, Concluded, OnPath, Answers, Executing, Idle, First, After, Calls, Additions, Remote, Transactional, Kinds, Kind,
     Done, Committed
<1>18. ASSUME Record PROVE OnPath'
  BY Running, <1>18, RecordDoes DEF Control, OpTypes, Live, IsLive, Open, Kind, Became, Turned, Ended, Dropped, Marked,
     Moved, Stops, Concluded, OnPath, Answers, Executing, Idle, First, After, Calls, Additions, Remote, Transactional,
     Kinds, Kind, Done, Committed
<1>19. ASSUME GiveUp PROVE OnPath'
  BY <1>19, GiveUpDoes DEF OnPath, Stops, Idle, Concluded
<1>20. ASSUME Reserve PROVE OnPath'
  BY <1>20, ReserveDoes DEF Control, OnPath, Answers, Kind, Transactional, Moved, Turned, Became
<1>21. ASSUME Confirm PROVE OnPath'
  BY <1>21, ConfirmDoes DEF Control, OnPath, Answers, Kind, Transactional, Moved
<1>22. ASSUME Candidate PROVE OnPath'
  BY <1>22, CandidateDoes DEF Control, OnPath, Answers, Kind, Transactional, Moved
<1>23. ASSUME Verify PROVE OnPath'
  BY <1>23, VerifyDoes DEF Control, OnPath, Answers, Kind, Transactional, Moved
<1>24. ASSUME Activate PROVE OnPath'
  BY <1>24, ActivateDoes DEF Control, OnPath, Answers, Kind, Transactional, Moved, Turned, Became
<1>25. ASSUME Revoke PROVE OnPath'
  BY Running, <1>25, RevokeDoes DEF Control, OpTypes, Live, IsLive, Open, Kind, Became, Turned, Ended, Dropped, Marked,
     Moved, Stops, Concluded, OnPath, Answers, Executing, Idle, First, After, Calls, Additions, Remote, Transactional,
     Kinds, Kind, Done, Committed
<1>26. ASSUME Revoked PROVE OnPath'
  BY <1>26, RevokedDoes DEF Control, OnPath, Answers, Kind, Transactional, Moved
<1>27. ASSUME Password PROVE OnPath'
  BY <1>27, PasswordDoes DEF Control, OnPath, Answers, Kind, Transactional, Moved, Turned, Became
<1>28. ASSUME Claim PROVE OnPath'
  BY <1>28, ClaimDoes DEF Control, OnPath, Answers, Kind, Transactional, Moved, Turned, Became
<1>29. ASSUME Validate PROVE OnPath'
  BY <1>29, ValidateDoes DEF Control, OnPath, Answers, Kind, Transactional, Moved
<1>30. ASSUME Gone PROVE OnPath'
  BY Running, <1>30, GoneDoes DEF Control, OpTypes, Live, IsLive, Open, Kind, Became, Turned, Ended, Dropped, Marked, Moved,
     Stops, Concluded, OnPath, Answers, Executing, Idle, First, After, Calls, Additions, Remote, Transactional, Kinds, Kind,
     Done, Committed
<1>31. ASSUME External PROVE OnPath'
  BY <1>31, ExternalDoes DEF OnPath, Stops, Idle
<1>32. ASSUME Check PROVE OnPath'
  BY <1>32, CheckDoes DEF Control, OnPath, Answers, Kind, Transactional, Moved
<1>33. ASSUME SaveEntered PROVE OnPath'
  BY <1>33, SaveEnteredDoes DEF Control, OnPath, Answers, Kind, Transactional, Moved
<1>34. ASSUME Attach PROVE OnPath'
  BY <1>34, AttachDoes DEF Control, OnPath, Kind, Additions, Transactional, Moved, Turned, Became
<1>35. ASSUME UpdateEndpoints PROVE OnPath'
  BY <1>35, UpdateEndpointsDoes DEF OnPath, Stops, Idle
<1>36. ASSUME Reactivate PROVE OnPath'
  BY <1>36, ReactivateDoes DEF Control, OnPath, Answers, Kind, Transactional, Moved, Turned, Became
<1>37. ASSUME ConfigureConnection PROVE OnPath'
  <2>1. Stops
    BY <1>37, ConfigureConnectionDoes
  <2> QED BY <2>1 DEF OnPath, Stops, Idle
<1>38. ASSUME Commit PROVE OnPath'
  BY Running, <1>38, CommitDoes DEF Control, OpTypes, Live, IsLive, Open, Kind, Became, Turned, Ended, Dropped, Marked,
     Moved, Stops, Concluded, OnPath, Answers, Executing, Idle, First, After, Calls, Additions, Remote, Transactional,
     Kinds, Kind, Done, Committed
<1>39. ASSUME Interrupt PROVE OnPath'
  BY <1>39, InterruptDoes DEF OnPath, Stops, Idle
<1>40. UNCHANGED <<op, step, run>> => OnPath'
  BY DEF Control, OpTypes, IsLive, Open, Kind, OnPath, Answers, Executing, Idle, First, After, Calls, Additions, Remote,
     Transactional, Kinds, Kind, Done, Committed
<1>41. ASSUME Land PROVE UNCHANGED <<op, step, run>>
  BY <1>41, LandDoes
<1>42. ASSUME Switch PROVE UNCHANGED <<op, step, run>>
  BY <1>42, SwitchDoes
<1>43. ASSUME Suspend PROVE UNCHANGED <<op, step, run>>
  BY <1>43, SuspendDoes
<1>44. ASSUME Unregister PROVE UNCHANGED <<op, step, run>>
  BY <1>44, UnregisterDoes
<1>45. ASSUME Foreign PROVE UNCHANGED <<op, step, run>>
  BY <1>45, ForeignDoes
<1> QED
  BY Failures, <1>1, <1>2, <1>3, <1>4, <1>5, <1>6, <1>7, <1>8, <1>9, <1>10, <1>11, <1>12, <1>13, <1>14, <1>15, <1>16, <1>17,
     <1>18, <1>19, <1>20, <1>21, <1>22, <1>23, <1>24, <1>25, <1>26, <1>27, <1>28, <1>29, <1>30, <1>31, <1>32, <1>33, <1>34,
     <1>35, <1>36, <1>37, <1>38, <1>39, <1>40, <1>41, <1>42, <1>43, <1>44, <1>45 DEF Next, Execution

(* An answer is there only during a call, or when its failure ends the execution. *)
LEMMA AnswersStep ==
  ASSUME NoneIsNoOp, IMAPIsProtocol, LimitsAreNat, LocalTypes, OpTypes, RemoteTypes, Control, References, Next
  PROVE  Answers'
<1> USE NoneIsNoOp, IMAPIsProtocol, LimitsAreNat DEF vars, localVars, opVars, bounds, history, remoteVars
<1>1. ASSUME NEW o \in Ops, Execute(o) PROVE Answers'
  BY Running, <1>1, ExecuteDoes DEF Control, OpTypes, Live, Became, Turned, Ended, Dropped, Marked, Moved, Stops, Concluded,
     Answers, Executing, Idle, OnPath, First, After, Calls, Additions, Remote, Transactional, Kinds, Kind, Done, Committed
<1>2. ASSUME Failure PROVE Answers'
  BY <1>2, FailureDoes DEF Answers, Calls, Stops, Idle, Concluded
<1>3. ASSUME Start PROVE Answers'
  BY Running, <1>3, StartDoes DEF Control, OpTypes, Live, Became, Turned, Ended, Dropped, Marked, Moved, Stops, Concluded,
     Answers, Executing, Idle, OnPath, First, After, Calls, Additions, Remote, Transactional, Kinds, Kind, Done, Committed
<1>4. ASSUME Complete PROVE Answers'
  BY <1>4, CompleteDoes DEF Answers, Calls, Stops, Idle
<1>5. ASSUME Begin PROVE Answers'
  BY Running, <1>5, BeginDoes DEF Control, OpTypes, Live, Became, Turned, Ended, Dropped, Marked, Moved, Stops, Concluded,
     Answers, Executing, Idle, OnPath, First, After, Calls, Additions, Remote, Transactional, Kinds, Kind, Done, Committed
<1>6. ASSUME Provider PROVE Answers'
  BY Running, <1>6, ProviderDoes DEF Control, OpTypes, Live, Became, Turned, Ended, Dropped, Marked, Moved, Stops,
     Concluded, Answers, Executing, Idle, OnPath, First, After, Calls, Additions, Remote, Transactional, Kinds, Kind, Done,
     Committed
<1>7. ASSUME Refused PROVE Answers'
  BY Running, <1>7, RefusedDoes DEF Control, OpTypes, Live, Became, Turned, Ended, Dropped, Marked, Moved, Stops, Concluded,
     Answers, Executing, Idle, OnPath, First, After, Calls, Additions, Remote, Transactional, Kinds, Kind, Done, Committed
<1>8. ASSUME Keep PROVE Answers'
  BY Running, <1>8, KeepDoes DEF Control, OpTypes, Live, Became, Turned, Ended, Dropped, Marked, Moved, Stops, Concluded,
     Answers, Executing, Idle, OnPath, First, After, Calls, Additions, Remote, Transactional, Kinds, Kind, Done, Committed
<1>9. ASSUME Record PROVE Answers'
  BY Running, <1>9, RecordDoes DEF Control, OpTypes, Live, Became, Turned, Ended, Dropped, Marked, Moved, Stops, Concluded,
     Answers, Executing, Idle, OnPath, First, After, Calls, Additions, Remote, Transactional, Kinds, Kind, Done, Committed
<1>10. ASSUME GiveUp PROVE Answers'
  BY <1>10, GiveUpDoes DEF Answers, Calls, Stops, Idle, Concluded
<1>11. ASSUME Reserve PROVE Answers'
  BY <1>11, ReserveDoes DEF Control, Answers, OnPath, Calls, Moved
<1>12. ASSUME Confirm PROVE Answers'
  BY <1>12, ConfirmDoes DEF Control, Answers, OnPath, Calls, Moved
<1>13. ASSUME Candidate PROVE Answers'
  BY <1>13, CandidateDoes DEF Control, Answers, OnPath, Calls, Moved
<1>14. ASSUME Verify PROVE Answers'
  BY <1>14, VerifyDoes DEF Control, Answers, OnPath, Calls, Moved
<1>15. ASSUME Activate PROVE Answers'
  BY <1>15, ActivateDoes DEF Control, Answers, OnPath, Calls, Moved
<1>16. ASSUME Revoke PROVE Answers'
  BY Running, <1>16, RevokeDoes DEF Control, OpTypes, Live, Became, Turned, Ended, Dropped, Marked, Moved, Stops, Concluded,
     Answers, Executing, Idle, OnPath, First, After, Calls, Additions, Remote, Transactional, Kinds, Kind, Done, Committed
<1>17. ASSUME Revoked PROVE Answers'
  BY <1>17, RevokedDoes DEF Control, Answers, OnPath, Calls, Moved
<1>18. ASSUME Password PROVE Answers'
  BY <1>18, PasswordDoes DEF Control, Answers, OnPath, Calls, Moved
<1>19. ASSUME Claim PROVE Answers'
  BY <1>19, ClaimDoes DEF Control, Answers, OnPath, Calls, Moved
<1>20. ASSUME Validate PROVE Answers'
  BY <1>20, ValidateDoes DEF Control, Answers, OnPath, Calls, Moved
<1>21. ASSUME Gone PROVE Answers'
  BY Running, <1>21, GoneDoes DEF Control, OpTypes, Live, Became, Turned, Ended, Dropped, Marked, Moved, Stops, Concluded,
     Answers, Executing, Idle, OnPath, First, After, Calls, Additions, Remote, Transactional, Kinds, Kind, Done, Committed
<1>22. ASSUME External PROVE Answers'
  BY <1>22, ExternalDoes DEF Answers, Calls, Stops, Idle
<1>23. ASSUME Check PROVE Answers'
  BY <1>23, CheckDoes DEF Control, Answers, OnPath, Calls, Moved
<1>24. ASSUME SaveEntered PROVE Answers'
  BY <1>24, SaveEnteredDoes DEF Control, Answers, OnPath, Calls, Moved
<1>25. ASSUME Attach PROVE Answers'
  BY <1>25, AttachDoes DEF Control, Answers, OnPath, Calls, Moved
<1>26. ASSUME UpdateEndpoints PROVE Answers'
  BY <1>26, UpdateEndpointsDoes DEF Answers, Calls, Stops, Idle
<1>27. ASSUME Reactivate PROVE Answers'
  BY <1>27, ReactivateDoes DEF Control, Answers, OnPath, Calls, Moved
<1>28. ASSUME ConfigureConnection PROVE Answers'
  <2>1. Stops
    BY <1>28, ConfigureConnectionDoes
  <2> QED BY <2>1 DEF Answers, Calls, Stops, Idle
<1>29. ASSUME Commit PROVE Answers'
  BY Running, <1>29, CommitDoes DEF Control, OpTypes, Live, Became, Turned, Ended, Dropped, Marked, Moved, Stops, Concluded,
     Answers, Executing, Idle, OnPath, First, After, Calls, Additions, Remote, Transactional, Kinds, Kind, Done, Committed
<1>30. ASSUME Interrupt PROVE Answers'
  BY <1>30, InterruptDoes DEF Answers, Calls, Stops, Idle
<1>31. UNCHANGED <<run>> => Answers'
  BY DEF Answers, Control, Calls
<1>32. ASSUME NEW o \in Ops, NEW k \in Kinds, Queue(o, k) PROVE UNCHANGED <<run>>
  BY <1>32, QueueDoes
<1>33. ASSUME NEW o \in Ops, ConfirmExternal(o) PROVE UNCHANGED <<run>>
  BY <1>33, ConfirmExternalDoes
<1>34. ASSUME NEW o \in Ops, ReconcileStep(o) PROVE UNCHANGED <<run>>
  BY <1>34, ReconcileStepDoes
<1>35. ASSUME NEW o \in Ops, Reconcile(o) PROVE UNCHANGED <<run>>
  BY <1>35, ReconcileDoes
<1>36. ASSUME NEW o \in Ops, Retry(o) PROVE UNCHANGED <<run>>
  BY <1>36, RetryDoes
<1>37. ASSUME NEW o \in Ops, Cancel(o) PROVE UNCHANGED <<run>>
  BY <1>37, CancelDoes
<1>38. ASSUME NEW o \in Ops, Report(o) PROVE UNCHANGED <<run>>
  BY <1>38, ReportDoes
<1>39. ASSUME NEW o \in Ops, ClaimSecret(o) PROVE UNCHANGED <<run>>
  BY <1>39, ClaimSecretDoes
<1>40. ASSUME NEW o \in Ops, Expire(o) PROVE UNCHANGED <<run>>
  BY <1>40, ExpireDoes
<1>41. ASSUME Land PROVE UNCHANGED <<run>>
  BY <1>41, LandDoes
<1>42. ASSUME Switch PROVE UNCHANGED <<run>>
  BY <1>42, SwitchDoes
<1>43. ASSUME Suspend PROVE UNCHANGED <<run>>
  BY <1>43, SuspendDoes
<1>44. ASSUME Unregister PROVE UNCHANGED <<run>>
  BY <1>44, UnregisterDoes
<1>45. ASSUME Foreign PROVE UNCHANGED <<run>>
  BY <1>45, ForeignDoes
<1> QED
  BY Failures, <1>1, <1>2, <1>3, <1>4, <1>5, <1>6, <1>7, <1>8, <1>9, <1>10, <1>11, <1>12, <1>13, <1>14, <1>15, <1>16, <1>17,
     <1>18, <1>19, <1>20, <1>21, <1>22, <1>23, <1>24, <1>25, <1>26, <1>27, <1>28, <1>29, <1>30, <1>31, <1>32, <1>33, <1>34,
     <1>35, <1>36, <1>37, <1>38, <1>39, <1>40, <1>41, <1>42, <1>43, <1>44, <1>45 DEF Next, Execution

-----------------------------------------------------------------------------
(* Steps that are under way. *)

(* A call is made for a step that is running. *)
LEMMA CallingStep ==
  ASSUME NoneIsNoOp, IMAPIsProtocol, LimitsAreNat, LocalTypes, OpTypes, RemoteTypes, Control, References, Next
  PROVE  Calling'
<1> USE NoneIsNoOp, IMAPIsProtocol, LimitsAreNat DEF vars, localVars, opVars, bounds, history, remoteVars
<1>1. ASSUME NEW o \in Ops, Execute(o) PROVE Calling'
  BY <1>1, ExecuteDoes DEF Calling, Calls
<1>2. ASSUME NEW o \in Ops, ReconcileStep(o) PROVE Calling'
  <2>1. run' = run /\ run \in RunRow /\ (run.op # None => run.op # o)
    BY <1>2, ReconcileStepDoes DEF OpTypes, Control, Executing
  <2>2. \A p \in Ops, s \in Steps : p # o => step'[p][s] = step[p][s]
    BY <1>2, ReconcileStepDoes DEF Marked
  <2>3. run.op # None /\ run.pc \in Calls => run.op \in Ops /\ Step \in Steps
    BY StepIsStep
  <2> QED BY <2>1, <2>2, <2>3 DEF Calling, Control, Step
<1>3. ASSUME NEW o \in Ops, Retry(o) PROVE Calling'
  <2>1. run' = run /\ run \in RunRow /\ (run.op # None => run.op # o)
    BY <1>3, RetryDoes DEF OpTypes, Control, Executing
  <2>2. \A p \in Ops, s \in Steps : p # o => step'[p][s] = step[p][s]
    BY <1>3, RetryDoes DEF Marked
  <2>3. run.op # None /\ run.pc \in Calls => run.op \in Ops /\ Step \in Steps
    BY StepIsStep
  <2> QED BY <2>1, <2>2, <2>3 DEF Calling, Control, Step
<1>4. ASSUME NEW o \in Ops, Report(o) PROVE Calling'
  <2>1. run' = run /\ run \in RunRow /\ (run.op # None => run.op # o)
    BY <1>4, ReportDoes DEF OpTypes, Control, Executing
  <2>2. \A p \in Ops, s \in Steps : p # o => step'[p][s] = step[p][s]
    BY <1>4, ReportDoes DEF Marked
  <2>3. run.op # None /\ run.pc \in Calls => run.op \in Ops /\ Step \in Steps
    BY StepIsStep
  <2> QED BY <2>1, <2>2, <2>3 DEF Calling, Control, Step
<1>5. ASSUME Failure PROVE Calling'
  BY <1>5, FailureDoes DEF Calling, Stops, Idle, Concluded
<1>6. ASSUME Start PROVE Calling'
  BY <1>6, StartDoes DEF Calling, Calls, Control, Answers, Moved
<1>7. ASSUME Complete PROVE Calling'
  BY <1>7, CompleteDoes DEF Calling, Stops, Idle
<1>8. ASSUME Begin PROVE Calling'
  BY <1>8, BeginDoes DEF Calling, Calls, Control, Answers, Moved, Step, Concluded, Stops, Idle, After, Marked
<1>9. ASSUME Provider PROVE Calling'
  BY <1>9, ProviderDoes DEF Calling, Calls, Control, Answers, Moved, Step
<1>10. ASSUME Refused PROVE Calling'
  BY <1>10, RefusedDoes DEF Calling, Calls, Control, Answers, Moved, Step
<1>11. ASSUME Keep PROVE Calling'
  BY <1>11, KeepDoes DEF Calling, Calls, Control, Answers, Moved, Step
<1>12. ASSUME Record PROVE Calling'
  BY <1>12, RecordDoes DEF Calling, Calls, Control, Answers, Moved, After
<1>13. ASSUME GiveUp PROVE Calling'
  BY <1>13, GiveUpDoes DEF Calling, Stops, Idle, Concluded
<1>14. ASSUME Reserve PROVE Calling'
  BY <1>14, ReserveDoes DEF Calling, Calls, Control, Answers, Moved
<1>15. ASSUME Confirm PROVE Calling'
  BY <1>15, ConfirmDoes DEF Calling, Calls, Control, Answers, Moved
<1>16. ASSUME Candidate PROVE Calling'
  BY <1>16, CandidateDoes DEF Calling, Calls, Control, Answers, Moved
<1>17. ASSUME Verify PROVE Calling'
  BY <1>17, VerifyDoes DEF Calling, Calls, Control, Answers, Moved
<1>18. ASSUME Activate PROVE Calling'
  BY <1>18, ActivateDoes DEF Calling, Calls, Control, Answers, Moved
<1>19. ASSUME Revoke PROVE Calling'
  BY <1>19, RevokeDoes DEF Calling, Calls, Control, Answers, Moved
<1>20. ASSUME Revoked PROVE Calling'
  BY <1>20, RevokedDoes DEF Calling, Calls, Control, Answers, Moved
<1>21. ASSUME Password PROVE Calling'
  BY <1>21, PasswordDoes DEF Calling, Calls, Control, Answers, Moved
<1>22. ASSUME Claim PROVE Calling'
  BY <1>22, ClaimDoes DEF Calling, Calls, Control, Answers, Moved
<1>23. ASSUME Validate PROVE Calling'
  BY <1>23, ValidateDoes DEF Calling, Calls, Control, Answers, Moved
<1>24. ASSUME Gone PROVE Calling'
  BY <1>24, GoneDoes DEF Calling, Calls, Moved, Concluded, Stops, Idle
<1>25. ASSUME External PROVE Calling'
  BY <1>25, ExternalDoes DEF Calling, Stops, Idle
<1>26. ASSUME Check PROVE Calling'
  BY <1>26, CheckDoes DEF Calling, Calls, Control, Answers, Moved
<1>27. ASSUME SaveEntered PROVE Calling'
  BY <1>27, SaveEnteredDoes DEF Calling, Calls, Control, Answers, Moved
<1>28. ASSUME Attach PROVE Calling'
  BY <1>28, AttachDoes DEF Calling, Calls, Control, Answers, Moved
<1>29. ASSUME UpdateEndpoints PROVE Calling'
  BY <1>29, UpdateEndpointsDoes DEF Calling, Stops, Idle
<1>30. ASSUME Reactivate PROVE Calling'
  BY <1>30, ReactivateDoes DEF Calling, Calls, Control, Answers, Moved
<1>31. ASSUME ConfigureConnection PROVE Calling'
  BY <1>31, ConfigureConnectionDoes DEF Calling, Stops, Idle
<1>32. ASSUME Commit PROVE Calling'
  BY <1>32, CommitDoes DEF Calling, Calls, Moved, Stops, Idle
<1>33. ASSUME Interrupt PROVE Calling'
  BY <1>33, InterruptDoes DEF Calling, Stops, Idle
<1>34. UNCHANGED <<step, run>> => Calling'
  BY DEF Calling, Control, Step
<1>35. ASSUME NEW o \in Ops, NEW k \in Kinds, Queue(o, k) PROVE UNCHANGED <<step, run>>
  BY <1>35, QueueDoes
<1>36. ASSUME NEW o \in Ops, ConfirmExternal(o) PROVE UNCHANGED <<step, run>>
  BY <1>36, ConfirmExternalDoes
<1>37. ASSUME NEW o \in Ops, Reconcile(o) PROVE UNCHANGED <<step, run>>
  BY <1>37, ReconcileDoes
<1>38. ASSUME NEW o \in Ops, Cancel(o) PROVE UNCHANGED <<step, run>>
  BY <1>38, CancelDoes
<1>39. ASSUME NEW o \in Ops, ClaimSecret(o) PROVE UNCHANGED <<step, run>>
  BY <1>39, ClaimSecretDoes
<1>40. ASSUME NEW o \in Ops, Expire(o) PROVE UNCHANGED <<step, run>>
  BY <1>40, ExpireDoes
<1>41. ASSUME Land PROVE UNCHANGED <<step, run>>
  BY <1>41, LandDoes
<1>42. ASSUME Switch PROVE UNCHANGED <<step, run>>
  BY <1>42, SwitchDoes
<1>43. ASSUME Suspend PROVE UNCHANGED <<step, run>>
  BY <1>43, SuspendDoes
<1>44. ASSUME Unregister PROVE UNCHANGED <<step, run>>
  BY <1>44, UnregisterDoes
<1>45. ASSUME Foreign PROVE UNCHANGED <<step, run>>
  BY <1>45, ForeignDoes
<1> QED
  BY Failures, <1>1, <1>2, <1>3, <1>4, <1>5, <1>6, <1>7, <1>8, <1>9, <1>10, <1>11, <1>12, <1>13, <1>14, <1>15, <1>16, <1>17,
     <1>18, <1>19, <1>20, <1>21, <1>22, <1>23, <1>24, <1>25, <1>26, <1>27, <1>28, <1>29, <1>30, <1>31, <1>32, <1>33, <1>34,
     <1>35, <1>36, <1>37, <1>38, <1>39, <1>40, <1>41, <1>42, <1>43, <1>44, <1>45 DEF Next, Execution

(* An operation that nobody asked for has no steps. *)
LEMMA UntouchedStep ==
  ASSUME NoneIsNoOp, IMAPIsProtocol, LimitsAreNat, LocalTypes, OpTypes, RemoteTypes, Control, References, Next
  PROVE  Untouched'
<1> USE NoneIsNoOp, IMAPIsProtocol, LimitsAreNat DEF vars, localVars, opVars, bounds, history, remoteVars
<1>1. ASSUME NEW o \in Ops, NEW k \in Kinds, Queue(o, k) PROVE Untouched'
  <2>1. PICK r \in Requests(k) : r \in Request /\ Became(o, r, "queued", 0, 0, 0, 0, FALSE)
    BY <1>1, QueueDoes
  <2>2. /\ op[o].status = "none" /\ (\A p \in Ops : op[p].status \notin Live) /\ UNCHANGED <<run, step>>
    BY <1>1, QueueDoes
  <2>5. op' \in [Ops -> OpRow] /\ op'[o].status # "none" /\ \A p \in Ops \ {o} : op'[p] = op[p]
    BY <2>1 DEF Became, Turned, Ended, Dropped, OpTypes, Live, Control, Untouched
  <2>6. step' \in [Ops -> [Steps -> StepStatus]] /\ \A p \in Ops \ {o}, s \in Steps : step'[p][s] = step[p][s]
    BY <2>2 DEF Marked, OpTypes
  <2> QED BY <2>5, <2>6 DEF OpTypes, Control, Untouched, NotRun
<1>2. ASSUME NEW o \in Ops, Execute(o) PROVE Untouched'
  <2>5. op' \in [Ops -> OpRow] /\ op'[o].status # "none" /\ \A p \in Ops \ {o} : op'[p] = op[p]
    BY <1>2, ExecuteDoes DEF Became, Turned, Ended, Dropped, OpTypes, Live, Control, Untouched
  <2>6. step' \in [Ops -> [Steps -> StepStatus]] /\ \A p \in Ops \ {o}, s \in Steps : step'[p][s] = step[p][s]
    BY <1>2, ExecuteDoes DEF Marked, OpTypes
  <2> QED BY <2>5, <2>6 DEF OpTypes, Control, Untouched, NotRun
<1>3. ASSUME NEW o \in Ops, ConfirmExternal(o) PROVE Untouched'
  <2>5. op' \in [Ops -> OpRow] /\ op'[o].status # "none" /\ \A p \in Ops \ {o} : op'[p] = op[p]
    BY <1>3, ConfirmExternalDoes DEF Became, Turned, Ended, Dropped, OpTypes, Live, Control, Untouched
  <2>6. step' \in [Ops -> [Steps -> StepStatus]] /\ \A p \in Ops \ {o}, s \in Steps : step'[p][s] = step[p][s]
    BY <1>3, ConfirmExternalDoes DEF Marked, OpTypes
  <2> QED BY <2>5, <2>6 DEF OpTypes, Control, Untouched, NotRun
<1>4. ASSUME NEW o \in Ops, ReconcileStep(o) PROVE Untouched'
  <2>5. op' \in [Ops -> OpRow] /\ op'[o].status # "none" /\ \A p \in Ops \ {o} : op'[p] = op[p]
    BY <1>4, ReconcileStepDoes DEF OpTypes, Became, Turned, Ended, Dropped, OpTypes, Live, Control, Untouched
  <2>6. step' \in [Ops -> [Steps -> StepStatus]] /\ \A p \in Ops \ {o}, s \in Steps : step'[p][s] = step[p][s]
    BY <1>4, ReconcileStepDoes DEF Marked, OpTypes
  <2> QED BY <2>5, <2>6 DEF OpTypes, Control, Untouched, NotRun
<1>5. ASSUME NEW o \in Ops, Reconcile(o) PROVE Untouched'
  <2>5. op' \in [Ops -> OpRow] /\ op'[o].status # "none" /\ \A p \in Ops \ {o} : op'[p] = op[p]
    BY <1>5, ReconcileDoes DEF Became, Turned, Ended, Dropped, OpTypes, Live, Control, Untouched
  <2>6. step' \in [Ops -> [Steps -> StepStatus]] /\ \A p \in Ops \ {o}, s \in Steps : step'[p][s] = step[p][s]
    BY <1>5, ReconcileDoes DEF Marked, OpTypes
  <2> QED BY <2>5, <2>6 DEF OpTypes, Control, Untouched, NotRun
<1>6. ASSUME NEW o \in Ops, Retry(o) PROVE Untouched'
  <2>5. op' \in [Ops -> OpRow] /\ op'[o].status # "none" /\ \A p \in Ops \ {o} : op'[p] = op[p]
    BY <1>6, RetryDoes DEF Became, Turned, Ended, Dropped, OpTypes, Live, Control, Untouched
  <2>6. step' \in [Ops -> [Steps -> StepStatus]] /\ \A p \in Ops \ {o}, s \in Steps : step'[p][s] = step[p][s]
    BY <1>6, RetryDoes DEF Marked, OpTypes
  <2> QED BY <2>5, <2>6 DEF OpTypes, Control, Untouched, NotRun
<1>7. ASSUME NEW o \in Ops, Cancel(o) PROVE Untouched'
  <2>5. op' \in [Ops -> OpRow] /\ op'[o].status # "none" /\ \A p \in Ops \ {o} : op'[p] = op[p]
    BY <1>7, CancelDoes DEF Became, Turned, Ended, Dropped, OpTypes, Live, Control, Untouched
  <2>6. step' \in [Ops -> [Steps -> StepStatus]] /\ \A p \in Ops \ {o}, s \in Steps : step'[p][s] = step[p][s]
    BY <1>7, CancelDoes DEF Marked, OpTypes
  <2> QED BY <2>5, <2>6 DEF OpTypes, Control, Untouched, NotRun
<1>8. ASSUME NEW o \in Ops, Report(o) PROVE Untouched'
  <2>5. op' \in [Ops -> OpRow] /\ op'[o].status # "none" /\ \A p \in Ops \ {o} : op'[p] = op[p]
    BY <1>8, ReportDoes DEF Became, Turned, Ended, Dropped, OpTypes, Live, Control, Untouched
  <2>6. step' \in [Ops -> [Steps -> StepStatus]] /\ \A p \in Ops \ {o}, s \in Steps : step'[p][s] = step[p][s]
    BY <1>8, ReportDoes DEF Marked, OpTypes
  <2> QED BY <2>5, <2>6 DEF OpTypes, Control, Untouched, NotRun
<1>9. ASSUME NEW o \in Ops, ClaimSecret(o) PROVE Untouched'
  <2>1. step' = step /\ \A p \in Ops : op'[p].status = op[p].status
    BY <1>9, ClaimSecretDoes DEF Became
  <2> QED BY <2>1 DEF Control, Untouched
<1>10. ASSUME NEW o \in Ops, Expire(o) PROVE Untouched'
  <2>1. step' = step /\ \A p \in Ops : op'[p].status = op[p].status
    BY <1>10, ExpireDoes DEF Became
  <2> QED BY <2>1 DEF Control, Untouched
<1>11. ASSUME Failure PROVE Untouched'
  <2>1. run.op \in Ops /\ op[run.op].status # "none" /\ \A p \in Ops : op'[p].status = "none" => p # run.op /\ op[p].status = "none"
    BY <1>11, FailureDoes, Running DEF Control, Executing, Became, Turned, Ended, Concluded
  <2>2. step' \in [Ops -> [Steps -> StepStatus]] /\ \A p \in Ops \ {run.op}, s \in Steps : step'[p][s] = step[p][s]
    BY <1>11, FailureDoes DEF Marked, OpTypes
  <2> QED BY <2>1, <2>2 DEF OpTypes, Control, Untouched, NotRun
<1>12. ASSUME Complete PROVE Untouched'
  <2>1. run.op \in Ops /\ op[run.op].status # "none" /\ \A p \in Ops : op'[p].status = "none" => p # run.op /\ op[p].status = "none"
    BY <1>12, CompleteDoes, Running DEF Control, Executing, Became, Turned, Ended, Concluded
  <2>2. step' \in [Ops -> [Steps -> StepStatus]] /\ \A p \in Ops \ {run.op}, s \in Steps : step'[p][s] = step[p][s]
    BY <1>12, CompleteDoes DEF Marked, OpTypes
  <2> QED BY <2>1, <2>2 DEF OpTypes, Control, Untouched, NotRun
<1>13. ASSUME Begin PROVE Untouched'
  <2>1. run.op \in Ops /\ op[run.op].status # "none" /\ \A p \in Ops : op'[p].status = "none" => p # run.op /\ op[p].status = "none"
    BY <1>13, BeginDoes, Running DEF Control, Executing, Became, Turned, Ended, Concluded
  <2>2. step' \in [Ops -> [Steps -> StepStatus]] /\ \A p \in Ops \ {run.op}, s \in Steps : step'[p][s] = step[p][s]
    BY <1>13, BeginDoes DEF Marked, OpTypes
  <2> QED BY <2>1, <2>2 DEF OpTypes, Control, Untouched, NotRun
<1>14. ASSUME Keep PROVE Untouched'
  <2>1. run.op \in Ops /\ op[run.op].status # "none" /\ \A p \in Ops : op'[p].status = "none" => p # run.op /\ op[p].status = "none"
    BY <1>14, KeepDoes, Running DEF Control, Executing, Became, Turned, Ended, Concluded
  <2>2. step' \in [Ops -> [Steps -> StepStatus]] /\ \A p \in Ops \ {run.op}, s \in Steps : step'[p][s] = step[p][s]
    BY <1>14, KeepDoes DEF Marked, OpTypes
  <2> QED BY <2>1, <2>2 DEF OpTypes, Control, Untouched, NotRun
<1>15. ASSUME Record PROVE Untouched'
  <2>1. run.op \in Ops /\ op[run.op].status # "none" /\ \A p \in Ops : op'[p].status = "none" => p # run.op /\ op[p].status = "none"
    BY <1>15, RecordDoes, Running DEF Control, Executing, Became, Turned, Ended, Concluded
  <2>2. step' \in [Ops -> [Steps -> StepStatus]] /\ \A p \in Ops \ {run.op}, s \in Steps : step'[p][s] = step[p][s]
    BY <1>15, RecordDoes DEF Marked, OpTypes
  <2> QED BY <2>1, <2>2 DEF OpTypes, Control, Untouched, NotRun
<1>16. ASSUME GiveUp PROVE Untouched'
  <2>1. run.op \in Ops /\ op[run.op].status # "none" /\ \A p \in Ops : op'[p].status = "none" => p # run.op /\ op[p].status = "none"
    BY <1>16, GiveUpDoes, Running DEF Control, Executing, Became, Turned, Ended, Concluded
  <2>2. step' \in [Ops -> [Steps -> StepStatus]] /\ \A p \in Ops \ {run.op}, s \in Steps : step'[p][s] = step[p][s]
    BY <1>16, GiveUpDoes DEF Marked, OpTypes
  <2> QED BY <2>1, <2>2 DEF OpTypes, Control, Untouched, NotRun
<1>17. ASSUME Reserve PROVE Untouched'
  <2>1. run.op \in Ops /\ op[run.op].status # "none" /\ \A p \in Ops : op'[p].status = "none" => p # run.op /\ op[p].status = "none"
    BY <1>17, ReserveDoes, Running DEF Control, Executing, Became, Turned, Ended, Concluded
  <2>2. step' \in [Ops -> [Steps -> StepStatus]] /\ \A p \in Ops \ {run.op}, s \in Steps : step'[p][s] = step[p][s]
    BY <1>17, ReserveDoes DEF Marked, OpTypes
  <2> QED BY <2>1, <2>2 DEF OpTypes, Control, Untouched, NotRun
<1>18. ASSUME Activate PROVE Untouched'
  <2>1. run.op \in Ops /\ op[run.op].status # "none" /\ \A p \in Ops : op'[p].status = "none" => p # run.op /\ op[p].status = "none"
    BY <1>18, ActivateDoes, Running DEF Control, Executing, Became, Turned, Ended, Concluded
  <2>2. step' \in [Ops -> [Steps -> StepStatus]] /\ \A p \in Ops \ {run.op}, s \in Steps : step'[p][s] = step[p][s]
    BY <1>18, ActivateDoes DEF Marked, OpTypes
  <2> QED BY <2>1, <2>2 DEF OpTypes, Control, Untouched, NotRun
<1>19. ASSUME Password PROVE Untouched'
  <2>1. run.op \in Ops /\ op[run.op].status # "none" /\ \A p \in Ops : op'[p].status = "none" => p # run.op /\ op[p].status = "none"
    BY <1>19, PasswordDoes, Running DEF Control, Executing, Became, Turned, Ended, Concluded
  <2>2. step' \in [Ops -> [Steps -> StepStatus]] /\ \A p \in Ops \ {run.op}, s \in Steps : step'[p][s] = step[p][s]
    BY <1>19, PasswordDoes DEF Marked, OpTypes
  <2> QED BY <2>1, <2>2 DEF OpTypes, Control, Untouched, NotRun
<1>20. ASSUME Claim PROVE Untouched'
  <2>1. run.op \in Ops /\ op[run.op].status # "none" /\ \A p \in Ops : op'[p].status = "none" => p # run.op /\ op[p].status = "none"
    BY <1>20, ClaimDoes, Running DEF Control, Executing, Became, Turned, Ended, Concluded
  <2>2. step' \in [Ops -> [Steps -> StepStatus]] /\ \A p \in Ops \ {run.op}, s \in Steps : step'[p][s] = step[p][s]
    BY <1>20, ClaimDoes DEF Marked, OpTypes
  <2> QED BY <2>1, <2>2 DEF OpTypes, Control, Untouched, NotRun
<1>21. ASSUME Gone PROVE Untouched'
  <2>1. run.op \in Ops /\ op[run.op].status # "none" /\ \A p \in Ops : op'[p].status = "none" => p # run.op /\ op[p].status = "none"
    BY <1>21, GoneDoes, Running DEF Control, Executing, Became, Turned, Ended, Concluded
  <2>2. step' \in [Ops -> [Steps -> StepStatus]] /\ \A p \in Ops \ {run.op}, s \in Steps : step'[p][s] = step[p][s]
    BY <1>21, GoneDoes DEF Marked, OpTypes
  <2> QED BY <2>1, <2>2 DEF OpTypes, Control, Untouched, NotRun
<1>22. ASSUME External PROVE Untouched'
  <2>1. run.op \in Ops /\ op[run.op].status # "none" /\ \A p \in Ops : op'[p].status = "none" => p # run.op /\ op[p].status = "none"
    BY <1>22, ExternalDoes, Running DEF Control, Executing, Became, Turned, Ended, Concluded
  <2>2. step' \in [Ops -> [Steps -> StepStatus]] /\ \A p \in Ops \ {run.op}, s \in Steps : step'[p][s] = step[p][s]
    BY <1>22, ExternalDoes DEF Marked, OpTypes
  <2> QED BY <2>1, <2>2 DEF OpTypes, Control, Untouched, NotRun
<1>23. ASSUME SaveEntered PROVE Untouched'
  <2>1. run.op \in Ops /\ op[run.op].status # "none" /\ \A p \in Ops : op'[p].status = "none" => p # run.op /\ op[p].status = "none"
    BY <1>23, SaveEnteredDoes, Running DEF Control, Executing, Became, Turned, Ended, Concluded
  <2>2. step' \in [Ops -> [Steps -> StepStatus]] /\ \A p \in Ops \ {run.op}, s \in Steps : step'[p][s] = step[p][s]
    BY <1>23, SaveEnteredDoes DEF Marked, OpTypes
  <2> QED BY <2>1, <2>2 DEF OpTypes, Control, Untouched, NotRun
<1>24. ASSUME Attach PROVE Untouched'
  <2>1. run.op \in Ops /\ op[run.op].status # "none" /\ \A p \in Ops : op'[p].status = "none" => p # run.op /\ op[p].status = "none"
    BY <1>24, AttachDoes, Running DEF Control, Executing, Became, Turned, Ended, Concluded
  <2>2. step' \in [Ops -> [Steps -> StepStatus]] /\ \A p \in Ops \ {run.op}, s \in Steps : step'[p][s] = step[p][s]
    BY <1>24, AttachDoes DEF Marked, OpTypes
  <2> QED BY <2>1, <2>2 DEF OpTypes, Control, Untouched, NotRun
<1>25. ASSUME UpdateEndpoints PROVE Untouched'
  <2>1. run.op \in Ops /\ op[run.op].status # "none" /\ \A p \in Ops : op'[p].status = "none" => p # run.op /\ op[p].status = "none"
    BY <1>25, UpdateEndpointsDoes, Running DEF Control, Executing, Became, Turned, Ended, Concluded
  <2>2. step' \in [Ops -> [Steps -> StepStatus]] /\ \A p \in Ops \ {run.op}, s \in Steps : step'[p][s] = step[p][s]
    BY <1>25, UpdateEndpointsDoes DEF Marked, OpTypes
  <2> QED BY <2>1, <2>2 DEF OpTypes, Control, Untouched, NotRun
<1>26. ASSUME Reactivate PROVE Untouched'
  <2>1. run.op \in Ops /\ op[run.op].status # "none" /\ \A p \in Ops : op'[p].status = "none" => p # run.op /\ op[p].status = "none"
    BY <1>26, ReactivateDoes, Running DEF Control, Executing, Became, Turned, Ended, Concluded
  <2>2. step' \in [Ops -> [Steps -> StepStatus]] /\ \A p \in Ops \ {run.op}, s \in Steps : step'[p][s] = step[p][s]
    BY <1>26, ReactivateDoes DEF Marked, OpTypes
  <2> QED BY <2>1, <2>2 DEF OpTypes, Control, Untouched, NotRun
<1>27. ASSUME ConfigureConnection PROVE Untouched'
  <2>1. run.op \in Ops /\ op[run.op].status # "none" /\ \A p \in Ops : op'[p].status = "none" => p # run.op /\ op[p].status = "none"
    BY <1>27, ConfigureConnectionDoes, Running DEF Control, Executing, Became, Turned, Ended, Concluded
  <2>2. step' \in [Ops -> [Steps -> StepStatus]] /\ \A p \in Ops \ {run.op}, s \in Steps : step'[p][s] = step[p][s]
    BY <1>27, ConfigureConnectionDoes DEF Marked, OpTypes
  <2> QED BY <2>1, <2>2 DEF OpTypes, Control, Untouched, NotRun
<1>28. ASSUME Commit PROVE Untouched'
  <2>1. run.op \in Ops /\ op[run.op].status # "none" /\ \A p \in Ops : op'[p].status = "none" => p # run.op /\ op[p].status = "none"
    BY <1>28, CommitDoes, Running DEF Control, Executing, Became, Turned, Ended, Concluded
  <2>2. step' \in [Ops -> [Steps -> StepStatus]] /\ \A p \in Ops \ {run.op}, s \in Steps : step'[p][s] = step[p][s]
    BY <1>28, CommitDoes DEF Marked, OpTypes
  <2> QED BY <2>1, <2>2 DEF OpTypes, Control, Untouched, NotRun
<1>29. ASSUME Interrupt PROVE Untouched'
  <2>1. run.op \in Ops /\ op[run.op].status # "none" /\ \A p \in Ops : op'[p].status = "none" => p # run.op /\ op[p].status = "none"
    BY <1>29, InterruptDoes, Running DEF Control, Executing, Became, Turned, Ended, Concluded
  <2>2. step' \in [Ops -> [Steps -> StepStatus]] /\ \A p \in Ops \ {run.op}, s \in Steps : step'[p][s] = step[p][s]
    BY <1>29, InterruptDoes DEF Marked, OpTypes
  <2> QED BY <2>1, <2>2 DEF OpTypes, Control, Untouched, NotRun
<1>30. UNCHANGED <<op, step>> => Untouched'
  BY DEF Control, Untouched
<1>31. ASSUME Start PROVE UNCHANGED <<op, step>>
  BY <1>31, StartDoes
<1>32. ASSUME Provider PROVE UNCHANGED <<op, step>>
  BY <1>32, ProviderDoes
<1>33. ASSUME Refused PROVE UNCHANGED <<op, step>>
  BY <1>33, RefusedDoes
<1>34. ASSUME Confirm PROVE UNCHANGED <<op, step>>
  BY <1>34, ConfirmDoes
<1>35. ASSUME Candidate PROVE UNCHANGED <<op, step>>
  BY <1>35, CandidateDoes
<1>36. ASSUME Verify PROVE UNCHANGED <<op, step>>
  BY <1>36, VerifyDoes
<1>37. ASSUME Revoke PROVE UNCHANGED <<op, step>>
  BY <1>37, RevokeDoes
<1>38. ASSUME Revoked PROVE UNCHANGED <<op, step>>
  BY <1>38, RevokedDoes
<1>39. ASSUME Validate PROVE UNCHANGED <<op, step>>
  BY <1>39, ValidateDoes
<1>40. ASSUME Check PROVE UNCHANGED <<op, step>>
  BY <1>40, CheckDoes
<1>41. ASSUME Land PROVE UNCHANGED <<op, step>>
  BY <1>41, LandDoes
<1>42. ASSUME Switch PROVE UNCHANGED <<op, step>>
  BY <1>42, SwitchDoes
<1>43. ASSUME Suspend PROVE UNCHANGED <<op, step>>
  BY <1>43, SuspendDoes
<1>44. ASSUME Unregister PROVE UNCHANGED <<op, step>>
  BY <1>44, UnregisterDoes
<1>45. ASSUME Foreign PROVE UNCHANGED <<op, step>>
  BY <1>45, ForeignDoes
<1> QED
  BY Failures, <1>1, <1>2, <1>3, <1>4, <1>5, <1>6, <1>7, <1>8, <1>9, <1>10, <1>11, <1>12, <1>13, <1>14, <1>15, <1>16, <1>17,
     <1>18, <1>19, <1>20, <1>21, <1>22, <1>23, <1>24, <1>25, <1>26, <1>27, <1>28, <1>29, <1>30, <1>31, <1>32, <1>33, <1>34,
     <1>35, <1>36, <1>37, <1>38, <1>39, <1>40, <1>41, <1>42, <1>43, <1>44, <1>45 DEF Next, Execution

(* What became of a step is open while it is made, or its operation is unknown. *)
LEMMA SettlingStep ==
  ASSUME NoneIsNoOp, IMAPIsProtocol, LimitsAreNat, LocalTypes, OpTypes, RemoteTypes, Control, References, Next
  PROVE  Settling'
<1> USE NoneIsNoOp, IMAPIsProtocol, LimitsAreNat DEF vars, localVars, opVars, bounds, history, remoteVars
<1>1. ASSUME NEW o \in Ops, NEW k \in Kinds, Queue(o, k) PROVE Settling'
  <2>1. PICK r \in Requests(k) : r \in Request /\ Became(o, r, "queued", 0, 0, 0, 0, FALSE)
    BY <1>1, QueueDoes
  <2>2. /\ op[o].status = "none" /\ (\A p \in Ops : op[p].status \notin Live) /\ UNCHANGED <<run, step>>
    BY <1>1, QueueDoes
  <2>3. step[o] = NotRun /\ \A p \in Ops \ {o} : op'[p] = op[p]
    BY <2>1, <2>2 DEF Control, Untouched, Became
  <2>4. \A s \in Steps : step[o][s] \notin Unsure
    BY <2>3 DEF NotRun, Unsure
  <2> QED BY <2>2, <2>3, <2>4 DEF Control, Settling, Step
<1>2. ASSUME NEW o \in Ops, Execute(o) PROVE Settling'
  <2>1. \A s \in Steps : step[o][s] \notin Unsure
    BY <1>2, ExecuteDoes DEF Control, Settling
  <2>2. \A p \in Ops \ {o}, s \in Steps : step[p][s] \in Unsure => op[p].status = "unknown"
    BY <1>2, ExecuteDoes, NoneIsNoOp DEF Control, Settling, Executing, Idle
  <2> QED BY <2>1, <2>2, <1>2, ExecuteDoes DEF Settling, Turned, Became
<1>3. ASSUME NEW o \in Ops, ConfirmExternal(o) PROVE Settling'
  <2>1. \A s \in Steps : step[o][s] \notin Unsure
    BY <1>3, ConfirmExternalDoes DEF Control, Settling
  <2>2. run' = run /\ \A p \in Ops \ {o} : op'[p].status = op[p].status
    BY <1>3, ConfirmExternalDoes DEF Ended, Turned, Dropped, Became
  <2>3. \A p \in Ops \ {o}, s \in Steps : step'[p][s] = step[p][s]
    BY <1>3, ConfirmExternalDoes DEF Marked
  <2> QED BY <1>3, ConfirmExternalDoes, <2>1, <2>2, <2>3 DEF Control, Settling, Step
<1>4. ASSUME NEW o \in Ops, ReconcileStep(o) PROVE Settling'
  <2>1. \A s \in Steps : step'[o][s] \in Unsure => step[o][s] \in Unsure
    BY <1>4, ReconcileStepDoes DEF Unresolved, Unsure, Marked
  <2>2. run' = run /\ op'[o].status = op[o].status /\ \A p \in Ops \ {o} : op'[p].status = op[p].status
    BY <1>4, ReconcileStepDoes DEF Ended, Turned, Dropped, Became
  <2>3. \A p \in Ops \ {o}, s \in Steps : step'[p][s] = step[p][s]
    BY <1>4, ReconcileStepDoes DEF Marked
  <2> QED BY <1>4, ReconcileStepDoes, <2>1, <2>2, <2>3 DEF Control, Settling, Step
<1>5. ASSUME NEW o \in Ops, Reconcile(o) PROVE Settling'
  <2>1. \A s \in Steps : step[o][s] \notin Unsure
    BY <1>5, ReconcileDoes DEF Unresolved, Unsure
  <2>2. run' = run /\ \A p \in Ops \ {o} : op'[p].status = op[p].status
    BY <1>5, ReconcileDoes DEF Ended, Turned, Dropped, Became
  <2>3. \A p \in Ops \ {o}, s \in Steps : step'[p][s] = step[p][s]
    BY <1>5, ReconcileDoes DEF Marked
  <2> QED BY <1>5, ReconcileDoes, <2>1, <2>2, <2>3 DEF Control, Settling, Step
<1>6. ASSUME NEW o \in Ops, Retry(o) PROVE Settling'
  <2>1. \A s \in Steps : step'[o][s] \notin Unsure
    BY <1>6, RetryDoes DEF Unresolved, Unsure, Marked
  <2>2. run' = run /\ \A p \in Ops \ {o} : op'[p].status = op[p].status
    BY <1>6, RetryDoes DEF Ended, Turned, Dropped, Became
  <2>3. \A p \in Ops \ {o}, s \in Steps : step'[p][s] = step[p][s]
    BY <1>6, RetryDoes DEF Marked
  <2> QED BY <1>6, RetryDoes, <2>1, <2>2, <2>3 DEF Control, Settling, Step
<1>7. ASSUME NEW o \in Ops, Cancel(o) PROVE Settling'
  <2>1. \A s \in Steps : step[o][s] \notin Unsure
    BY <1>7, CancelDoes DEF Unresolved, Unsure
  <2>2. run' = run /\ \A p \in Ops \ {o} : op'[p].status = op[p].status
    BY <1>7, CancelDoes DEF Ended, Turned, Dropped, Became
  <2>3. \A p \in Ops \ {o}, s \in Steps : step'[p][s] = step[p][s]
    BY <1>7, CancelDoes DEF Marked
  <2> QED BY <1>7, CancelDoes, <2>1, <2>2, <2>3 DEF Control, Settling, Step
<1>8. ASSUME NEW o \in Ops, Report(o) PROVE Settling'
  <2>1. \A s \in Steps : step'[o][s] \notin Unsure
    BY <1>8, ReportDoes DEF Unresolved, Unsure, Marked
  <2>2. run' = run /\ \A p \in Ops \ {o} : op'[p].status = op[p].status
    BY <1>8, ReportDoes DEF Ended, Turned, Dropped, Became
  <2>3. \A p \in Ops \ {o}, s \in Steps : step'[p][s] = step[p][s]
    BY <1>8, ReportDoes DEF Marked
  <2> QED BY <1>8, ReportDoes, <2>1, <2>2, <2>3 DEF Control, Settling, Step
<1>9. ASSUME NEW o \in Ops, ClaimSecret(o) PROVE Settling'
  <2>1. \A s \in Steps : step'[o][s] = step[o][s]
    BY <1>9, ClaimSecretDoes DEF Unresolved, Unsure, Marked
  <2>2. run' = run /\ op'[o].status = op[o].status /\ \A p \in Ops \ {o} : op'[p].status = op[p].status
    BY <1>9, ClaimSecretDoes DEF Ended, Turned, Dropped, Became
  <2>3. \A p \in Ops \ {o}, s \in Steps : step'[p][s] = step[p][s]
    BY <1>9, ClaimSecretDoes DEF Marked
  <2> QED BY <1>9, ClaimSecretDoes, <2>1, <2>2, <2>3 DEF Control, Settling, Step
<1>10. ASSUME NEW o \in Ops, Expire(o) PROVE Settling'
  <2>1. \A s \in Steps : step'[o][s] = step[o][s]
    BY <1>10, ExpireDoes DEF Unresolved, Unsure, Marked
  <2>2. run' = run /\ op'[o].status = op[o].status /\ \A p \in Ops \ {o} : op'[p].status = op[p].status
    BY <1>10, ExpireDoes DEF Ended, Turned, Dropped, Became
  <2>3. \A p \in Ops \ {o}, s \in Steps : step'[p][s] = step[p][s]
    BY <1>10, ExpireDoes DEF Marked
  <2> QED BY <1>10, ExpireDoes, <2>1, <2>2, <2>3 DEF Control, Settling, Step
<1>11. ASSUME Failure PROVE Settling'
  <2>1. run.op \in Ops /\ run.pc \notin Calls \cup {"failing"}
    BY <1>11, FailureDoes DEF Calls
  <2>2. \A o \in Ops, s \in Steps : step[o][s] \in Unsure => op[o].status = "unknown" /\ o # run.op
    BY <2>1, Running DEF Control, Settling, Executing
  <2>3. \A o \in Ops, s \in Steps : step'[o][s] \in Unsure => step[o][s] \in Unsure
    BY <1>11, FailureDoes DEF Marked, Unsure
  <2>4. \A o \in Ops \ {run.op} : op'[o].status = op[o].status
    BY <1>11, FailureDoes DEF Turned, Ended, Became, Concluded
  <2> QED BY <2>2, <2>3, <2>4 DEF Settling
<1>12. ASSUME Start PROVE Settling'
  <2>1. run.op \in Ops /\ run.pc \notin Calls \cup {"failing"}
    BY <1>12, StartDoes DEF Calls
  <2>2. \A o \in Ops, s \in Steps : step[o][s] \in Unsure => op[o].status = "unknown" /\ o # run.op
    BY <2>1, Running DEF Control, Settling, Executing
  <2>3. \A o \in Ops, s \in Steps : step'[o][s] \in Unsure => step[o][s] \in Unsure
    BY <1>12, StartDoes DEF Marked, Unsure
  <2>4. \A o \in Ops \ {run.op} : op'[o].status = op[o].status
    BY <1>12, StartDoes DEF Turned, Ended, Became, Concluded
  <2> QED BY <2>2, <2>3, <2>4 DEF Settling
<1>13. ASSUME Complete PROVE Settling'
  <2>1. run.op \in Ops /\ run.pc \notin Calls \cup {"failing"}
    BY <1>13, CompleteDoes DEF Calls
  <2>2. \A o \in Ops, s \in Steps : step[o][s] \in Unsure => op[o].status = "unknown" /\ o # run.op
    BY <2>1, Running DEF Control, Settling, Executing
  <2>3. \A o \in Ops, s \in Steps : step'[o][s] \in Unsure => step[o][s] \in Unsure
    BY <1>13, CompleteDoes DEF Marked, Unsure
  <2>4. \A o \in Ops \ {run.op} : op'[o].status = op[o].status
    BY <1>13, CompleteDoes DEF Turned, Ended, Became, Concluded
  <2> QED BY <2>2, <2>3, <2>4 DEF Settling
<1>14. ASSUME Begin PROVE Settling'
  <2>1. run.op \in Ops /\ op[run.op].status = "running"
    BY <1>14, BeginDoes, Running
  <2>2. \A o \in Ops \ {run.op}, s \in Steps : step[o][s] \in Unsure => op[o].status = "unknown"
    BY <2>1 DEF Control, Settling, Executing
  <2>3. \A s \in Steps : step[run.op][s] \notin Unsure
    BY <2>1, <1>14, BeginDoes DEF Control, Settling, Calls
  <2>4. CASE step[run.op][Step] = "succeeded" /\ UNCHANGED <<op, step>>
    BY <2>2, <2>3, <2>4 DEF Settling
  <2>5. CASE Marked(run.op, Step, "running") /\ Moved(run.pc, run.old, run.secret, "calling") /\ UNCHANGED op
    BY <2>1, <2>2, <2>3, <2>5, <1>14, BeginDoes DEF Settling, Marked, Moved, Step
  <2> QED BY <1>14, BeginDoes, <2>3, <2>4, <2>5
<1>15. ASSUME Provider PROVE Settling'
  <2>1. step' = step /\ run'.pc = run.pc /\ run'.answer # "none" /\ run.answer # "none" /\ run.pc \in Calls /\ run'.old = run.old
    BY <1>15, ProviderDoes DEF Moved, Calls
  <2>2. \A o \in Ops : op'[o].status = op[o].status
    BY <1>15, ProviderDoes DEF Became
  <2> QED BY <2>1, <2>2 DEF Control, Settling, Step, Calls
<1>16. ASSUME Refused PROVE Settling'
  <2>1. step' = step /\ run'.pc = run.pc /\ run'.answer # "none" /\ run.answer # "none" /\ run.pc \in Calls /\ run'.old = run.old
    BY <1>16, RefusedDoes DEF Moved, Calls
  <2>2. \A o \in Ops : op'[o].status = op[o].status
    BY <1>16, RefusedDoes DEF Became
  <2> QED BY <2>1, <2>2 DEF Control, Settling, Step, Calls
<1>17. ASSUME Keep PROVE Settling'
  <2>1. step' = step /\ run'.pc = run.pc /\ run'.answer # "none" /\ run.answer # "none" /\ run.pc \in Calls /\ run'.old = run.old
    BY <1>17, KeepDoes DEF Moved, Calls
  <2>2. \A o \in Ops : op'[o].status = op[o].status
    BY <1>17, KeepDoes DEF Became
  <2> QED BY <2>1, <2>2 DEF Control, Settling, Step, Calls
<1>18. ASSUME Record PROVE Settling'
  <2>1. run.op \in Ops /\ op[run.op].status = "running"
    BY <1>18, RecordDoes, Running
  <2>2. \A o \in Ops \ {run.op}, s \in Steps : step[o][s] \in Unsure => op[o].status = "unknown"
    BY <2>1 DEF Control, Settling, Executing
  <2>3. \A s \in Steps : step[run.op][s] \in Unsure => s = Step
    BY <2>1, <1>18, RecordDoes DEF Control, Settling, Calls
  <2>4. CASE run.answer = "unknown"
    <3>1. run'.pc = "failing" /\ run'.answer = "unknown" /\ op' = op
      BY <2>4, <1>18, RecordDoes DEF Moved
    <3>2. \A o \in Ops \ {run.op}, s \in Steps : step'[o][s] = step[o][s]
      BY <1>18, RecordDoes DEF Marked
    <3> QED BY <2>1, <2>2, <3>1, <3>2 DEF Settling
  <2>5. CASE run.answer # "unknown"
    <3>1. step'[run.op][Step] \notin Unsure /\ \A o \in Ops, s \in Steps : o # run.op \/ s # Step => step'[o][s] = step[o][s]
      BY <2>5, <1>18, RecordDoes DEF Marked, Outcome, Unsure
    <3> QED BY <2>2, <2>3, <3>1, <1>18, RecordDoes DEF Settling
  <2> QED BY <2>4, <2>5
<1>19. ASSUME GiveUp PROVE Settling'
  <2>1. run.op \in Ops /\ op[run.op].status = "running"
    BY <1>19, GiveUpDoes, Running
  <2>2. \A o \in Ops \ {run.op}, s \in Steps : step[o][s] \in Unsure => op[o].status = "unknown"
    BY <2>1 DEF Control, Settling, Executing
  <2>3. step' = step /\ \A o \in Ops \ {run.op} : op'[o].status = op[o].status
    BY <1>19, GiveUpDoes DEF Concluded, Turned, Became
  <2>4. CASE run.answer = "unknown"
    BY <2>1, <2>2, <2>3, <2>4, <1>19, GiveUpDoes DEF Settling, Concluded, Turned, Became
  <2>5. CASE run.answer # "unknown"
    <3>1. \A s \in Steps : step[run.op][s] \notin Unsure
      BY <2>1, <2>5, <1>19, GiveUpDoes DEF Control, Settling, Calls
    <3> QED BY <2>2, <2>3, <3>1 DEF Settling
  <2> QED BY <2>4, <2>5
<1>20. ASSUME Reserve PROVE Settling'
  <2>1. run.op \in Ops /\ run.pc \notin Calls \cup {"failing"}
    BY <1>20, ReserveDoes DEF Calls
  <2>2. \A o \in Ops, s \in Steps : step[o][s] \in Unsure => op[o].status = "unknown" /\ o # run.op
    BY <2>1, Running DEF Control, Settling, Executing
  <2>3. \A o \in Ops, s \in Steps : step'[o][s] \in Unsure => step[o][s] \in Unsure
    BY <1>20, ReserveDoes DEF Marked, Unsure
  <2>4. \A o \in Ops \ {run.op} : op'[o].status = op[o].status
    BY <1>20, ReserveDoes DEF Turned, Ended, Became, Concluded
  <2> QED BY <2>2, <2>3, <2>4 DEF Settling
<1>21. ASSUME Confirm PROVE Settling'
  <2>1. run.op \in Ops /\ run.pc \notin Calls \cup {"failing"}
    BY <1>21, ConfirmDoes DEF Calls
  <2>2. \A o \in Ops, s \in Steps : step[o][s] \in Unsure => op[o].status = "unknown" /\ o # run.op
    BY <2>1, Running DEF Control, Settling, Executing
  <2>3. \A o \in Ops, s \in Steps : step'[o][s] \in Unsure => step[o][s] \in Unsure
    BY <1>21, ConfirmDoes DEF Marked, Unsure
  <2>4. \A o \in Ops \ {run.op} : op'[o].status = op[o].status
    BY <1>21, ConfirmDoes DEF Turned, Ended, Became, Concluded
  <2> QED BY <2>2, <2>3, <2>4 DEF Settling
<1>22. ASSUME Candidate PROVE Settling'
  <2>1. run.op \in Ops /\ run.pc \notin Calls \cup {"failing"}
    BY <1>22, CandidateDoes DEF Calls
  <2>2. \A o \in Ops, s \in Steps : step[o][s] \in Unsure => op[o].status = "unknown" /\ o # run.op
    BY <2>1, Running DEF Control, Settling, Executing
  <2>3. \A o \in Ops, s \in Steps : step'[o][s] \in Unsure => step[o][s] \in Unsure
    BY <1>22, CandidateDoes DEF Marked, Unsure
  <2>4. \A o \in Ops \ {run.op} : op'[o].status = op[o].status
    BY <1>22, CandidateDoes DEF Turned, Ended, Became, Concluded
  <2> QED BY <2>2, <2>3, <2>4 DEF Settling
<1>23. ASSUME Verify PROVE Settling'
  <2>1. run.op \in Ops /\ run.pc \notin Calls \cup {"failing"}
    BY <1>23, VerifyDoes DEF Calls
  <2>2. \A o \in Ops, s \in Steps : step[o][s] \in Unsure => op[o].status = "unknown" /\ o # run.op
    BY <2>1, Running DEF Control, Settling, Executing
  <2>3. \A o \in Ops, s \in Steps : step'[o][s] \in Unsure => step[o][s] \in Unsure
    BY <1>23, VerifyDoes DEF Marked, Unsure
  <2>4. \A o \in Ops \ {run.op} : op'[o].status = op[o].status
    BY <1>23, VerifyDoes DEF Turned, Ended, Became, Concluded
  <2> QED BY <2>2, <2>3, <2>4 DEF Settling
<1>24. ASSUME Activate PROVE Settling'
  <2>1. run.op \in Ops /\ run.pc \notin Calls \cup {"failing"}
    BY <1>24, ActivateDoes DEF Calls
  <2>2. \A o \in Ops, s \in Steps : step[o][s] \in Unsure => op[o].status = "unknown" /\ o # run.op
    BY <2>1, Running DEF Control, Settling, Executing
  <2>3. \A o \in Ops, s \in Steps : step'[o][s] \in Unsure => step[o][s] \in Unsure
    BY <1>24, ActivateDoes DEF Marked, Unsure
  <2>4. \A o \in Ops \ {run.op} : op'[o].status = op[o].status
    BY <1>24, ActivateDoes DEF Turned, Ended, Became, Concluded
  <2> QED BY <2>2, <2>3, <2>4 DEF Settling
<1>25. ASSUME Revoke PROVE Settling'
  <2>1. run.op \in Ops /\ run.pc \notin Calls \cup {"failing"}
    BY <1>25, RevokeDoes DEF Calls
  <2>2. \A o \in Ops, s \in Steps : step[o][s] \in Unsure => op[o].status = "unknown" /\ o # run.op
    BY <2>1, Running DEF Control, Settling, Executing
  <2>3. \A o \in Ops, s \in Steps : step'[o][s] \in Unsure => step[o][s] \in Unsure
    BY <1>25, RevokeDoes DEF Marked, Unsure
  <2>4. \A o \in Ops \ {run.op} : op'[o].status = op[o].status
    BY <1>25, RevokeDoes DEF Turned, Ended, Became, Concluded
  <2> QED BY <2>2, <2>3, <2>4 DEF Settling
<1>26. ASSUME Revoked PROVE Settling'
  <2>1. run.op \in Ops /\ run.pc \notin Calls \cup {"failing"}
    BY <1>26, RevokedDoes DEF Calls
  <2>2. \A o \in Ops, s \in Steps : step[o][s] \in Unsure => op[o].status = "unknown" /\ o # run.op
    BY <2>1, Running DEF Control, Settling, Executing
  <2>3. \A o \in Ops, s \in Steps : step'[o][s] \in Unsure => step[o][s] \in Unsure
    BY <1>26, RevokedDoes DEF Marked, Unsure
  <2>4. \A o \in Ops \ {run.op} : op'[o].status = op[o].status
    BY <1>26, RevokedDoes DEF Turned, Ended, Became, Concluded
  <2> QED BY <2>2, <2>3, <2>4 DEF Settling
<1>27. ASSUME Password PROVE Settling'
  <2>1. run.op \in Ops /\ run.pc \notin Calls \cup {"failing"}
    BY <1>27, PasswordDoes DEF Calls
  <2>2. \A o \in Ops, s \in Steps : step[o][s] \in Unsure => op[o].status = "unknown" /\ o # run.op
    BY <2>1, Running DEF Control, Settling, Executing
  <2>3. \A o \in Ops, s \in Steps : step'[o][s] \in Unsure => step[o][s] \in Unsure
    BY <1>27, PasswordDoes DEF Marked, Unsure
  <2>4. \A o \in Ops \ {run.op} : op'[o].status = op[o].status
    BY <1>27, PasswordDoes DEF Turned, Ended, Became, Concluded
  <2> QED BY <2>2, <2>3, <2>4 DEF Settling
<1>28. ASSUME Claim PROVE Settling'
  <2>1. run.op \in Ops /\ run.pc \notin Calls \cup {"failing"}
    BY <1>28, ClaimDoes DEF Calls
  <2>2. \A o \in Ops, s \in Steps : step[o][s] \in Unsure => op[o].status = "unknown" /\ o # run.op
    BY <2>1, Running DEF Control, Settling, Executing
  <2>3. \A o \in Ops, s \in Steps : step'[o][s] \in Unsure => step[o][s] \in Unsure
    BY <1>28, ClaimDoes DEF Marked, Unsure
  <2>4. \A o \in Ops \ {run.op} : op'[o].status = op[o].status
    BY <1>28, ClaimDoes DEF Turned, Ended, Became, Concluded
  <2> QED BY <2>2, <2>3, <2>4 DEF Settling
<1>29. ASSUME Validate PROVE Settling'
  <2>1. run.op \in Ops /\ run.pc \notin Calls \cup {"failing"}
    BY <1>29, ValidateDoes DEF Calls
  <2>2. \A o \in Ops, s \in Steps : step[o][s] \in Unsure => op[o].status = "unknown" /\ o # run.op
    BY <2>1, Running DEF Control, Settling, Executing
  <2>3. \A o \in Ops, s \in Steps : step'[o][s] \in Unsure => step[o][s] \in Unsure
    BY <1>29, ValidateDoes DEF Marked, Unsure
  <2>4. \A o \in Ops \ {run.op} : op'[o].status = op[o].status
    BY <1>29, ValidateDoes DEF Turned, Ended, Became, Concluded
  <2> QED BY <2>2, <2>3, <2>4 DEF Settling
<1>30. ASSUME Gone PROVE Settling'
  <2>1. run.op \in Ops /\ run.pc \notin Calls \cup {"failing"}
    BY <1>30, GoneDoes DEF Calls
  <2>2. \A o \in Ops, s \in Steps : step[o][s] \in Unsure => op[o].status = "unknown" /\ o # run.op
    BY <2>1, Running DEF Control, Settling, Executing
  <2>3. \A o \in Ops, s \in Steps : step'[o][s] \in Unsure => step[o][s] \in Unsure
    BY <1>30, GoneDoes DEF Marked, Unsure
  <2>4. \A o \in Ops \ {run.op} : op'[o].status = op[o].status
    BY <1>30, GoneDoes DEF Turned, Ended, Became, Concluded
  <2> QED BY <2>2, <2>3, <2>4 DEF Settling
<1>31. ASSUME External PROVE Settling'
  <2>1. run.op \in Ops /\ run.pc \notin Calls \cup {"failing"}
    BY <1>31, ExternalDoes DEF Calls
  <2>2. \A o \in Ops, s \in Steps : step[o][s] \in Unsure => op[o].status = "unknown" /\ o # run.op
    BY <2>1, Running DEF Control, Settling, Executing
  <2>3. \A o \in Ops, s \in Steps : step'[o][s] \in Unsure => step[o][s] \in Unsure
    BY <1>31, ExternalDoes DEF Marked, Unsure
  <2>4. \A o \in Ops \ {run.op} : op'[o].status = op[o].status
    BY <1>31, ExternalDoes DEF Turned, Ended, Became, Concluded
  <2> QED BY <2>2, <2>3, <2>4 DEF Settling
<1>32. ASSUME Check PROVE Settling'
  <2>1. run.op \in Ops /\ run.pc \notin Calls \cup {"failing"}
    BY <1>32, CheckDoes DEF Calls
  <2>2. \A o \in Ops, s \in Steps : step[o][s] \in Unsure => op[o].status = "unknown" /\ o # run.op
    BY <2>1, Running DEF Control, Settling, Executing
  <2>3. \A o \in Ops, s \in Steps : step'[o][s] \in Unsure => step[o][s] \in Unsure
    BY <1>32, CheckDoes DEF Marked, Unsure
  <2>4. \A o \in Ops \ {run.op} : op'[o].status = op[o].status
    BY <1>32, CheckDoes DEF Turned, Ended, Became, Concluded
  <2> QED BY <2>2, <2>3, <2>4 DEF Settling
<1>33. ASSUME SaveEntered PROVE Settling'
  <2>1. run.op \in Ops /\ run.pc \notin Calls \cup {"failing"}
    BY <1>33, SaveEnteredDoes DEF Calls
  <2>2. \A o \in Ops, s \in Steps : step[o][s] \in Unsure => op[o].status = "unknown" /\ o # run.op
    BY <2>1, Running DEF Control, Settling, Executing
  <2>3. \A o \in Ops, s \in Steps : step'[o][s] \in Unsure => step[o][s] \in Unsure
    BY <1>33, SaveEnteredDoes DEF Marked, Unsure
  <2>4. \A o \in Ops \ {run.op} : op'[o].status = op[o].status
    BY <1>33, SaveEnteredDoes DEF Turned, Ended, Became, Concluded
  <2> QED BY <2>2, <2>3, <2>4 DEF Settling
<1>34. ASSUME Attach PROVE Settling'
  <2>1. run.op \in Ops /\ run.pc \notin Calls \cup {"failing"}
    BY <1>34, AttachDoes DEF Calls
  <2>2. \A o \in Ops, s \in Steps : step[o][s] \in Unsure => op[o].status = "unknown" /\ o # run.op
    BY <2>1, Running DEF Control, Settling, Executing
  <2>3. \A o \in Ops, s \in Steps : step'[o][s] \in Unsure => step[o][s] \in Unsure
    BY <1>34, AttachDoes DEF Marked, Unsure
  <2>4. \A o \in Ops \ {run.op} : op'[o].status = op[o].status
    BY <1>34, AttachDoes DEF Turned, Ended, Became, Concluded
  <2> QED BY <2>2, <2>3, <2>4 DEF Settling
<1>35. ASSUME UpdateEndpoints PROVE Settling'
  <2>1. run.op \in Ops /\ run.pc \notin Calls \cup {"failing"}
    BY <1>35, UpdateEndpointsDoes DEF Calls
  <2>2. \A o \in Ops, s \in Steps : step[o][s] \in Unsure => op[o].status = "unknown" /\ o # run.op
    BY <2>1, Running DEF Control, Settling, Executing
  <2>3. \A o \in Ops, s \in Steps : step'[o][s] \in Unsure => step[o][s] \in Unsure
    BY <1>35, UpdateEndpointsDoes DEF Marked, Unsure
  <2>4. \A o \in Ops \ {run.op} : op'[o].status = op[o].status
    BY <1>35, UpdateEndpointsDoes DEF Turned, Ended, Became, Concluded
  <2> QED BY <2>2, <2>3, <2>4 DEF Settling
<1>36. ASSUME Reactivate PROVE Settling'
  <2>1. run.op \in Ops /\ run.pc \notin Calls \cup {"failing"}
    BY <1>36, ReactivateDoes DEF Calls
  <2>2. \A o \in Ops, s \in Steps : step[o][s] \in Unsure => op[o].status = "unknown" /\ o # run.op
    BY <2>1, Running DEF Control, Settling, Executing
  <2>3. \A o \in Ops, s \in Steps : step'[o][s] \in Unsure => step[o][s] \in Unsure
    BY <1>36, ReactivateDoes DEF Marked, Unsure
  <2>4. \A o \in Ops \ {run.op} : op'[o].status = op[o].status
    BY <1>36, ReactivateDoes DEF Turned, Ended, Became, Concluded
  <2> QED BY <2>2, <2>3, <2>4 DEF Settling
<1>37. ASSUME ConfigureConnection PROVE Settling'
  <2>1. run.op \in Ops /\ run.pc \notin Calls \cup {"failing"}
    BY <1>37, ConfigureConnectionDoes DEF Calls
  <2>2. \A o \in Ops, s \in Steps : step[o][s] \in Unsure => op[o].status = "unknown" /\ o # run.op
    BY <2>1, Running DEF Control, Settling, Executing
  <2>3. \A o \in Ops, s \in Steps : step'[o][s] \in Unsure => step[o][s] \in Unsure
    BY <1>37, ConfigureConnectionDoes DEF Marked, Unsure
  <2>4. \A o \in Ops \ {run.op} : op'[o].status = op[o].status
    BY <1>37, ConfigureConnectionDoes DEF Turned, Ended, Became, Concluded
  <2> QED BY <2>2, <2>3, <2>4 DEF Settling
<1>38. ASSUME Commit PROVE Settling'
  <2>1. run.op \in Ops /\ run.pc \notin Calls \cup {"failing"}
    BY <1>38, CommitDoes DEF Calls
  <2>2. \A o \in Ops, s \in Steps : step[o][s] \in Unsure => op[o].status = "unknown" /\ o # run.op
    BY <2>1, Running DEF Control, Settling, Executing
  <2>3. \A o \in Ops, s \in Steps : step'[o][s] \in Unsure => step[o][s] \in Unsure
    BY <1>38, CommitDoes DEF Marked, Unsure
  <2>4. \A o \in Ops \ {run.op} : op'[o].status = op[o].status
    BY <1>38, CommitDoes DEF Turned, Ended, Became, Concluded
  <2> QED BY <2>2, <2>3, <2>4 DEF Settling
<1>39. ASSUME Interrupt PROVE Settling'
  <2>1. run.op \in Ops /\ op[run.op].status = "running"
    BY <1>39, InterruptDoes, Running
  <2>2. \A o \in Ops \ {run.op}, s \in Steps : step[o][s] \in Unsure => op[o].status = "unknown"
    BY <2>1 DEF Control, Settling, Executing
  <2>3. op'[run.op].status = "unknown" /\ \A o \in Ops \ {run.op} : op'[o].status = op[o].status
    BY <2>1, <1>39, InterruptDoes DEF Turned, Became
  <2>4. \A o \in Ops \ {run.op}, s \in Steps : step'[o][s] = step[o][s]
    BY <1>39, InterruptDoes
  <2> QED BY <2>2, <2>3, <2>4 DEF Settling
<1>40. UNCHANGED <<op, step, run>> => Settling'
  BY DEF Control, Settling, Step
<1>41. ASSUME Land PROVE UNCHANGED <<op, step, run>>
  BY <1>41, LandDoes
<1>42. ASSUME Switch PROVE UNCHANGED <<op, step, run>>
  BY <1>42, SwitchDoes
<1>43. ASSUME Suspend PROVE UNCHANGED <<op, step, run>>
  BY <1>43, SuspendDoes
<1>44. ASSUME Unregister PROVE UNCHANGED <<op, step, run>>
  BY <1>44, UnregisterDoes
<1>45. ASSUME Foreign PROVE UNCHANGED <<op, step, run>>
  BY <1>45, ForeignDoes
<1> QED
  BY Failures, <1>1, <1>2, <1>3, <1>4, <1>5, <1>6, <1>7, <1>8, <1>9, <1>10, <1>11, <1>12, <1>13, <1>14, <1>15, <1>16, <1>17,
     <1>18, <1>19, <1>20, <1>21, <1>22, <1>23, <1>24, <1>25, <1>26, <1>27, <1>28, <1>29, <1>30, <1>31, <1>32, <1>33, <1>34,
     <1>35, <1>36, <1>37, <1>38, <1>39, <1>40, <1>41, <1>42, <1>43, <1>44, <1>45 DEF Next, Execution

(* An operation that failed left nothing behind. *)
LEMMA FailingStep ==
  ASSUME NoneIsNoOp, IMAPIsProtocol, LimitsAreNat, LocalTypes, OpTypes, RemoteTypes, Control, References, Next
  PROVE  Failing'
<1> USE NoneIsNoOp, IMAPIsProtocol, LimitsAreNat DEF vars, localVars, opVars, bounds, history, remoteVars
<1>1. ASSUME NEW o \in Ops, NEW k \in Kinds, Queue(o, k) PROVE Failing'
  <2>1. PICK r \in Requests(k) : r \in Request /\ Became(o, r, "queued", 0, 0, 0, 0, FALSE)
    BY <1>1, QueueDoes
  <2>2. /\ op[o].status = "none" /\ (\A p \in Ops : op[p].status \notin Live) /\ UNCHANGED <<run, step>>
    BY <1>1, QueueDoes
  <2>3. op'[o].status # "failed" /\ \A p \in Ops \ {o} : op'[p] = op[p]
    BY <2>1 DEF Became
  <2> QED BY <2>3 DEF Control, Failing, Kind
<1>2. ASSUME NEW o \in Ops, Execute(o) PROVE Failing'
  <2>1. op'[o].status # "failed" /\ \A p \in Ops \ {o} : op'[p] = op[p]
    BY <1>2, ExecuteDoes DEF Ended, Turned, Dropped, Became
  <2> QED BY <2>1 DEF Control, Failing, Kind
<1>3. ASSUME NEW o \in Ops, ConfirmExternal(o) PROVE Failing'
  <2>1. op'[o].status # "failed" /\ \A p \in Ops \ {o} : op'[p] = op[p]
    BY <1>3, ConfirmExternalDoes DEF Ended, Turned, Dropped, Became
  <2> QED BY <2>1 DEF Control, Failing, Kind
<1>4. ASSUME NEW o \in Ops, Reconcile(o) PROVE Failing'
  <2>1. /\ op'[o].status = "failed" => Kind(o) \in Transactional
        /\ op'[o].request = op[o].request /\ op'[o].cand = op[o].cand /\ op[o].status = "unknown"
        /\ \A p \in Ops \ {o} : op'[p] = op[p]
    BY <1>4, ReconcileDoes DEF Turned, Became
  <2>2. op[o].cand # 0 => Kind(o) \in {"mailbox.create", "mailbox.connect", "mailbox.rotate"}
    BY <2>1 DEF References, Candidates, IsLive, Live
  <2> QED BY <2>1, <2>2 DEF Control, Failing, Kind, Transactional, Additions
<1>5. ASSUME NEW o \in Ops, Retry(o) PROVE Failing'
  <2>1. op'[o].status # "failed" /\ \A p \in Ops \ {o} : op'[p] = op[p]
    BY <1>5, RetryDoes DEF Ended, Turned, Dropped, Became
  <2> QED BY <2>1 DEF Control, Failing, Kind
<1>6. ASSUME NEW o \in Ops, Cancel(o) PROVE Failing'
  <2>1. op'[o].status # "failed" /\ \A p \in Ops \ {o} : op'[p] = op[p]
    BY <1>6, CancelDoes DEF Ended, Turned, Dropped, Became
  <2> QED BY <2>1 DEF Control, Failing, Kind
<1>7. ASSUME NEW o \in Ops, Report(o) PROVE Failing'
  <2>1. op'[o].status # "failed" /\ \A p \in Ops \ {o} : op'[p] = op[p]
    BY <1>7, ReportDoes DEF Ended, Turned, Dropped, Became
  <2> QED BY <2>1 DEF Control, Failing, Kind
<1>8. ASSUME NEW o \in Ops, ClaimSecret(o) PROVE Failing'
  <2>1. /\ op'[o].status = op[o].status /\ op'[o].request = op[o].request /\ op'[o].cand = op[o].cand
        /\ \A p \in Ops \ {o} : op'[p] = op[p]
    BY <1>8, ClaimSecretDoes DEF Became
  <2> QED BY <2>1 DEF Control, Failing, Kind
<1>9. ASSUME NEW o \in Ops, Expire(o) PROVE Failing'
  <2>1. /\ op'[o].status = op[o].status /\ op'[o].request = op[o].request /\ op'[o].cand = op[o].cand
        /\ \A p \in Ops \ {o} : op'[p] = op[p]
    BY <1>9, ExpireDoes DEF Became
  <2> QED BY <2>1 DEF Control, Failing, Kind
<1>10. ASSUME Failure PROVE Failing'
  <2>1. run.op \in Ops /\ op[run.op].status = "running"
    BY <1>10, FailureDoes, Running
  <2>2. /\ op'[run.op].status = "failed" => ~Effects(run.op)
        /\ op'[run.op].request = op[run.op].request /\ op'[run.op].cand = op[run.op].cand
        /\ \A p \in Ops \ {run.op} : op'[p] = op[p]
    BY <2>1, <1>10, FailureDoes DEF Turned, Became, Concluded
  <2>3. ~Effects(run.op) => Kind(run.op) \notin Additions \cup {"mailbox.deleteRemote", "mailbox.reactivate"} /\ Creation \in Steps /\ step[run.op][Creation] # "succeeded"
    BY DEF Effects, Kind, Creation, Steps
  <2>4. op'[run.op].status = "failed" => step[run.op][Creation] \notin Unsure
    BY <2>1, <2>2, <2>3, <1>10, FailureDoes DEF Control, Settling, Calls, Concluded, Turned, Became
  <2>5. op'[run.op].status = "failed" => op[run.op].cand = 0
    BY <2>1, <2>2, <2>3, <2>4 DEF References, Candidates, IsLive, Live
  <2> QED BY <2>1, <2>2, <2>3, <2>5 DEF Control, Failing, Kind
<1>11. ASSUME Complete PROVE Failing'
  <2>1. run.op \in Ops /\ op[run.op].status = "running"
    BY <1>11, CompleteDoes, Running
  <2>2. op'[run.op].status # "failed" /\ \A p \in Ops \ {run.op} : op'[p] = op[p]
    BY <2>1, <1>11, CompleteDoes DEF Turned, Ended, Became, Concluded
  <2> QED BY <2>1, <2>2 DEF Control, Failing, Kind
<1>12. ASSUME Begin PROVE Failing'
  <2>1. run.op \in Ops /\ op[run.op].status = "running"
    BY <1>12, BeginDoes, Running
  <2>2. op'[run.op].status # "failed" /\ \A p \in Ops \ {run.op} : op'[p] = op[p]
    BY <2>1, <1>12, BeginDoes DEF Turned, Ended, Became, Concluded
  <2> QED BY <2>1, <2>2 DEF Control, Failing, Kind
<1>13. ASSUME Keep PROVE Failing'
  <2>1. run.op \in Ops /\ op[run.op].status = "running"
    BY <1>13, KeepDoes, Running
  <2>2. op'[run.op].status # "failed" /\ \A p \in Ops \ {run.op} : op'[p] = op[p]
    BY <2>1, <1>13, KeepDoes DEF Turned, Ended, Became, Concluded
  <2> QED BY <2>1, <2>2 DEF Control, Failing, Kind
<1>14. ASSUME GiveUp PROVE Failing'
  <2>1. run.op \in Ops /\ op[run.op].status = "running"
    BY <1>14, GiveUpDoes, Running
  <2>2. /\ op'[run.op].status = "failed" => ~Effects(run.op)
        /\ op'[run.op].request = op[run.op].request /\ op'[run.op].cand = op[run.op].cand
        /\ \A p \in Ops \ {run.op} : op'[p] = op[p]
    BY <2>1, <1>14, GiveUpDoes DEF Turned, Became, Concluded
  <2>3. ~Effects(run.op) => Kind(run.op) \notin Additions \cup {"mailbox.deleteRemote", "mailbox.reactivate"} /\ Creation \in Steps /\ step[run.op][Creation] # "succeeded"
    BY DEF Effects, Kind, Creation, Steps
  <2>4. op'[run.op].status = "failed" => step[run.op][Creation] \notin Unsure
    BY <2>1, <2>2, <2>3, <1>14, GiveUpDoes DEF Control, Settling, Calls, Concluded, Turned, Became
  <2>5. op'[run.op].status = "failed" => op[run.op].cand = 0
    BY <2>1, <2>2, <2>3, <2>4 DEF References, Candidates, IsLive, Live
  <2> QED BY <2>1, <2>2, <2>3, <2>5 DEF Control, Failing, Kind
<1>15. ASSUME Reserve PROVE Failing'
  <2>1. run.op \in Ops /\ op[run.op].status = "running"
    BY <1>15, ReserveDoes, Running
  <2>2. op'[run.op].status # "failed" /\ \A p \in Ops \ {run.op} : op'[p] = op[p]
    BY <2>1, <1>15, ReserveDoes DEF Turned, Ended, Became, Concluded
  <2> QED BY <2>1, <2>2 DEF Control, Failing, Kind
<1>16. ASSUME Activate PROVE Failing'
  <2>1. run.op \in Ops /\ op[run.op].status = "running"
    BY <1>16, ActivateDoes, Running
  <2>2. op'[run.op].status # "failed" /\ \A p \in Ops \ {run.op} : op'[p] = op[p]
    BY <2>1, <1>16, ActivateDoes DEF Turned, Ended, Became, Concluded
  <2> QED BY <2>1, <2>2 DEF Control, Failing, Kind
<1>17. ASSUME Password PROVE Failing'
  <2>1. run.op \in Ops /\ op[run.op].status = "running"
    BY <1>17, PasswordDoes, Running
  <2>2. op'[run.op].status # "failed" /\ \A p \in Ops \ {run.op} : op'[p] = op[p]
    BY <2>1, <1>17, PasswordDoes DEF Turned, Ended, Became, Concluded
  <2> QED BY <2>1, <2>2 DEF Control, Failing, Kind
<1>18. ASSUME Claim PROVE Failing'
  <2>1. run.op \in Ops /\ op[run.op].status = "running"
    BY <1>18, ClaimDoes, Running
  <2>2. op'[run.op].status # "failed" /\ \A p \in Ops \ {run.op} : op'[p] = op[p]
    BY <2>1, <1>18, ClaimDoes DEF Turned, Ended, Became, Concluded
  <2> QED BY <2>1, <2>2 DEF Control, Failing, Kind
<1>19. ASSUME Gone PROVE Failing'
  <2>1. run.op \in Ops /\ op[run.op].status = "running"
    BY <1>19, GoneDoes, Running
  <2>2. op'[run.op].status # "failed" /\ \A p \in Ops \ {run.op} : op'[p] = op[p]
    BY <2>1, <1>19, GoneDoes DEF Turned, Ended, Became, Concluded
  <2> QED BY <2>1, <2>2 DEF Control, Failing, Kind
<1>20. ASSUME External PROVE Failing'
  <2>1. run.op \in Ops /\ op[run.op].status = "running"
    BY <1>20, ExternalDoes, Running
  <2>2. op'[run.op].status # "failed" /\ \A p \in Ops \ {run.op} : op'[p] = op[p]
    BY <2>1, <1>20, ExternalDoes DEF Turned, Ended, Became, Concluded
  <2> QED BY <2>1, <2>2 DEF Control, Failing, Kind
<1>21. ASSUME Attach PROVE Failing'
  <2>1. run.op \in Ops /\ op[run.op].status = "running"
    BY <1>21, AttachDoes, Running
  <2>2. op'[run.op].status # "failed" /\ \A p \in Ops \ {run.op} : op'[p] = op[p]
    BY <2>1, <1>21, AttachDoes DEF Turned, Ended, Became, Concluded
  <2> QED BY <2>1, <2>2 DEF Control, Failing, Kind
<1>22. ASSUME UpdateEndpoints PROVE Failing'
  <2>1. run.op \in Ops /\ op[run.op].status = "running"
    BY <1>22, UpdateEndpointsDoes, Running
  <2>2. op'[run.op].status # "failed" /\ \A p \in Ops \ {run.op} : op'[p] = op[p]
    BY <2>1, <1>22, UpdateEndpointsDoes DEF Turned, Ended, Became, Concluded
  <2> QED BY <2>1, <2>2 DEF Control, Failing, Kind
<1>23. ASSUME Reactivate PROVE Failing'
  <2>1. run.op \in Ops /\ op[run.op].status = "running"
    BY <1>23, ReactivateDoes, Running
  <2>2. op'[run.op].status # "failed" /\ \A p \in Ops \ {run.op} : op'[p] = op[p]
    BY <2>1, <1>23, ReactivateDoes DEF Turned, Ended, Became, Concluded
  <2> QED BY <2>1, <2>2 DEF Control, Failing, Kind
<1>24. ASSUME ConfigureConnection PROVE Failing'
  <2>1. run.op \in Ops /\ op[run.op].status = "running"
    BY <1>24, ConfigureConnectionDoes, Running
  <2>2. op'[run.op].status # "failed" /\ \A p \in Ops \ {run.op} : op'[p] = op[p]
    BY <2>1, <1>24, ConfigureConnectionDoes DEF Turned, Ended, Became, Concluded
  <2> QED BY <2>1, <2>2 DEF Control, Failing, Kind
<1>25. ASSUME Commit PROVE Failing'
  <2>1. run.op \in Ops /\ op[run.op].status = "running"
    BY <1>25, CommitDoes, Running
  <2>2. op'[run.op].status # "failed" /\ \A p \in Ops \ {run.op} : op'[p] = op[p]
    BY <2>1, <1>25, CommitDoes DEF Turned, Ended, Became, Concluded
  <2> QED BY <2>1, <2>2 DEF Control, Failing, Kind
<1>26. ASSUME Interrupt PROVE Failing'
  <2>1. run.op \in Ops /\ op[run.op].status = "running"
    BY <1>26, InterruptDoes, Running
  <2>2. op'[run.op].status # "failed" /\ \A p \in Ops \ {run.op} : op'[p] = op[p]
    BY <2>1, <1>26, InterruptDoes DEF Turned, Ended, Became, Concluded
  <2> QED BY <2>1, <2>2 DEF Control, Failing, Kind
<1>27. UNCHANGED <<op>> => Failing'
  BY DEF Control, Failing, Kind
<1>28. ASSUME NEW o \in Ops, ReconcileStep(o) PROVE UNCHANGED <<op>>
  BY <1>28, ReconcileStepDoes
<1>29. ASSUME Start PROVE UNCHANGED <<op>>
  BY <1>29, StartDoes
<1>30. ASSUME Provider PROVE UNCHANGED <<op>>
  BY <1>30, ProviderDoes
<1>31. ASSUME Refused PROVE UNCHANGED <<op>>
  BY <1>31, RefusedDoes
<1>32. ASSUME Record PROVE UNCHANGED <<op>>
  BY <1>32, RecordDoes
<1>33. ASSUME Confirm PROVE UNCHANGED <<op>>
  BY <1>33, ConfirmDoes
<1>34. ASSUME Candidate PROVE UNCHANGED <<op>>
  BY <1>34, CandidateDoes
<1>35. ASSUME Verify PROVE UNCHANGED <<op>>
  BY <1>35, VerifyDoes
<1>36. ASSUME Revoke PROVE UNCHANGED <<op>>
  BY <1>36, RevokeDoes
<1>37. ASSUME Revoked PROVE UNCHANGED <<op>>
  BY <1>37, RevokedDoes
<1>38. ASSUME Validate PROVE UNCHANGED <<op>>
  BY <1>38, ValidateDoes
<1>39. ASSUME Check PROVE UNCHANGED <<op>>
  BY <1>39, CheckDoes
<1>40. ASSUME SaveEntered PROVE UNCHANGED <<op>>
  BY <1>40, SaveEnteredDoes
<1>41. ASSUME Land PROVE UNCHANGED <<op>>
  BY <1>41, LandDoes
<1>42. ASSUME Switch PROVE UNCHANGED <<op>>
  BY <1>42, SwitchDoes
<1>43. ASSUME Suspend PROVE UNCHANGED <<op>>
  BY <1>43, SuspendDoes
<1>44. ASSUME Unregister PROVE UNCHANGED <<op>>
  BY <1>44, UnregisterDoes
<1>45. ASSUME Foreign PROVE UNCHANGED <<op>>
  BY <1>45, ForeignDoes
<1> QED
  BY Failures, <1>1, <1>2, <1>3, <1>4, <1>5, <1>6, <1>7, <1>8, <1>9, <1>10, <1>11, <1>12, <1>13, <1>14, <1>15, <1>16, <1>17,
     <1>18, <1>19, <1>20, <1>21, <1>22, <1>23, <1>24, <1>25, <1>26, <1>27, <1>28, <1>29, <1>30, <1>31, <1>32, <1>33, <1>34,
     <1>35, <1>36, <1>37, <1>38, <1>39, <1>40, <1>41, <1>42, <1>43, <1>44, <1>45 DEF Next, Execution

(* An operation that was given up has no candidate. *)
LEMMA GivenUpStep ==
  ASSUME NoneIsNoOp, IMAPIsProtocol, LimitsAreNat, LocalTypes, OpTypes, RemoteTypes, Control, References, Next
  PROVE  GivenUp'
<1> USE NoneIsNoOp, IMAPIsProtocol, LimitsAreNat DEF vars, localVars, opVars, bounds, history, remoteVars
<1>1. ASSUME NEW o \in Ops, NEW k \in Kinds, Queue(o, k) PROVE GivenUp'
  <2>1. PICK r \in Requests(k) : r \in Request /\ Became(o, r, "queued", 0, 0, 0, 0, FALSE)
    BY <1>1, QueueDoes
  <2>2. /\ op[o].status = "none" /\ (\A p \in Ops : op[p].status \notin Live) /\ UNCHANGED <<run, step>>
    BY <1>1, QueueDoes
  <2>3. op'[o].status = "queued" /\ \A p \in Ops \ {o} : op'[p] = op[p]
    BY <2>1 DEF Became
  <2>4. \A s \in Steps : step[o][s] # "external_reported"
    BY <2>2 DEF Control, GivenUp
  <2> QED BY <2>2, <2>3, <2>4 DEF Control, GivenUp
<1>2. ASSUME NEW o \in Ops, Execute(o) PROVE GivenUp'
  <2>1. /\ op'[o].status = "cancelled" => op'[o].cand = 0
        /\ op'[o].status = "none" => op[o].status = "none" /\ op'[o].cand = op[o].cand
        /\ \A p \in Ops \ {o} : op'[p] = op[p]
    BY <1>2, ExecuteDoes DEF Ended, Turned, Dropped, Became, Control, GivenUp
  <2>2. /\ \A p \in Ops \ {o}, s \in Steps : step'[p][s] = step[p][s]
        /\ \A s \in Steps : step'[o][s] = "external_reported" => op'[o].status = "cancelled"
    BY <1>2, ExecuteDoes DEF Marked, Ended, Turned, Dropped, Became, Control, GivenUp
  <2> QED BY <2>1, <2>2 DEF Control, GivenUp
<1>3. ASSUME NEW o \in Ops, ConfirmExternal(o) PROVE GivenUp'
  <2>1. /\ op'[o].status = "cancelled" => op'[o].cand = 0
        /\ op'[o].status = "none" => op[o].status = "none" /\ op'[o].cand = op[o].cand
        /\ \A p \in Ops \ {o} : op'[p] = op[p]
    BY <1>3, ConfirmExternalDoes DEF Ended, Turned, Dropped, Became, Control, GivenUp
  <2>2. /\ \A p \in Ops \ {o}, s \in Steps : step'[p][s] = step[p][s]
        /\ \A s \in Steps : step'[o][s] = "external_reported" => op'[o].status = "cancelled"
    BY <1>3, ConfirmExternalDoes DEF Marked, Ended, Turned, Dropped, Became, Control, GivenUp
  <2> QED BY <2>1, <2>2 DEF Control, GivenUp
<1>4. ASSUME NEW o \in Ops, ReconcileStep(o) PROVE GivenUp'
  <2>1. /\ op'[o].status = "cancelled" => op'[o].cand = 0
        /\ op'[o].status = "none" => op[o].status = "none" /\ op'[o].cand = op[o].cand
        /\ \A p \in Ops \ {o} : op'[p] = op[p]
    BY <1>4, ReconcileStepDoes DEF Ended, Turned, Dropped, Became, Control, GivenUp
  <2>2. /\ \A p \in Ops \ {o}, s \in Steps : step'[p][s] = step[p][s]
        /\ \A s \in Steps : step'[o][s] = "external_reported" => op'[o].status = "cancelled"
    BY <1>4, ReconcileStepDoes DEF Marked, Ended, Turned, Dropped, Became, Control, GivenUp
  <2> QED BY <2>1, <2>2 DEF Control, GivenUp
<1>5. ASSUME NEW o \in Ops, Reconcile(o) PROVE GivenUp'
  <2>1. /\ op'[o].status = "cancelled" => op'[o].cand = 0
        /\ op'[o].status = "none" => op[o].status = "none" /\ op'[o].cand = op[o].cand
        /\ \A p \in Ops \ {o} : op'[p] = op[p]
    BY <1>5, ReconcileDoes DEF Ended, Turned, Dropped, Became, Control, GivenUp
  <2>2. /\ \A p \in Ops \ {o}, s \in Steps : step'[p][s] = step[p][s]
        /\ \A s \in Steps : step'[o][s] = "external_reported" => op'[o].status = "cancelled"
    BY <1>5, ReconcileDoes DEF Marked, Ended, Turned, Dropped, Became, Control, GivenUp
  <2> QED BY <2>1, <2>2 DEF Control, GivenUp
<1>6. ASSUME NEW o \in Ops, Retry(o) PROVE GivenUp'
  <2>1. /\ op'[o].status = "cancelled" => op'[o].cand = 0
        /\ op'[o].status = "none" => op[o].status = "none" /\ op'[o].cand = op[o].cand
        /\ \A p \in Ops \ {o} : op'[p] = op[p]
    BY <1>6, RetryDoes DEF Ended, Turned, Dropped, Became, Control, GivenUp
  <2>2. /\ \A p \in Ops \ {o}, s \in Steps : step'[p][s] = step[p][s]
        /\ \A s \in Steps : step'[o][s] = "external_reported" => op'[o].status = "cancelled"
    BY <1>6, RetryDoes DEF Marked, Ended, Turned, Dropped, Became, Control, GivenUp
  <2> QED BY <2>1, <2>2 DEF Control, GivenUp
<1>7. ASSUME NEW o \in Ops, Cancel(o) PROVE GivenUp'
  <2>1. /\ op'[o].status = "cancelled" => op'[o].cand = 0
        /\ op'[o].status = "none" => op[o].status = "none" /\ op'[o].cand = op[o].cand
        /\ \A p \in Ops \ {o} : op'[p] = op[p]
    BY <1>7, CancelDoes DEF Ended, Turned, Dropped, Became, Control, GivenUp
  <2>2. /\ \A p \in Ops \ {o}, s \in Steps : step'[p][s] = step[p][s]
        /\ \A s \in Steps : step'[o][s] = "external_reported" => op'[o].status = "cancelled"
    BY <1>7, CancelDoes DEF Marked, Ended, Turned, Dropped, Became, Control, GivenUp
  <2> QED BY <2>1, <2>2 DEF Control, GivenUp
<1>8. ASSUME NEW o \in Ops, Report(o) PROVE GivenUp'
  <2>1. /\ op'[o].status = "cancelled" => op'[o].cand = 0
        /\ op'[o].status = "none" => op[o].status = "none" /\ op'[o].cand = op[o].cand
        /\ \A p \in Ops \ {o} : op'[p] = op[p]
    BY <1>8, ReportDoes DEF Ended, Turned, Dropped, Became, Control, GivenUp
  <2>2. /\ \A p \in Ops \ {o}, s \in Steps : step'[p][s] = step[p][s]
        /\ \A s \in Steps : step'[o][s] = "external_reported" => op'[o].status = "cancelled"
    BY <1>8, ReportDoes DEF Marked, Ended, Turned, Dropped, Became, Control, GivenUp
  <2> QED BY <2>1, <2>2 DEF Control, GivenUp
<1>9. ASSUME NEW o \in Ops, ClaimSecret(o) PROVE GivenUp'
  <2>1. /\ op'[o].status = "cancelled" => op'[o].cand = 0
        /\ op'[o].status = "none" => op[o].status = "none" /\ op'[o].cand = op[o].cand
        /\ \A p \in Ops \ {o} : op'[p] = op[p]
    BY <1>9, ClaimSecretDoes DEF Ended, Turned, Dropped, Became, Control, GivenUp
  <2>2. /\ \A p \in Ops \ {o}, s \in Steps : step'[p][s] = step[p][s]
        /\ \A s \in Steps : step'[o][s] = "external_reported" => op'[o].status = "cancelled"
    BY <1>9, ClaimSecretDoes DEF Marked, Ended, Turned, Dropped, Became, Control, GivenUp
  <2> QED BY <2>1, <2>2 DEF Control, GivenUp
<1>10. ASSUME NEW o \in Ops, Expire(o) PROVE GivenUp'
  <2>1. step' = step /\ \A p \in Ops : op'[p].status = op[p].status /\ op'[p].cand = op[p].cand
    BY <1>10, ExpireDoes DEF Became
  <2> QED BY <2>1 DEF Control, GivenUp
<1>11. ASSUME Failure PROVE GivenUp'
  <2>1. run.op \in Ops /\ op'[run.op].status \notin {"none", "cancelled"} /\ \A p \in Ops \ {run.op} : op'[p] = op[p]
    BY <1>11, FailureDoes, Running DEF Turned, Ended, Became, Concluded
  <2>2. op[run.op].status = "running"
    BY <1>11, FailureDoes, Running
  <2>3. /\ \A p \in Ops \ {run.op}, s \in Steps : step'[p][s] = step[p][s]
        /\ \A s \in Steps : step'[run.op][s] = "external_reported" => step[run.op][s] = "external_reported"
    BY <1>11, FailureDoes DEF Marked
  <2> QED BY <2>1, <2>2, <2>3 DEF Control, GivenUp
<1>12. ASSUME Complete PROVE GivenUp'
  <2>1. run.op \in Ops /\ op'[run.op].status \notin {"none", "cancelled"} /\ \A p \in Ops \ {run.op} : op'[p] = op[p]
    BY <1>12, CompleteDoes, Running DEF Turned, Ended, Became, Concluded
  <2>2. op[run.op].status = "running"
    BY <1>12, CompleteDoes, Running
  <2>3. /\ \A p \in Ops \ {run.op}, s \in Steps : step'[p][s] = step[p][s]
        /\ \A s \in Steps : step'[run.op][s] = "external_reported" => step[run.op][s] = "external_reported"
    BY <1>12, CompleteDoes DEF Marked
  <2> QED BY <2>1, <2>2, <2>3 DEF Control, GivenUp
<1>13. ASSUME Begin PROVE GivenUp'
  <2>1. run.op \in Ops /\ op'[run.op].status \notin {"none", "cancelled"} /\ \A p \in Ops \ {run.op} : op'[p] = op[p]
    BY <1>13, BeginDoes, Running DEF Turned, Ended, Became, Concluded
  <2>2. op[run.op].status = "running"
    BY <1>13, BeginDoes, Running
  <2>3. /\ \A p \in Ops \ {run.op}, s \in Steps : step'[p][s] = step[p][s]
        /\ \A s \in Steps : step'[run.op][s] = "external_reported" => step[run.op][s] = "external_reported"
    BY <1>13, BeginDoes DEF Marked
  <2> QED BY <2>1, <2>2, <2>3 DEF Control, GivenUp
<1>14. ASSUME Keep PROVE GivenUp'
  <2>1. run.op \in Ops /\ op'[run.op].status \notin {"none", "cancelled"} /\ \A p \in Ops \ {run.op} : op'[p] = op[p]
    BY <1>14, KeepDoes, Running DEF Turned, Ended, Became, Concluded
  <2>2. op[run.op].status = "running"
    BY <1>14, KeepDoes, Running
  <2>3. /\ \A p \in Ops \ {run.op}, s \in Steps : step'[p][s] = step[p][s]
        /\ \A s \in Steps : step'[run.op][s] = "external_reported" => step[run.op][s] = "external_reported"
    BY <1>14, KeepDoes DEF Marked
  <2> QED BY <2>1, <2>2, <2>3 DEF Control, GivenUp
<1>15. ASSUME Record PROVE GivenUp'
  <2>1. run.op \in Ops /\ op'[run.op].status \notin {"none", "cancelled"} /\ \A p \in Ops \ {run.op} : op'[p] = op[p]
    BY <1>15, RecordDoes, Running DEF Turned, Ended, Became, Concluded
  <2>2. op[run.op].status = "running"
    BY <1>15, RecordDoes, Running
  <2>3. /\ \A p \in Ops \ {run.op}, s \in Steps : step'[p][s] = step[p][s]
        /\ \A s \in Steps : step'[run.op][s] = "external_reported" => step[run.op][s] = "external_reported"
    BY <1>15, RecordDoes DEF Marked
  <2> QED BY <2>1, <2>2, <2>3 DEF Control, GivenUp
<1>16. ASSUME GiveUp PROVE GivenUp'
  <2>1. run.op \in Ops /\ op'[run.op].status \notin {"none", "cancelled"} /\ \A p \in Ops \ {run.op} : op'[p] = op[p]
    BY <1>16, GiveUpDoes, Running DEF Turned, Ended, Became, Concluded
  <2>2. op[run.op].status = "running"
    BY <1>16, GiveUpDoes, Running
  <2>3. /\ \A p \in Ops \ {run.op}, s \in Steps : step'[p][s] = step[p][s]
        /\ \A s \in Steps : step'[run.op][s] = "external_reported" => step[run.op][s] = "external_reported"
    BY <1>16, GiveUpDoes DEF Marked
  <2> QED BY <2>1, <2>2, <2>3 DEF Control, GivenUp
<1>17. ASSUME Reserve PROVE GivenUp'
  <2>1. run.op \in Ops /\ op'[run.op].status \notin {"none", "cancelled"} /\ \A p \in Ops \ {run.op} : op'[p] = op[p]
    BY <1>17, ReserveDoes, Running DEF Turned, Ended, Became, Concluded
  <2>2. op[run.op].status = "running"
    BY <1>17, ReserveDoes, Running
  <2>3. /\ \A p \in Ops \ {run.op}, s \in Steps : step'[p][s] = step[p][s]
        /\ \A s \in Steps : step'[run.op][s] = "external_reported" => step[run.op][s] = "external_reported"
    BY <1>17, ReserveDoes DEF Marked
  <2> QED BY <2>1, <2>2, <2>3 DEF Control, GivenUp
<1>18. ASSUME Activate PROVE GivenUp'
  <2>1. run.op \in Ops /\ op'[run.op].status \notin {"none", "cancelled"} /\ \A p \in Ops \ {run.op} : op'[p] = op[p]
    BY <1>18, ActivateDoes, Running DEF Turned, Ended, Became, Concluded
  <2>2. op[run.op].status = "running"
    BY <1>18, ActivateDoes, Running
  <2>3. /\ \A p \in Ops \ {run.op}, s \in Steps : step'[p][s] = step[p][s]
        /\ \A s \in Steps : step'[run.op][s] = "external_reported" => step[run.op][s] = "external_reported"
    BY <1>18, ActivateDoes DEF Marked
  <2> QED BY <2>1, <2>2, <2>3 DEF Control, GivenUp
<1>19. ASSUME Password PROVE GivenUp'
  <2>1. run.op \in Ops /\ op'[run.op].status \notin {"none", "cancelled"} /\ \A p \in Ops \ {run.op} : op'[p] = op[p]
    BY <1>19, PasswordDoes, Running DEF Turned, Ended, Became, Concluded
  <2>2. op[run.op].status = "running"
    BY <1>19, PasswordDoes, Running
  <2>3. /\ \A p \in Ops \ {run.op}, s \in Steps : step'[p][s] = step[p][s]
        /\ \A s \in Steps : step'[run.op][s] = "external_reported" => step[run.op][s] = "external_reported"
    BY <1>19, PasswordDoes DEF Marked
  <2> QED BY <2>1, <2>2, <2>3 DEF Control, GivenUp
<1>20. ASSUME Claim PROVE GivenUp'
  <2>1. run.op \in Ops /\ op'[run.op].status \notin {"none", "cancelled"} /\ \A p \in Ops \ {run.op} : op'[p] = op[p]
    BY <1>20, ClaimDoes, Running DEF Turned, Ended, Became, Concluded
  <2>2. op[run.op].status = "running"
    BY <1>20, ClaimDoes, Running
  <2>3. /\ \A p \in Ops \ {run.op}, s \in Steps : step'[p][s] = step[p][s]
        /\ \A s \in Steps : step'[run.op][s] = "external_reported" => step[run.op][s] = "external_reported"
    BY <1>20, ClaimDoes DEF Marked
  <2> QED BY <2>1, <2>2, <2>3 DEF Control, GivenUp
<1>21. ASSUME Gone PROVE GivenUp'
  <2>1. run.op \in Ops /\ op'[run.op].status \notin {"none", "cancelled"} /\ \A p \in Ops \ {run.op} : op'[p] = op[p]
    BY <1>21, GoneDoes, Running DEF Turned, Ended, Became, Concluded
  <2>2. op[run.op].status = "running"
    BY <1>21, GoneDoes, Running
  <2>3. /\ \A p \in Ops \ {run.op}, s \in Steps : step'[p][s] = step[p][s]
        /\ \A s \in Steps : step'[run.op][s] = "external_reported" => step[run.op][s] = "external_reported"
    BY <1>21, GoneDoes DEF Marked
  <2> QED BY <2>1, <2>2, <2>3 DEF Control, GivenUp
<1>22. ASSUME External PROVE GivenUp'
  <2>1. run.op \in Ops /\ op'[run.op].status \notin {"none", "cancelled"} /\ \A p \in Ops \ {run.op} : op'[p] = op[p]
    BY <1>22, ExternalDoes, Running DEF Turned, Ended, Became, Concluded
  <2>2. op[run.op].status = "running"
    BY <1>22, ExternalDoes, Running
  <2>3. /\ \A p \in Ops \ {run.op}, s \in Steps : step'[p][s] = step[p][s]
        /\ \A s \in Steps : step'[run.op][s] = "external_reported" => step[run.op][s] = "external_reported"
    BY <1>22, ExternalDoes DEF Marked
  <2> QED BY <2>1, <2>2, <2>3 DEF Control, GivenUp
<1>23. ASSUME SaveEntered PROVE GivenUp'
  <2>1. run.op \in Ops /\ op'[run.op].status \notin {"none", "cancelled"} /\ \A p \in Ops \ {run.op} : op'[p] = op[p]
    BY <1>23, SaveEnteredDoes, Running DEF Turned, Ended, Became, Concluded
  <2>2. op[run.op].status = "running"
    BY <1>23, SaveEnteredDoes, Running
  <2>3. /\ \A p \in Ops \ {run.op}, s \in Steps : step'[p][s] = step[p][s]
        /\ \A s \in Steps : step'[run.op][s] = "external_reported" => step[run.op][s] = "external_reported"
    BY <1>23, SaveEnteredDoes DEF Marked
  <2> QED BY <2>1, <2>2, <2>3 DEF Control, GivenUp
<1>24. ASSUME Attach PROVE GivenUp'
  <2>1. run.op \in Ops /\ op'[run.op].status \notin {"none", "cancelled"} /\ \A p \in Ops \ {run.op} : op'[p] = op[p]
    BY <1>24, AttachDoes, Running DEF Turned, Ended, Became, Concluded
  <2>2. op[run.op].status = "running"
    BY <1>24, AttachDoes, Running
  <2>3. /\ \A p \in Ops \ {run.op}, s \in Steps : step'[p][s] = step[p][s]
        /\ \A s \in Steps : step'[run.op][s] = "external_reported" => step[run.op][s] = "external_reported"
    BY <1>24, AttachDoes DEF Marked
  <2> QED BY <2>1, <2>2, <2>3 DEF Control, GivenUp
<1>25. ASSUME UpdateEndpoints PROVE GivenUp'
  <2>1. run.op \in Ops /\ op'[run.op].status \notin {"none", "cancelled"} /\ \A p \in Ops \ {run.op} : op'[p] = op[p]
    BY <1>25, UpdateEndpointsDoes, Running DEF Turned, Ended, Became, Concluded
  <2>2. op[run.op].status = "running"
    BY <1>25, UpdateEndpointsDoes, Running
  <2>3. /\ \A p \in Ops \ {run.op}, s \in Steps : step'[p][s] = step[p][s]
        /\ \A s \in Steps : step'[run.op][s] = "external_reported" => step[run.op][s] = "external_reported"
    BY <1>25, UpdateEndpointsDoes DEF Marked
  <2> QED BY <2>1, <2>2, <2>3 DEF Control, GivenUp
<1>26. ASSUME Reactivate PROVE GivenUp'
  <2>1. run.op \in Ops /\ op'[run.op].status \notin {"none", "cancelled"} /\ \A p \in Ops \ {run.op} : op'[p] = op[p]
    BY <1>26, ReactivateDoes, Running DEF Turned, Ended, Became, Concluded
  <2>2. op[run.op].status = "running"
    BY <1>26, ReactivateDoes, Running
  <2>3. /\ \A p \in Ops \ {run.op}, s \in Steps : step'[p][s] = step[p][s]
        /\ \A s \in Steps : step'[run.op][s] = "external_reported" => step[run.op][s] = "external_reported"
    BY <1>26, ReactivateDoes DEF Marked
  <2> QED BY <2>1, <2>2, <2>3 DEF Control, GivenUp
<1>27. ASSUME ConfigureConnection PROVE GivenUp'
  <2>1. run.op \in Ops /\ op'[run.op].status \notin {"none", "cancelled"} /\ \A p \in Ops \ {run.op} : op'[p] = op[p]
    BY <1>27, ConfigureConnectionDoes, Running DEF Turned, Ended, Became, Concluded
  <2>2. op[run.op].status = "running"
    BY <1>27, ConfigureConnectionDoes, Running
  <2>3. /\ \A p \in Ops \ {run.op}, s \in Steps : step'[p][s] = step[p][s]
        /\ \A s \in Steps : step'[run.op][s] = "external_reported" => step[run.op][s] = "external_reported"
    BY <1>27, ConfigureConnectionDoes DEF Marked
  <2> QED BY <2>1, <2>2, <2>3 DEF Control, GivenUp
<1>28. ASSUME Commit PROVE GivenUp'
  <2>1. run.op \in Ops /\ op'[run.op].status \notin {"none", "cancelled"} /\ \A p \in Ops \ {run.op} : op'[p] = op[p]
    BY <1>28, CommitDoes, Running DEF Turned, Ended, Became, Concluded
  <2>2. op[run.op].status = "running"
    BY <1>28, CommitDoes, Running
  <2>3. /\ \A p \in Ops \ {run.op}, s \in Steps : step'[p][s] = step[p][s]
        /\ \A s \in Steps : step'[run.op][s] = "external_reported" => step[run.op][s] = "external_reported"
    BY <1>28, CommitDoes DEF Marked
  <2> QED BY <2>1, <2>2, <2>3 DEF Control, GivenUp
<1>29. ASSUME Interrupt PROVE GivenUp'
  <2>1. run.op \in Ops /\ op'[run.op].status \notin {"none", "cancelled"} /\ \A p \in Ops \ {run.op} : op'[p] = op[p]
    BY <1>29, InterruptDoes, Running DEF Turned, Ended, Became, Concluded
  <2>2. op[run.op].status = "running"
    BY <1>29, InterruptDoes, Running
  <2>3. /\ \A p \in Ops \ {run.op}, s \in Steps : step'[p][s] = step[p][s]
        /\ \A s \in Steps : step'[run.op][s] = "external_reported" => step[run.op][s] = "external_reported"
    BY <1>29, InterruptDoes DEF Marked
  <2> QED BY <2>1, <2>2, <2>3 DEF Control, GivenUp
<1>30. UNCHANGED <<op, step>> => GivenUp'
  BY DEF Control, GivenUp
<1>31. ASSUME Start PROVE UNCHANGED <<op, step>>
  BY <1>31, StartDoes
<1>32. ASSUME Provider PROVE UNCHANGED <<op, step>>
  BY <1>32, ProviderDoes
<1>33. ASSUME Refused PROVE UNCHANGED <<op, step>>
  BY <1>33, RefusedDoes
<1>34. ASSUME Confirm PROVE UNCHANGED <<op, step>>
  BY <1>34, ConfirmDoes
<1>35. ASSUME Candidate PROVE UNCHANGED <<op, step>>
  BY <1>35, CandidateDoes
<1>36. ASSUME Verify PROVE UNCHANGED <<op, step>>
  BY <1>36, VerifyDoes
<1>37. ASSUME Revoke PROVE UNCHANGED <<op, step>>
  BY <1>37, RevokeDoes
<1>38. ASSUME Revoked PROVE UNCHANGED <<op, step>>
  BY <1>38, RevokedDoes
<1>39. ASSUME Validate PROVE UNCHANGED <<op, step>>
  BY <1>39, ValidateDoes
<1>40. ASSUME Check PROVE UNCHANGED <<op, step>>
  BY <1>40, CheckDoes
<1>41. ASSUME Land PROVE UNCHANGED <<op, step>>
  BY <1>41, LandDoes
<1>42. ASSUME Switch PROVE UNCHANGED <<op, step>>
  BY <1>42, SwitchDoes
<1>43. ASSUME Suspend PROVE UNCHANGED <<op, step>>
  BY <1>43, SuspendDoes
<1>44. ASSUME Unregister PROVE UNCHANGED <<op, step>>
  BY <1>44, UnregisterDoes
<1>45. ASSUME Foreign PROVE UNCHANGED <<op, step>>
  BY <1>45, ForeignDoes
<1> QED
  BY Failures, <1>1, <1>2, <1>3, <1>4, <1>5, <1>6, <1>7, <1>8, <1>9, <1>10, <1>11, <1>12, <1>13, <1>14, <1>15, <1>16, <1>17,
     <1>18, <1>19, <1>20, <1>21, <1>22, <1>23, <1>24, <1>25, <1>26, <1>27, <1>28, <1>29, <1>30, <1>31, <1>32, <1>33, <1>34,
     <1>35, <1>36, <1>37, <1>38, <1>39, <1>40, <1>41, <1>42, <1>43, <1>44, <1>45 DEF Next, Execution

(* Operations and what is executed keep to what was said of them. *)
LEMMA ControlStep ==
  ASSUME NoneIsNoOp, IMAPIsProtocol, LimitsAreNat, LocalTypes, OpTypes, RemoteTypes, Control, References, Next
  PROVE  Control'
BY NoneIsNoOp, IMAPIsProtocol, LimitsAreNat, OneLiveStep, ExecutingStep, RequestedStep, OnPathStep, AnswersStep,
   CallingStep, SettlingStep, UntouchedStep, FailingStep,
   GivenUpStep
   DEF Control

=============================================================================
