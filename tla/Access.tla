------------------------------- MODULE Access -------------------------------
(***************************************************************************)
(* Members, their sessions and invites, the right to open mailboxes, and   *)
(* the mail requests (message views, event streams, composing) that are in *)
(* progress while those rights change: core/members.go,                    *)
(* core/member_status_operations.go, core/offboarding_operations.go,       *)
(* core/mailboxes.go, core/access_requests.go, httpapi/auth.go and         *)
(* httpapi/mail.go.                                                        *)
(*                                                                         *)
(* A handler that reads before its transaction is two actions: the first   *)
(* keeps what was read in calls[c], the second is the transaction.  What a *)
(* handler does after its transaction commits (cancelling the mail         *)
(* requests the change concerns) is pending in calls[c] until it is done.  *)
(* A statement or a transaction of the database is one atomic step.        *)
(***************************************************************************)
EXTENDS Naturals, FiniteSets

CONSTANTS
  Members,            \* members of the organisation
  Founder,            \* the member that setup made the owner
  Mailboxes,
  Sessions,           \* session tokens that can be minted
  Invites,            \* invite tokens that can be minted
  Requests,           \* mail requests served at the same time
  Calls,              \* management and sign-in calls handled at the same time
  NoOne,              \* no member; in a cancellation also "whichever"
  MaxChanges,         \* bound on changes to members and mailboxes
  Kinds,              \* the kinds of calls that are made
  GrantLevels,        \* the levels that are granted
  MaxViewTokens       \* bound on the view tokens handed out

ASSUME FounderIsMember == Founder \in Members
ASSUME NoOneIsNobody   == NoOne \notin Members \cup Mailboxes \cup Sessions
ASSUME BoundsAreNat    == MaxChanges \in Nat /\ MaxViewTokens \in Nat
ASSUME GrantLevelsAreLevels == GrantLevels \subseteq {"read", "send", "full"}

VARIABLES
  status,          \* members.status
  role,            \* members.role_id, by the key of the role
  hasPassword,     \* members.password_hash != ''
  revision,        \* members.revision
  held,            \* the operation that locks "member:<id>"
  sessions,        \* sessions, by token
  invites,         \* invites, by token
  owner,           \* mailboxes.owner_member_id
  grant,           \* mailbox_access.level
  mailboxStatus,   \* mailboxes.status
  mailboxRevision, \* mailboxes.revision
  viewTokens,      \* signed view tokens handed out
  calls,           \* calls before their transaction, or with cancellations after it
  requests,        \* mail requests; the registered ones are Service.requests
  changes          \* transactions that counted up a revision so far

memberVars  == <<status, role, hasPassword, revision, held>>
tokenVars   == <<sessions, invites>>
mailboxVars == <<owner, grant, mailboxStatus, mailboxRevision>>
vars == <<memberVars, tokenVars, mailboxVars, viewTokens, calls, requests, changes>>

-----------------------------------------------------------------------------
Levels   == {"none", "read", "send", "full"}
Statuses == {"invited", "active", "disabled", "departed"}

(* plan: the mailboxes an offboarding locks, each with the revision it was *)
(* planned for; future: what becomes of the member's own, whose new owner  *)
(* and readers are locked as well.                                         *)
NoPlan   == [b \in {} |-> 0]
Plans    == UNION {[B -> Nat] : B \in SUBSET Mailboxes}
NoFuture == [owner |-> NoOne, readers |-> {}, status |-> "active"]
Futures  ==
  {f \in [owner : Members \cup {NoOne}, readers : SUBSET Members, status : {"active", "suspended"}] :
     f.owner # NoOne \/ f.status = "suspended" => f.readers = {} /\ (f.owner = NoOne \/ f.status = "active")}
Locks ==
  [todo : {"toInvited", "toActive", "settling", "departing"}, actor : Members, revision : Nat,
   plan : Plans, future : Futures]
Free == [todo |-> "free", actor |-> NoOne, revision |-> 0, plan |-> NoPlan, future |-> NoFuture]

(* Which registered requests a cancellation reaches: NoOne leaves a field  *)
(* open, keep is the session that cancelMailRequestsExcept spares.         *)
Reaches == [member : Members \cup {NoOne}, mailbox : Mailboxes \cup {NoOne},
            session : Sessions \cup {NoOne}, keep : Sessions \cup {NoOne}]
Everyone     == [member |-> NoOne, mailbox |-> NoOne, session |-> NoOne, keep |-> NoOne]
OfMember(m)  == [Everyone EXCEPT !.member = m]
OfMailbox(b) == [Everyone EXCEPT !.mailbox = b]

Idle == [kind |-> "idle"]
CallRecords == {Idle}
  \cup [kind : {"login"},    member : Members]
  \cup [kind : {"accept"},   invite : Invites]
  \cup [kind : {"password"}, member : Members, session : Sessions]
  \cup [kind : {"status"},   actor : Members, member : Members, revision : Nat, target : Statuses]
  \cup [kind : {"offboard"}, actor : Members, member : Members, revision : Nat]
  \cup [kind : {"role"},     actor : Members, member : Members, revision : Nat, role : {"admin", "member"}]
  \cup [kind : {"transfer"}, actor : Members, member : Members, from : Nat, to : Nat]
  \cup [kind : {"cancel"},   pending : (SUBSET Reaches) \ {{}}]

NoRequest == [stage |-> "none", member |-> NoOne, mailbox |-> NoOne, session |-> NoOne,
              level |-> "none", cancelled |-> FALSE]
RequestRecords == [stage : {"none", "known", "registered", "checked", "serving"},
                   member : Members \cup {NoOne}, mailbox : Mailboxes \cup {NoOne},
                   session : Sessions \cup {NoOne}, level : Levels, cancelled : BOOLEAN]

MemberTypeOK ==
  /\ status \in [Members -> Statuses]
  /\ role \in [Members -> {"owner", "admin", "member"}]
  /\ hasPassword \in [Members -> BOOLEAN]
  /\ revision \in [Members -> Nat]
  /\ held \in [Members -> {Free} \cup Locks]

TokenTypeOK ==
  /\ sessions \in [Sessions -> [member : Members \cup {NoOne}, state : {"unused", "live", "expired", "deleted"}]]
  /\ invites \in [Invites -> [member : Members \cup {NoOne}, state : {"unused", "open", "accepted", "deleted"}]]

MailboxTypeOK ==
  /\ owner \in [Mailboxes -> Members \cup {NoOne}]
  /\ grant \in [Mailboxes -> [Members -> Levels]]
  /\ mailboxStatus \in [Mailboxes -> {"active", "suspended", "archived"}]
  /\ mailboxRevision \in [Mailboxes -> Nat]

CallTypeOK == calls \in [Calls -> CallRecords]

RequestTypeOK ==
  /\ viewTokens \subseteq [member : Members, mailbox : Mailboxes, session : Sessions]
  /\ requests \in [Requests -> RequestRecords]

TypeOK == /\ MemberTypeOK /\ TokenTypeOK /\ MailboxTypeOK /\ CallTypeOK /\ RequestTypeOK
          /\ changes \in 0 .. MaxChanges

(* After setup and some onboarding: the founder owns the organisation; the *)
(* others are administrators, invited, active or disabled.                 *)
Init ==
  /\ status \in {f \in [Members -> {"invited", "active", "disabled"}] : f[Founder] = "active"}
  /\ role = [m \in Members |-> IF m = Founder THEN "owner" ELSE "admin"]
  /\ hasPassword \in {f \in [Members -> BOOLEAN] :
                        \A m \in Members : /\ status[m] = "active" => f[m]
                                           /\ status[m] = "invited" => ~f[m]}
  /\ revision = [m \in Members |-> 1]
  /\ held = [m \in Members |-> Free]
  /\ sessions = [s \in Sessions |-> [member |-> NoOne, state |-> "unused"]]
  /\ invites = [i \in Invites |-> [member |-> NoOne, state |-> "unused"]]
  /\ owner \in [Mailboxes -> Members \cup {NoOne}]
  /\ grant = [b \in Mailboxes |-> [m \in Members |-> "none"]]
  /\ mailboxStatus = [b \in Mailboxes |-> "active"]
  /\ mailboxRevision = [b \in Mailboxes |-> 1]
  /\ viewTokens = {}
  /\ calls = [c \in Calls |-> Idle]
  /\ requests = [r \in Requests |-> NoRequest]
  /\ changes = 0

-----------------------------------------------------------------------------
(* What the handlers read.                                                 *)

Covers(holder, wanted) == CASE holder = "owner"  -> TRUE
                            [] holder = "admin"  -> wanted \in {"admin", "member"}
                            [] holder = "member" -> wanted = "member"

MayManageMembers(a) == status[a] = "active" /\ role[a] \in {"owner", "admin"}
MemberManageable(a, m) ==
  \/ a = m
  \/ status[a] = "active" /\ role[m] # "owner" /\ Covers(role[a], role[m])

(* requireResourceAvailable for the key "member:<id>", and for a mailbox's. *)
Heirs(f)       == (f.readers \cup {f.owner}) \ {NoOne}
Available(m)   == held[m] = Free /\ \A n \in Members : m \notin Heirs(held[n].future)
MailboxFree(b) == \A n \in Members : b \notin DOMAIN held[n].plan

LiveSession(s)    == sessions[s].state = "live" /\ status[sessions[s].member] = "active"
AccessLevel(m, b) == IF owner[b] = m THEN "full" ELSE grant[b][m]
MayOpen(m, b)     == status[m] = "active" /\ AccessLevel(m, b) # "none" /\ mailboxStatus[b] = "active"

(* The effects several handlers share.                                     *)
Change  == changes < MaxChanges /\ changes' = changes + 1
Bump(M) == revision' = [m \in Members |-> IF m \in M THEN revision[m] + 1 ELSE revision[m]]

Deleted == [member |-> NoOne, state |-> "deleted"]
EndSessions(m, keep) ==
  [s \in Sessions |-> IF sessions[s].member = m /\ s # keep THEN Deleted ELSE sessions[s]]
EndInvites(m) ==
  [i \in Invites |-> IF invites[i] = [member |-> m, state |-> "open"] THEN Deleted ELSE invites[i]]

Begin(c, call) == call.kind \in Kinds /\ calls[c] = Idle /\ calls' = [calls EXCEPT ![c] = call]
Return(c)      == calls' = [calls EXCEPT ![c] = Idle]
ThenCancel(c, reaches) == calls' = [calls EXCEPT ![c] = [kind |-> "cancel", pending |-> reaches]]

OnlyCalls    == UNCHANGED <<memberVars, tokenVars, mailboxVars, viewTokens, requests, changes>>
OnlyRequests == UNCHANGED <<memberVars, tokenVars, mailboxVars, viewTokens, calls, changes>>
NoMail       == UNCHANGED <<mailboxVars, viewTokens, requests>>

-----------------------------------------------------------------------------
(* Signing in and out.                                                     *)

(* POST /api/auth/login: the password is compared, which takes time.       *)
VerifyLogin(c, m) ==
  /\ status[m] = "active" /\ hasPassword[m]
  /\ Begin(c, [kind |-> "login", member |-> m])
  /\ OnlyCalls

MayStartUnchecked(m) == status[m] \in Statuses
MayStart(m)          == status[m] = "active"

CreateSession(c, s) ==
  /\ calls[c].kind = "login" /\ sessions[s].state = "unused"
  /\ MayStart(calls[c].member)
  /\ sessions' = [sessions EXCEPT ![s] = [member |-> calls[c].member, state |-> "live"]]
  /\ Return(c)
  /\ NoMail /\ UNCHANGED <<memberVars, invites, changes>>

(* POST /api/auth/logout of a session that withSession has found.          *)
DeleteSession(c, s) ==
  /\ LiveSession(s) /\ calls[c] = Idle
  /\ sessions' = [sessions EXCEPT ![s] = Deleted]
  /\ ThenCancel(c, {[Everyone EXCEPT !.session = s]})
  /\ NoMail /\ UNCHANGED <<memberVars, invites, changes>>

(* The session's time is over; the row goes when LookupSession or the      *)
(* janitor next sees it.  Requests in progress are not cancelled.          *)
ExpireSession(s) ==
  /\ sessions[s].state = "live"
  /\ sessions' = [sessions EXCEPT ![s].state = "expired"]
  /\ NoMail /\ UNCHANGED <<memberVars, invites, calls, changes>>

(* A handler fails, its caller gives up, or its transaction refuses.       *)
DropCall(c) ==
  /\ calls[c].kind \notin {"idle", "cancel"}
  /\ Return(c)
  /\ OnlyCalls

-----------------------------------------------------------------------------
(* Invites.                                                                *)

(* What is read before the transaction is compared again in it (the        *)
(* revision must be the same), so the two are one action.                  *)
CreateInvite(a, m, i) ==
  /\ MayManageMembers(a) /\ MemberManageable(a, m) /\ Available(m)
  /\ status[m] \in {"active", "invited"} /\ invites[i].state = "unused"
  /\ invites' = [EndInvites(m) EXCEPT ![i] = [member |-> m, state |-> "open"]]
  /\ NoMail /\ UNCHANGED <<memberVars, sessions, calls, changes>>

(* Nothing looks at an expired row again.                                  *)
ExpireInvite(i) ==
  /\ invites[i].state = "open"
  /\ invites' = [invites EXCEPT ![i] = Deleted]
  /\ NoMail /\ UNCHANGED <<memberVars, sessions, calls, changes>>

(* The link is looked up and the new password hashed before the transaction. *)
LookupInvite(c, i) ==
  /\ invites[i].state = "open"
  /\ Begin(c, [kind |-> "accept", invite |-> i])
  /\ OnlyCalls

InviteOpen(i)     == invites[i].state = "open"

(* The handler signs the member in afterwards, without the password check. *)
AcceptInvite(c) ==
  /\ calls[c].kind = "accept"
  /\ LET i == calls[c].invite  m == invites[i].member IN
     /\ InviteOpen(i) /\ Available(m) /\ status[m] \in {"invited", "active"} /\ Change
     /\ invites' = [invites EXCEPT ![i].state = "accepted"]
     /\ hasPassword' = [hasPassword EXCEPT ![m] = TRUE]
     /\ status' = [status EXCEPT ![m] = "active"]
     /\ Bump({m})
     /\ calls' = [calls EXCEPT ![c] = [kind |-> "login", member |-> m]]
  /\ NoMail /\ UNCHANGED <<role, held, sessions>>

-----------------------------------------------------------------------------
(* Passwords: an administrator's reset, and a member's own change, which   *)
(* keeps the session it is made in.                                        *)

StorePassword(c, m, keep) ==
  /\ Available(m) /\ status[m] # "departed" /\ Change
  /\ hasPassword' = [hasPassword EXCEPT ![m] = TRUE]
  /\ status' = [status EXCEPT ![m] = IF @ = "invited" THEN "active" ELSE @]
  /\ Bump({m})
  /\ sessions' = EndSessions(m, keep)
  /\ ThenCancel(c, {[OfMember(m) EXCEPT !.keep = keep]})
  /\ NoMail /\ UNCHANGED <<role, held, invites>>

SetPassword(c, a, m) ==
  /\ calls[c] = Idle
  /\ MayManageMembers(a) /\ MemberManageable(a, m)
  /\ StorePassword(c, m, NoOne)

ReadOwnPassword(c, s) ==
  /\ LiveSession(s) /\ hasPassword[sessions[s].member]
  /\ Begin(c, [kind |-> "password", member |-> sessions[s].member, session |-> s])
  /\ OnlyCalls

ChangeOwnPassword(c) ==
  /\ calls[c].kind = "password"
  /\ StorePassword(c, calls[c].member, calls[c].session)

-----------------------------------------------------------------------------
(* Enabling and disabling, the operation member.status.                    *)

StatusAsked(m, enable)   == IF enable THEN "enabled" ELSE "disabled"
StatusPlanned(m, enable) == CASE ~enable                   -> "disabled"
                              [] enable /\ hasPassword[m]  -> "active"
                              [] enable /\ ~hasPassword[m] -> "invited"

PrepareMemberStatus(c, a, m, enable) ==
  /\ MayManageMembers(a) /\ status[m] # "departed" /\ MemberManageable(a, m)
  /\ ~enable => a # m /\ role[m] # "owner"
  /\ Begin(c, [kind |-> "status", actor |-> a, member |-> m, revision |-> revision[m],
               target |-> StatusPlanned(m, enable)])
  /\ OnlyCalls

PlanIsOpen(m, seen)    == status[m] # "departed"
PlanIsCurrent(m, seen) == revision[m] = seen /\ status[m] # "departed"

(* Disabling commits with the operation's own record; enabling is left to  *)
(* its execution.  Either way the member is locked until the end.          *)
QueueDisable(c) ==
  /\ calls[c].kind = "status" /\ calls[c].target = "disabled"
  /\ LET m == calls[c].member  a == calls[c].actor IN
     /\ MayManageMembers(a) /\ Available(m) /\ PlanIsCurrent(m, calls[c].revision) /\ Change
     /\ status' = [status EXCEPT ![m] = "disabled"]
     /\ Bump({m})
     /\ sessions' = EndSessions(m, NoOne)
     /\ held' = [held EXCEPT ![m] = [Free EXCEPT !.todo = "settling", !.actor = a, !.revision = revision[m] + 1]]
     /\ ThenCancel(c, {OfMember(m)})
  /\ NoMail /\ UNCHANGED <<role, hasPassword, invites>>

QueueEnable(c) ==
  /\ calls[c].kind = "status" /\ calls[c].target # "disabled"
  /\ LET m == calls[c].member IN
     /\ Available(m) /\ PlanIsCurrent(m, calls[c].revision)
     /\ held' = [held EXCEPT ![m] = [Free EXCEPT !.todo = IF calls[c].target = "active" THEN "toActive" ELSE "toInvited",
                                                 !.actor = calls[c].actor, !.revision = revision[m]]]
  /\ Return(c)
  /\ NoMail /\ UNCHANGED <<status, role, hasPassword, revision, tokenVars, changes>>

ExecuteEnable(m) ==
  /\ held[m].todo \in {"toActive", "toInvited"}
  /\ MayManageMembers(held[m].actor) /\ PlanIsCurrent(m, held[m].revision) /\ Change
  /\ status' = [status EXCEPT ![m] = IF held[m].todo = "toActive" THEN "active" ELSE "invited"]
  /\ Bump({m})
  /\ held' = [held EXCEPT ![m] = [held[m] EXCEPT !.todo = "settling", !.revision = held[m].revision + 1]]
  /\ NoMail /\ UNCHANGED <<role, hasPassword, tokenVars, calls>>

(* The operation succeeds, fails or is cancelled and drops its locks.      *)
FinishOperation(m) ==
  /\ held[m] # Free
  /\ held' = [held EXCEPT ![m] = Free]
  /\ NoMail /\ UNCHANGED <<status, role, hasPassword, revision, tokenVars, calls, changes>>

-----------------------------------------------------------------------------
(* Leaving, the operation member.offboard: the departure commits with the  *)
(* operation's own record, the mailboxes are handed over by its execution. *)

MayDepart(a, m) == a # m /\ role[m] # "owner" /\ MemberManageable(a, m) /\ status[m] # "departed"

PrepareOffboard(c, a, m) ==
  /\ MayManageMembers(a) /\ MayDepart(a, m)
  /\ Begin(c, [kind |-> "offboard", actor |-> a, member |-> m, revision |-> revision[m]])
  /\ OnlyCalls

CommitDeparture(c, future) ==
  /\ calls[c].kind = "offboard"
  /\ LET m == calls[c].member  a == calls[c].actor
         concerned == {b \in Mailboxes : owner[b] = m \/ grant[b][m] # "none"} IN
     /\ (\A b \in concerned : owner[b] # m) => future = NoFuture
     /\ \A n \in Heirs(future) : n # m /\ status[n] = "active" /\ Available(n)
     /\ MayManageMembers(a) /\ MayDepart(a, m) /\ revision[m] = calls[c].revision
     /\ Available(m) /\ (\A b \in concerned : MailboxFree(b)) /\ Change
     /\ status' = [status EXCEPT ![m] = "departed"]
     /\ Bump({m})
     /\ held' = [held EXCEPT ![m] = [todo |-> "departing", actor |-> a, revision |-> revision[m] + 1,
                                     plan |-> [b \in concerned |-> mailboxRevision[b]],
                                     future |-> future]]
     /\ sessions' = EndSessions(m, NoOne)
     /\ invites' = EndInvites(m)
     /\ grant' = [b \in Mailboxes |-> [grant[b] EXCEPT ![m] = "none"]]
     /\ ThenCancel(c, {OfMember(m)})
  /\ UNCHANGED <<role, hasPassword, owner, mailboxStatus, mailboxRevision, viewTokens, requests>>

(* Every mailbox of the member goes to an active member, becomes shared    *)
(* with some, is suspended or is kept without an owner.  One that was      *)
(* suspended before becomes active again, an archived one stays archived.  *)
HandOver(c, m) ==
  LET future == held[m].future
      mine   == {b \in DOMAIN held[m].plan : owner[b] = m}
  IN
  /\ held[m].todo = "departing" /\ calls[c] = Idle
  /\ MayManageMembers(held[m].actor) /\ Change
  /\ \A n \in Heirs(future) : status[n] = "active"
  /\ \A b \in mine : mailboxRevision[b] = held[m].plan[b]
  /\ owner' = [b \in Mailboxes |-> IF b \in mine THEN future.owner ELSE owner[b]]
  /\ mailboxStatus' = [b \in Mailboxes |-> IF b \in mine /\ mailboxStatus[b] # "archived"
                                           THEN future.status ELSE mailboxStatus[b]]
  /\ mailboxRevision' = [b \in Mailboxes |-> IF b \in mine THEN mailboxRevision[b] + 1 ELSE mailboxRevision[b]]
  /\ grant' = [b \in Mailboxes |-> [n \in Members |-> IF b \in mine /\ n \in future.readers
                                                      THEN "full" ELSE grant[b][n]]]
  /\ held' = [held EXCEPT ![m].todo = "settling"]
  /\ LET reaches == {OfMailbox(b) : b \in DOMAIN held[m].plan} IN
     IF reaches = {} THEN UNCHANGED calls ELSE ThenCancel(c, reaches)
  /\ UNCHANGED <<status, role, hasPassword, revision, tokenVars, viewTokens, requests>>

-----------------------------------------------------------------------------
(* Roles and ownership.                                                    *)

ReadForRole(c, a, m, r) ==
  /\ MayManageMembers(a) /\ a # m /\ role[m] # "owner" /\ r # role[m]
  /\ Begin(c, [kind |-> "role", actor |-> a, member |-> m, revision |-> revision[m], role |-> r])
  /\ OnlyCalls

UpdateMember(c) ==
  /\ calls[c].kind = "role"
  /\ LET m == calls[c].member  a == calls[c].actor IN
     /\ MayManageMembers(a) /\ MemberManageable(a, m) /\ Covers(role[a], calls[c].role)
     /\ Available(m) /\ revision[m] = calls[c].revision /\ Change
     /\ role' = [role EXCEPT ![m] = calls[c].role]
     /\ Bump({m})
  /\ Return(c)
  /\ NoMail /\ UNCHANGED <<status, hasPassword, held, tokenVars>>

ReadForTransfer(c, a, m) ==
  /\ role[a] = "owner" /\ status[a] = "active" /\ status[m] = "active"
  /\ Begin(c, [kind |-> "transfer", actor |-> a, member |-> m, from |-> revision[a], to |-> revision[m]])
  /\ OnlyCalls

RecipientUnchecked(m, seen) == status[m] \in Statuses
RecipientCurrent(m, seen)   == revision[m] = seen /\ status[m] = "active"

(* The first UPDATE counts up the owner's revision, so a transfer to       *)
(* oneself fails at the second.                                            *)
TransferOwnership(c) ==
  /\ calls[c].kind = "transfer"
  /\ LET m == calls[c].member  a == calls[c].actor IN
     /\ a # m /\ Available(a) /\ Available(m) /\ Change
     /\ revision[a] = calls[c].from /\ status[a] = "active" /\ role[a] = "owner"
     /\ RecipientCurrent(m, calls[c].to)
     /\ role' = [role EXCEPT ![a] = "admin", ![m] = "owner"]
     /\ Bump({a, m})
  /\ Return(c)
  /\ NoMail /\ UNCHANGED <<status, hasPassword, held, tokenVars>>

-----------------------------------------------------------------------------
(* The right to open a mailbox.                                            *)

ChangeMailboxRow(c, b, reach) ==
  /\ calls[c] = Idle /\ Change
  /\ mailboxRevision' = [mailboxRevision EXCEPT ![b] = @ + 1]
  /\ ThenCancel(c, {reach})
  /\ UNCHANGED <<memberVars, tokenVars, viewTokens, requests>>

(* Neither the locks of an operation nor the member's status is looked at; *)
(* that the member is not the owner is checked before the transaction, so  *)
(* a row for an owner can exist (and is never looked at).                  *)
GrantAccess(c, b, m, level) ==
  /\ grant' = [grant EXCEPT ![b][m] = level]
  /\ ChangeMailboxRow(c, b, [OfMember(m) EXCEPT !.mailbox = b])
  /\ UNCHANGED <<owner, mailboxStatus>>

RevokeAccess(c, b, m) == GrantAccess(c, b, m, "none")

(* The operation mailbox.update, its new owner.  The plan of a mailbox     *)
(* operation is validated again in the transaction that commits it.        *)
UpdateMailboxOwner(c, b, m) ==
  /\ MailboxFree(b) /\ m # owner[b]
  /\ m # NoOne => status[m] \in {"active", "invited"}
  /\ owner' = [owner EXCEPT ![b] = m]
  /\ ChangeMailboxRow(c, b, OfMailbox(b))
  /\ UNCHANGED <<grant, mailboxStatus>>

(* mailbox.suspend, mailbox.archive and mailbox.reactivate.                *)
SetMailboxStatus(c, b, new) ==
  /\ MailboxFree(b)
  /\ mailboxStatus[b] # "archived" /\ (new = "active" => mailboxStatus[b] = "suspended")
  /\ mailboxStatus' = [mailboxStatus EXCEPT ![b] = new]
  /\ ChangeMailboxRow(c, b, OfMailbox(b))
  /\ UNCHANGED <<owner, grant>>

-----------------------------------------------------------------------------
(* Mail requests: withSession finds the member, the request is registered, *)
(* then the session and the access are read, then it is served.            *)

Step(r, q) == requests' = [requests EXCEPT ![r] = q] /\ OnlyRequests
Proceeds(r, stage) == requests[r].stage = stage /\ ~requests[r].cancelled

LookupSession(r, s, b) ==
  /\ requests[r] = NoRequest /\ LiveSession(s)
  /\ Step(r, [NoRequest EXCEPT !.stage = "known", !.member = sessions[s].member,
                               !.mailbox = b, !.session = s])

(* A message frame has no cookie; its signed token names member and session. *)
CheckViewToken(r, t) ==
  /\ requests[r] = NoRequest
  /\ Step(r, [NoRequest EXCEPT !.stage = "known", !.member = t.member,
                               !.mailbox = t.mailbox, !.session = t.session])

RegisterMailRequest(r) ==
  /\ requests[r].stage = "known"
  /\ Step(r, [requests[r] EXCEPT !.stage = "registered"])

SessionHashActive(r) ==
  /\ Proceeds(r, "registered")
  /\ LiveSession(requests[r].session) /\ sessions[requests[r].session].member = requests[r].member
  /\ Step(r, [requests[r] EXCEPT !.stage = "checked"])

(* Also the second look of ResolveMailbox, and an event stream's look at   *)
(* every ping and every event.                                             *)
CheckMailboxAccess(r) ==
  /\ Proceeds(r, "checked") \/ Proceeds(r, "serving")
  /\ MayOpen(requests[r].member, requests[r].mailbox)
  /\ Step(r, [requests[r] EXCEPT !.stage = "serving",
                                 !.level = AccessLevel(requests[r].member, requests[r].mailbox)])

ViewToken(r) ==
  /\ Proceeds(r, "serving") /\ Cardinality(viewTokens) < MaxViewTokens
  /\ viewTokens' = viewTokens \cup {[member |-> requests[r].member, mailbox |-> requests[r].mailbox,
                                     session |-> requests[r].session]}
  /\ UNCHANGED <<memberVars, tokenVars, mailboxVars, calls, requests, changes>>

(* The answer is complete, a check refused, or the context was cancelled.  *)
EndRequest(r) ==
  /\ requests[r] # NoRequest
  /\ Step(r, NoRequest)

InRequestsLate(q) == q.stage = "serving"
InRequests(q)     == q.stage \in {"registered", "checked", "serving"}
Hits(k, q) ==
  /\ InRequests(q)
  /\ k.member \in {NoOne, q.member} /\ k.mailbox \in {NoOne, q.mailbox}
  /\ k.session \in {NoOne, q.session} /\ (k.keep = NoOne \/ k.keep # q.session)

CancelMailRequests(c, k) ==
  /\ calls[c].kind = "cancel" /\ k \in calls[c].pending
  /\ requests' = [r \in Requests |-> IF Hits(k, requests[r])
                                     THEN [requests[r] EXCEPT !.cancelled = TRUE] ELSE requests[r]]
  /\ IF calls[c].pending = {k} THEN Return(c) ELSE ThenCancel(c, calls[c].pending \ {k})
  /\ UNCHANGED <<memberVars, tokenVars, mailboxVars, viewTokens, changes>>

(* The process stops and is started again: requests, calls and what they   *)
(* had still to do are gone; the database and the signed tokens remain.    *)
Restart ==
  /\ calls' = [c \in Calls |-> Idle]
  /\ requests' = [r \in Requests |-> NoRequest]
  /\ UNCHANGED <<memberVars, tokenVars, mailboxVars, viewTokens, changes>>

-----------------------------------------------------------------------------
SignIn(c) ==
  \/ \E m \in Members : VerifyLogin(c, m)
  \/ \E s \in Sessions : CreateSession(c, s) \/ DeleteSession(c, s) \/ ReadOwnPassword(c, s)
  \/ \E i \in Invites : LookupInvite(c, i)
  \/ AcceptInvite(c)
  \/ ChangeOwnPassword(c)
  \/ DropCall(c)

ManageMember(c, m) ==
  \/ \E a \in Members :
       \/ SetPassword(c, a, m)
       \/ \E enable \in BOOLEAN : PrepareMemberStatus(c, a, m, enable)
       \/ PrepareOffboard(c, a, m)
       \/ \E r \in {"admin", "member"} : ReadForRole(c, a, m, r)
       \/ ReadForTransfer(c, a, m)
  \/ HandOver(c, m)

CommitChange(c) ==
  \/ QueueDisable(c) \/ QueueEnable(c)
  \/ \E future \in Futures : CommitDeparture(c, future)
  \/ UpdateMember(c) \/ TransferOwnership(c)

ManageMailbox(c, b) ==
  \/ \E m \in Members : RevokeAccess(c, b, m)
  \/ \E m \in Members, level \in GrantLevels : GrantAccess(c, b, m, level)
  \/ \E m \in Members \cup {NoOne} : UpdateMailboxOwner(c, b, m)
  \/ \E new \in {"active", "suspended", "archived"} : SetMailboxStatus(c, b, new)

Serve(r) ==
  \/ \E s \in Sessions, b \in Mailboxes : LookupSession(r, s, b)
  \/ \E t \in viewTokens : CheckViewToken(r, t)
  \/ RegisterMailRequest(r) \/ SessionHashActive(r) \/ CheckMailboxAccess(r)
  \/ ViewToken(r) \/ EndRequest(r)

Next ==
  \/ \E c \in Calls : \/ SignIn(c)
                      \/ \E m \in Members : ManageMember(c, m)
                      \/ CommitChange(c)
                      \/ \E b \in Mailboxes : ManageMailbox(c, b)
                      \/ calls[c].kind = "cancel" /\ \E k \in calls[c].pending : CancelMailRequests(c, k)
  \/ \E m \in Members : ExecuteEnable(m) \/ FinishOperation(m)
  \/ \E r \in Requests : Serve(r)
  \/ \E s \in Sessions : ExpireSession(s)
  \/ \E i \in Invites : ExpireInvite(i) \/ \E a, m \in Members : CreateInvite(a, m, i)
  \/ Restart

Spec == Init /\ [][Next]_vars

-----------------------------------------------------------------------------
(* A request that is being served, and has not been told to stop, is one   *)
(* its member may make: the session was not ended by anyone (it may have   *)
(* run out), the member is active, and the mailbox is usable and open to   *)
(* the member at the level the request was given; or the call that took    *)
(* this away is about to cancel the request.  This is what "register, then *)
(* check" in withMailbox and "commit, then cancel" everywhere are for.     *)
Authorised(q) ==
  /\ sessions[q.session].member = q.member /\ sessions[q.session].state \in {"live", "expired"}
  /\ status[q.member] = "active"
  /\ mailboxStatus[q.mailbox] = "active" /\ q.level = AccessLevel(q.member, q.mailbox)

ServingIsAuthorised ==
  \A r \in Requests :
     Proceeds(r, "serving") =>
       \/ Authorised(requests[r])
       \/ \E c \in Calls : /\ calls[c].kind = "cancel"
                           /\ \E k \in calls[c].pending : Hits(k, requests[r])

(* docs/security.md: disabling or offboarding a member ends all sessions   *)
(* at once.  No later sign-in, invite or password change brings one back:  *)
(* only active members have a session, and nobody who left has an invite   *)
(* that could be accepted.                                                 *)
SessionsFollowStatus ==
  /\ \A s \in Sessions : sessions[s].state = "live" => status[sessions[s].member] = "active"
  /\ \A i \in Invites : invites[i].state = "open" => status[invites[i].member] # "departed"

(* The organisation always has exactly one owner, who is active: whatever  *)
(* transfers, role changes, disabling and leaving happen at the same time. *)
OneOwner == \E m \in Members : /\ status[m] = "active"
                               /\ \A n \in Members : role[n] = "owner" <=> n = m

(* Who is active can sign in, and who is invited has no password yet: the  *)
(* status an enabling operation was planned with is never stale.           *)
StatusMatchesPassword ==
  \A m \in Members : /\ status[m] = "active" => hasPassword[m]
                     /\ status[m] = "invited" => ~hasPassword[m]

=============================================================================
