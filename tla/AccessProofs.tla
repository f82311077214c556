---------------------------- MODULE AccessProofs ----------------------------
(***************************************************************************)
(* Proofs about Access, for every set of members, mailboxes, sessions,     *)
(* invites, requests and calls and for every value of the bounds.          *)
(*                                                                         *)
(* Three invariants, each of which needs the one before: Sound (types, and *)
(* tokens and requests that name somebody), MembersSound (status, roles,   *)
(* passwords and sessions, with the plans that are still to be carried     *)
(* out), and Rests (what every request that is being served rests on).     *)
(***************************************************************************)
EXTENDS Access, TLAPS

-----------------------------------------------------------------------------
(* Type correctness *)

(* Sessions, invites and requests in use name a member; requests name a    *)
(* mailbox and a session as well.                                          *)
SessionsSound ==
  /\ sessions \in [Sessions -> [member : Members \cup {NoOne}, state : {"unused", "live", "expired", "deleted"}]]
  /\ \A s \in Sessions : sessions[s].state \in {"live", "expired"} => sessions[s].member \in Members

InvitesSound ==
  /\ invites \in [Invites -> [member : Members \cup {NoOne}, state : {"unused", "open", "accepted", "deleted"}]]
  /\ \A i \in Invites : invites[i].state \in {"open", "accepted"} => invites[i].member \in Members

RequestsSound ==
  /\ RequestTypeOK
  /\ \A r \in Requests : requests[r].stage # "none" =>
       /\ requests[r].member \in Members /\ requests[r].mailbox \in Mailboxes
       /\ requests[r].session \in Sessions

Sound ==
  /\ MemberTypeOK /\ SessionsSound /\ InvitesSound /\ MailboxTypeOK /\ CallTypeOK /\ RequestsSound
  /\ changes \in 0 .. MaxChanges

(* The stronger invariant gives every variable its type.                   *)
LEMMA SoundTypes == Sound => TypeOK
  BY DEF Sound, TypeOK, SessionsSound, InvitesSound, RequestsSound, TokenTypeOK

(* What a step leaves alone stays as it is. *)
LEMMA Frames ==
  ASSUME Sound
  PROVE  /\ UNCHANGED memberVars => MemberTypeOK'
         /\ UNCHANGED sessions => SessionsSound'
         /\ UNCHANGED invites => InvitesSound'
         /\ UNCHANGED mailboxVars => MailboxTypeOK'
         /\ UNCHANGED calls => CallTypeOK'
         /\ UNCHANGED <<viewTokens, requests>> => RequestsSound'
         /\ UNCHANGED changes \/ Change => changes' \in 0 .. MaxChanges
<1>1. UNCHANGED memberVars => MemberTypeOK'
  BY DEF Sound, MemberTypeOK, memberVars
<1>2. (UNCHANGED sessions => SessionsSound') /\ (UNCHANGED invites => InvitesSound')
  BY DEF Sound, SessionsSound, InvitesSound
<1>3. (UNCHANGED mailboxVars => MailboxTypeOK') /\ (UNCHANGED calls => CallTypeOK')
  BY DEF Sound, MailboxTypeOK, mailboxVars, CallTypeOK
<1>4. UNCHANGED <<viewTokens, requests>> => RequestsSound'
  BY DEF Sound, RequestsSound, RequestTypeOK
<1>5. UNCHANGED changes \/ Change => changes' \in 0 .. MaxChanges
  BY BoundsAreNat DEF Sound, Change
<1> QED
  BY <1>1, <1>2, <1>3, <1>4, <1>5

(* A call has the fields of its kind. *)
LEMMA CallFields ==
  ASSUME CallTypeOK, NEW c \in Calls
  PROVE  /\ calls[c] \in CallRecords
         /\ calls[c].kind = "login" => calls[c].member \in Members
         /\ calls[c].kind = "accept" => calls[c].invite \in Invites
         /\ calls[c].kind = "password" => calls[c].member \in Members /\ calls[c].session \in Sessions
         /\ calls[c].kind = "status" => /\ calls[c].actor \in Members /\ calls[c].member \in Members
                                        /\ calls[c].revision \in Nat /\ calls[c].target \in Statuses
         /\ calls[c].kind = "offboard" => /\ calls[c].actor \in Members /\ calls[c].member \in Members
                                          /\ calls[c].revision \in Nat
         /\ calls[c].kind = "role" => /\ calls[c].actor \in Members /\ calls[c].member \in Members
                                      /\ calls[c].revision \in Nat /\ calls[c].role \in {"admin", "member"}
         /\ calls[c].kind = "transfer" => /\ calls[c].actor \in Members /\ calls[c].member \in Members
                                          /\ calls[c].from \in Nat /\ calls[c].to \in Nat
         /\ calls[c].kind = "cancel" => calls[c].pending \subseteq Reaches
<1>1. calls[c] \in CallRecords
  BY DEF CallTypeOK
<1> QED
  BY <1>1 DEF CallRecords, Idle

(* Whatever record a call becomes, the table of calls keeps its type.      *)
LEMMA CallSet ==
  ASSUME CallTypeOK, NEW c \in Calls, NEW k \in CallRecords, calls' = [calls EXCEPT ![c] = k]
  PROVE  CallTypeOK'
  BY DEF CallTypeOK

\* So does a call that returns.
LEMMA CallIdle ==
  ASSUME CallTypeOK, NEW c \in Calls, Return(c)
  PROVE  CallTypeOK'
  BY CallSet DEF Return, CallRecords

\* And one whose commit has somebody to cancel.
LEMMA CallCancels ==
  ASSUME CallTypeOK, NEW c \in Calls, NEW reaches \in SUBSET Reaches, reaches # {}, ThenCancel(c, reaches)
  PROVE  CallTypeOK'
<1>1. [kind |-> "cancel", pending |-> reaches] \in CallRecords
  BY DEF CallRecords
<1> QED
  BY <1>1, CallSet DEF ThenCancel

(* The cancellations that handlers ask for. *)
LEMMA ReachTypes ==
  /\ \A m \in Members : OfMember(m) \in Reaches
  /\ \A m \in Members, s \in Sessions \cup {NoOne} : [OfMember(m) EXCEPT !.keep = s] \in Reaches
  /\ \A m \in Members, b \in Mailboxes : [OfMember(m) EXCEPT !.mailbox = b] \in Reaches
  /\ \A b \in Mailboxes : OfMailbox(b) \in Reaches
  /\ \A s \in Sessions : [Everyone EXCEPT !.session = s] \in Reaches
  BY DEF Everyone, OfMember, OfMailbox, Reaches

(* The initial state. *)
LEMMA SoundInit == Init => Sound
<1> SUFFICES ASSUME Init PROVE Sound
  OBVIOUS
<1>1. MemberTypeOK
  <2>1. status \in [Members -> Statuses]
    BY DEF Init, Statuses
  <2>2. hasPassword \in [Members -> BOOLEAN]
    BY Zenon DEF Init
  <2>3. /\ role \in [Members -> {"owner", "admin", "member"}]
        /\ revision \in [Members -> Nat]
    BY DEF Init
  <2>4. held = [m \in Members |-> Free]
    BY DEF Init
  <2> QED
    BY <2>1, <2>2, <2>3, <2>4, Zenon DEF MemberTypeOK
<1>2. SessionsSound /\ InvitesSound
  BY DEF Init, SessionsSound, InvitesSound
<1>3. MailboxTypeOK
  BY DEF Init, MailboxTypeOK, Levels
<1>4. CallTypeOK
  BY DEF Init, CallTypeOK, CallRecords
<1>5. RequestsSound
  BY DEF Init, RequestsSound, RequestTypeOK, RequestRecords, NoRequest, Levels
<1>6. changes \in 0 .. MaxChanges
  BY BoundsAreNat DEF Init
<1> QED
  BY <1>1, <1>2, <1>3, <1>4, <1>5, <1>6 DEF Sound

(* Sessions and invites that end. *)
LEMMA SoundEndings ==
  ASSUME Sound, NEW m, NEW keep
  PROVE  /\ sessions' = EndSessions(m, keep) => SessionsSound'
         /\ invites' = EndInvites(m) => InvitesSound'
  BY DEF Sound, SessionsSound, InvitesSound, EndSessions, EndInvites, Deleted

(* The same of the locks, and of the revisions.                            *)
LEMMA HeldTypes ==
  ASSUME MemberTypeOK, NEW m \in Members, NEW lock \in Locks \cup {Free}, held' = [held EXCEPT ![m] = lock]
  PROVE  held' \in [Members -> {Free} \cup Locks]
  BY DEF MemberTypeOK

\* Revisions stay numbers when some of them are counted up.
LEMMA BumpTypes ==
  ASSUME MemberTypeOK, NEW M, Bump(M)
  PROVE  revision' \in [Members -> Nat]
  BY DEF MemberTypeOK, Bump

(* A handler that has read what it needs. *)
LEMMA SoundBegin ==
  ASSUME Sound, NEW c \in Calls, NEW call \in CallRecords, Begin(c, call), OnlyCalls
  PROVE  Sound'
<1>1. CallTypeOK'
  BY CallSet DEF Begin, Sound
<1> QED
  BY <1>1, Frames DEF Sound, OnlyCalls, tokenVars

(* A stored password, by whomever.                                         *)
LEMMA SoundPassword ==
  ASSUME Sound, NEW c \in Calls, NEW m \in Members, NEW keep \in Sessions \cup {NoOne},
         StorePassword(c, m, keep)
  PROVE  Sound'
<1>1. MemberTypeOK'
  BY BumpTypes DEF Sound, StorePassword, MemberTypeOK, Statuses
<1>2. SessionsSound'
  BY SoundEndings DEF StorePassword
<1>3. CallTypeOK'
  BY CallCancels, ReachTypes DEF StorePassword, Sound
<1> QED
  BY <1>1, <1>2, <1>3, Frames DEF Sound, StorePassword, NoMail

(* Signing in and out, invites, and a member's own password. *)
LEMMA SoundSignIn ==
  ASSUME Sound, NEW c \in Calls, SignIn(c)
  PROVE  Sound'
<1> USE DEF Sound
<1>1. ASSUME NEW m \in Members, VerifyLogin(c, m) PROVE Sound'
  <2>1. [kind |-> "login", member |-> m] \in CallRecords
    BY DEF CallRecords
  <2> QED
    BY <1>1, <2>1, SoundBegin DEF VerifyLogin
<1>2. ASSUME NEW s \in Sessions, CreateSession(c, s) PROVE Sound'
  <2>1. SessionsSound'
    BY <1>2, CallFields DEF CreateSession, SessionsSound
  <2>2. CallTypeOK'
    BY <1>2, CallIdle DEF CreateSession
  <2> QED
    BY <1>2, <2>1, <2>2, Frames DEF CreateSession, NoMail
<1>3. ASSUME NEW s \in Sessions, DeleteSession(c, s) PROVE Sound'
  <2>1. SessionsSound'
    BY <1>3 DEF DeleteSession, SessionsSound, Deleted
  <2>2. CallTypeOK'
    BY <1>3, CallCancels, ReachTypes DEF DeleteSession
  <2> QED
    BY <1>3, <2>1, <2>2, Frames DEF DeleteSession, NoMail
<1>4. ASSUME NEW s \in Sessions, ReadOwnPassword(c, s) PROVE Sound'
  <2>1. sessions[s].member \in Members
    BY <1>4 DEF ReadOwnPassword, LiveSession, SessionsSound
  <2>2. [kind |-> "password", member |-> sessions[s].member, session |-> s] \in CallRecords
    BY <2>1 DEF CallRecords
  <2> QED
    BY <1>4, <2>2, SoundBegin DEF ReadOwnPassword
<1>5. ASSUME NEW i \in Invites, LookupInvite(c, i) PROVE Sound'
  <2>1. [kind |-> "accept", invite |-> i] \in CallRecords
    BY DEF CallRecords
  <2> QED
    BY <1>5, <2>1, SoundBegin DEF LookupInvite
<1>6. CASE AcceptInvite(c)
  <2> DEFINE i == calls[c].invite  m == invites[i].member
  <2>1. i \in Invites /\ m \in Members
    BY <1>6, CallFields DEF AcceptInvite, InviteOpen, InvitesSound
  <2>2. /\ invites' = [invites EXCEPT ![i].state = "accepted"]
        /\ hasPassword' = [hasPassword EXCEPT ![m] = TRUE]
        /\ status' = [status EXCEPT ![m] = "active"]
        /\ Bump({m}) /\ Change
        /\ calls' = [calls EXCEPT ![c] = [kind |-> "login", member |-> m]]
        /\ NoMail /\ UNCHANGED <<role, held, sessions>>
    BY <1>6 DEF AcceptInvite
  <2>3. MemberTypeOK'
    BY <2>1, <2>2, BumpTypes DEF MemberTypeOK, Statuses
  <2>4. InvitesSound'
    BY <2>1, <2>2 DEF InvitesSound
  <2>5. CallTypeOK'
    <3>1. [kind |-> "login", member |-> m] \in CallRecords
      BY <2>1 DEF CallRecords
    <3> QED
      BY <2>2, <3>1, CallSet
  <2> QED
    BY <2>2, <2>3, <2>4, <2>5, Frames DEF NoMail
<1>7. CASE ChangeOwnPassword(c)
  BY <1>7, SoundPassword, CallFields DEF ChangeOwnPassword
<1>8. CASE DropCall(c)
  <2>1. CallTypeOK'
    BY <1>8, CallIdle DEF DropCall
  <2> QED
    BY <1>8, <2>1, Frames DEF DropCall, OnlyCalls, tokenVars
<1> QED
  BY <1>1, <1>2, <1>3, <1>4, <1>5, <1>6, <1>7, <1>8 DEF SignIn

(* What administrators read and what a hand-over does. *)
LEMMA SoundHandOver ==
  ASSUME Sound, NEW c \in Calls, NEW m \in Members, HandOver(c, m)
  PROVE  Sound'
<1> DEFINE future == held[m].future
           reaches == {OfMailbox(b) : b \in DOMAIN held[m].plan}
<1>1. held[m] \in Locks
  BY DEF Sound, MemberTypeOK, HandOver, Free
<1>2. future.owner \in Members \cup {NoOne} /\ future.status \in {"active", "suspended"}
  BY <1>1 DEF Locks, Futures
<1>3. DOMAIN held[m].plan \subseteq Mailboxes
  BY <1>1 DEF Locks, Plans
<1>4. MemberTypeOK'
  <2>1. [held[m] EXCEPT !.todo = "settling"] \in Locks
    BY <1>1 DEF Locks
  <2>2. held' = [held EXCEPT ![m] = [held[m] EXCEPT !.todo = "settling"]]
    BY DEF HandOver
  <2> QED
    BY <2>1, <2>2, HeldTypes DEF Sound, MemberTypeOK, HandOver
<1>5. MailboxTypeOK'
  BY <1>2 DEF Sound, MailboxTypeOK, HandOver, Levels
<1>6. CallTypeOK'
  <2>1. reaches \in SUBSET Reaches
    BY <1>3, ReachTypes
  <2> QED
    BY <2>1, CallCancels, Frames DEF HandOver, Sound
<1> QED
  BY <1>4, <1>5, <1>6, Frames DEF Sound, HandOver, tokenVars

(* What an administrator reads or does outside of a plan.                  *)
LEMMA SoundManageMember ==
  ASSUME Sound, NEW c \in Calls, NEW m \in Members, ManageMember(c, m)
  PROVE  Sound'
<1>0. MemberTypeOK /\ revision[m] \in Nat
  BY DEF Sound, MemberTypeOK
<1>1. ASSUME NEW a \in Members, SetPassword(c, a, m) PROVE Sound'
  BY <1>1, SoundPassword DEF SetPassword
<1>2. ASSUME NEW a \in Members, NEW enable \in BOOLEAN, PrepareMemberStatus(c, a, m, enable) PROVE Sound'
  <2>1. StatusPlanned(m, enable) \in Statuses
    BY <1>0 DEF StatusPlanned, Statuses, MemberTypeOK
  <2>2. [kind |-> "status", actor |-> a, member |-> m, revision |-> revision[m],
         target |-> StatusPlanned(m, enable)] \in CallRecords
    BY <1>0, <2>1 DEF CallRecords
  <2> QED
    BY <1>2, <2>2, SoundBegin DEF PrepareMemberStatus
<1>3. ASSUME NEW a \in Members, PrepareOffboard(c, a, m) PROVE Sound'
  <2>1. [kind |-> "offboard", actor |-> a, member |-> m, revision |-> revision[m]] \in CallRecords
    BY <1>0 DEF CallRecords
  <2> QED
    BY <1>3, <2>1, SoundBegin DEF PrepareOffboard
<1>4. ASSUME NEW a \in Members, NEW r \in {"admin", "member"}, ReadForRole(c, a, m, r) PROVE Sound'
  <2>1. [kind |-> "role", actor |-> a, member |-> m, revision |-> revision[m], role |-> r] \in CallRecords
    BY <1>0 DEF CallRecords
  <2> QED
    BY <1>4, <2>1, SoundBegin DEF ReadForRole
<1>5. ASSUME NEW a \in Members, ReadForTransfer(c, a, m) PROVE Sound'
  <2>1. [kind |-> "transfer", actor |-> a, member |-> m, from |-> revision[a], to |-> revision[m]] \in CallRecords
    BY <1>0 DEF CallRecords, MemberTypeOK
  <2> QED
    BY <1>5, <2>1, SoundBegin DEF ReadForTransfer
<1> QED
  BY <1>1, <1>2, <1>3, <1>4, <1>5, SoundHandOver DEF ManageMember

(* The transactions that end a management call. *)
LEMMA SoundDeparture ==
  ASSUME Sound, NEW c \in Calls, NEW future \in Futures, CommitDeparture(c, future)
  PROVE  Sound'
<1> DEFINE m == calls[c].member
           a == calls[c].actor
           concerned == {b \in Mailboxes : owner[b] = m \/ grant[b][m] # "none"}
           lock == [todo |-> "departing", actor |-> a, revision |-> revision[m] + 1,
                    plan |-> [b \in concerned |-> mailboxRevision[b]], future |-> future]
<1>1. m \in Members /\ a \in Members
  BY CallFields DEF Sound, CommitDeparture
<1>2. /\ status' = [status EXCEPT ![m] = "departed"] /\ Bump({m}) /\ Change
      /\ held' = [held EXCEPT ![m] = lock]
      /\ sessions' = EndSessions(m, NoOne) /\ invites' = EndInvites(m)
      /\ grant' = [b \in Mailboxes |-> [grant[b] EXCEPT ![m] = "none"]]
      /\ ThenCancel(c, {OfMember(m)})
      /\ UNCHANGED <<role, hasPassword, owner, mailboxStatus, mailboxRevision, viewTokens, requests>>
  BY DEF CommitDeparture
<1>3. MemberTypeOK'
  <2>1. [b \in concerned |-> mailboxRevision[b]] \in Plans
    <3>1. [b \in concerned |-> mailboxRevision[b]] \in [concerned -> Nat]
      BY DEF Sound, MailboxTypeOK
    <3> QED
      BY <3>1 DEF Plans
  <2>2. lock \in Locks
    BY <1>1, <2>1 DEF Sound, MemberTypeOK, Locks
  <2>3. held' \in [Members -> {Free} \cup Locks]
    <3> HIDE DEF lock
    <3> QED
      BY <1>1, <1>2, <2>2, HeldTypes DEF Sound
  <2> QED
    BY <1>1, <1>2, <2>3, BumpTypes DEF Sound, MemberTypeOK, Statuses
<1>4. SessionsSound' /\ InvitesSound'
  BY <1>2, SoundEndings
<1>5. MailboxTypeOK'
  BY <1>1, <1>2 DEF Sound, MailboxTypeOK, Levels
<1>6. CallTypeOK'
  BY <1>1, <1>2, CallCancels, ReachTypes DEF Sound
<1> QED
  BY <1>2, <1>3, <1>4, <1>5, <1>6, Frames DEF Sound

(* The lock that an operation on the status takes.                         *)
LEMMA LockTypes ==
  ASSUME NEW todo \in {"toInvited", "toActive", "settling"}, NEW a \in Members, NEW n \in Nat
  PROVE  [Free EXCEPT !.todo = todo, !.actor = a, !.revision = n] \in Locks
<1>1. NoPlan \in Plans
  <2>1. NoPlan \in [{} -> Nat]
    BY DEF NoPlan
  <2> QED
    BY <2>1 DEF Plans
<1>2. NoFuture \in Futures
  BY DEF NoFuture, Futures
<1> QED
  BY <1>1, <1>2 DEF Free, Locks

(* The transactions that carry out what was read.                          *)
LEMMA SoundCommitChange ==
  ASSUME Sound, NEW c \in Calls, CommitChange(c)
  PROVE  Sound'
<1> USE DEF Sound
<1> DEFINE m == calls[c].member
           a == calls[c].actor
<1>1. CASE QueueDisable(c)
  <2>1. m \in Members /\ a \in Members /\ revision[m] + 1 \in Nat
    BY <1>1, CallFields DEF QueueDisable, MemberTypeOK
  <2>2. held' \in [Members -> {Free} \cup Locks]
    <3> DEFINE lock == [Free EXCEPT !.todo = "settling", !.actor = a, !.revision = revision[m] + 1]
    <3>1. lock \in Locks
      BY <2>1, LockTypes
    <3>2. held' = [held EXCEPT ![m] = lock]
      BY <1>1 DEF QueueDisable
    <3> HIDE DEF lock
    <3> QED
      BY <2>1, <3>1, <3>2, HeldTypes
  <2>3. MemberTypeOK'
    BY <1>1, <2>1, <2>2, BumpTypes DEF QueueDisable, MemberTypeOK, Statuses
  <2>4. SessionsSound'
    BY <1>1, SoundEndings DEF QueueDisable
  <2>5. CallTypeOK'
    BY <1>1, <2>1, CallCancels, ReachTypes DEF QueueDisable
  <2> QED
    BY <1>1, <2>3, <2>4, <2>5, Frames DEF QueueDisable, NoMail
<1>2. CASE QueueEnable(c)
  <2>1. m \in Members /\ a \in Members /\ revision[m] \in Nat
    BY <1>2, CallFields DEF QueueEnable, MemberTypeOK
  <2>2. held' \in [Members -> {Free} \cup Locks]
    <3> DEFINE todo == IF calls[c].target = "active" THEN "toActive" ELSE "toInvited"
               lock == [Free EXCEPT !.todo = todo, !.actor = a, !.revision = revision[m]]
    <3>1. todo \in {"toInvited", "toActive", "settling"}
      OBVIOUS
    <3>2. held' = [held EXCEPT ![m] = lock]
      BY <1>2 DEF QueueEnable
    <3>3. lock \in Locks
      <4> HIDE DEF todo
      <4> QED
        BY <2>1, <3>1, LockTypes
    <3> HIDE DEF lock
    <3> QED
      BY <2>1, <3>2, <3>3, HeldTypes
  <2>3. MemberTypeOK'
    BY <1>2, <2>1, <2>2 DEF QueueEnable, MemberTypeOK
  <2>4. CallTypeOK'
    BY <1>2, CallIdle DEF QueueEnable
  <2> QED
    BY <1>2, <2>3, <2>4, Frames DEF QueueEnable, NoMail, tokenVars
<1>3. CASE UpdateMember(c)
  <2>1. m \in Members /\ calls[c].role \in {"admin", "member"}
    BY <1>3, CallFields DEF UpdateMember
  <2>2. MemberTypeOK'
    BY <1>3, <2>1, BumpTypes DEF UpdateMember, MemberTypeOK
  <2>3. CallTypeOK'
    BY <1>3, CallIdle DEF UpdateMember
  <2> QED
    BY <1>3, <2>2, <2>3, Frames DEF UpdateMember, NoMail, tokenVars
<1>4. CASE TransferOwnership(c)
  <2>1. MemberTypeOK'
    BY <1>4, BumpTypes DEF TransferOwnership, MemberTypeOK
  <2>2. CallTypeOK'
    BY <1>4, CallIdle DEF TransferOwnership
  <2> QED
    BY <1>4, <2>1, <2>2, Frames DEF TransferOwnership, NoMail, tokenVars
<1> QED
  BY <1>1, <1>2, <1>3, <1>4, SoundDeparture DEF CommitChange

(* Grants and changes of a mailbox. *)
LEMMA SoundMailbox ==
  ASSUME Sound, NEW c \in Calls, NEW b \in Mailboxes, ManageMailbox(c, b)
  PROVE  Sound'
<1> USE DEF Sound
<1>1. ASSUME NEW reach \in Reaches, ChangeMailboxRow(c, b, reach), MailboxTypeOK' PROVE Sound'
  <2>1. CallTypeOK'
    BY <1>1, CallCancels DEF ChangeMailboxRow
  <2> QED
    BY <1>1, <2>1, Frames DEF ChangeMailboxRow, tokenVars
<1>2. ASSUME NEW reach, ChangeMailboxRow(c, b, reach) PROVE mailboxRevision' \in [Mailboxes -> Nat]
  BY <1>2 DEF ChangeMailboxRow, MailboxTypeOK
<1>3. ASSUME NEW m \in Members, NEW level \in Levels, GrantAccess(c, b, m, level) PROVE Sound'
  <2>1. MailboxTypeOK'
    BY <1>2, <1>3 DEF GrantAccess, MailboxTypeOK
  <2> QED
    BY <1>1, <1>3, <2>1, ReachTypes DEF GrantAccess
<1>4. ASSUME NEW m \in Members \cup {NoOne}, UpdateMailboxOwner(c, b, m) PROVE Sound'
  <2>1. MailboxTypeOK'
    BY <1>2, <1>4 DEF UpdateMailboxOwner, MailboxTypeOK
  <2> QED
    BY <1>1, <1>4, <2>1, ReachTypes DEF UpdateMailboxOwner
<1>5. ASSUME NEW new \in {"active", "suspended", "archived"}, SetMailboxStatus(c, b, new) PROVE Sound'
  <2>1. MailboxTypeOK'
    BY <1>2, <1>5 DEF SetMailboxStatus, MailboxTypeOK
  <2> QED
    BY <1>1, <1>5, <2>1, ReachTypes DEF SetMailboxStatus
<1> QED
  BY <1>3, <1>4, <1>5, GrantLevelsAreLevels DEF ManageMailbox, RevokeAccess, Levels

(* The lock of an operation on a member, from its execution to its end. *)
LEMMA SoundOperation ==
  ASSUME Sound, NEW m \in Members, ExecuteEnable(m) \/ FinishOperation(m)
  PROVE  Sound'
<1>1. MemberTypeOK'
  <2>1. CASE ExecuteEnable(m)
    <3>1. held[m] \in Locks
      BY <2>1 DEF Sound, MemberTypeOK, ExecuteEnable, Free
    <3> DEFINE n == held[m].revision + 1
               lock == [held[m] EXCEPT !.todo = "settling", !.revision = n]
    <3>2. lock \in Locks
      <4>1. n \in Nat
        BY <3>1 DEF Locks
      <4> HIDE DEF n
      <4> QED
        BY <3>1, <4>1 DEF Locks
    <3>3. held' = [held EXCEPT ![m] = lock]
      BY <2>1 DEF ExecuteEnable
    <3>4. held' \in [Members -> {Free} \cup Locks]
      <4> HIDE DEF lock
      <4> QED
        BY <3>2, <3>3, HeldTypes DEF Sound
    <3> QED
      BY <2>1, <3>4, BumpTypes DEF Sound, MemberTypeOK, ExecuteEnable, Statuses
  <2>2. CASE FinishOperation(m)
    <3>1. held' \in [Members -> {Free} \cup Locks]
      BY <2>2, HeldTypes DEF Sound, FinishOperation
    <3> QED
      BY <2>2, <3>1 DEF Sound, MemberTypeOK, FinishOperation
  <2> QED
    BY <2>1, <2>2
<1>2. /\ NoMail /\ UNCHANGED <<tokenVars, calls>>
      /\ UNCHANGED changes \/ Change
  BY DEF ExecuteEnable, FinishOperation
<1> QED
  BY <1>1, <1>2, Frames DEF Sound, NoMail, tokenVars

(* Mail requests, and the calls that cancel them. *)
LEMMA RequestSet ==
  ASSUME Sound, NEW r \in Requests, NEW q \in RequestRecords, Step(r, q),
         q.stage # "none" => q.member \in Members /\ q.mailbox \in Mailboxes /\ q.session \in Sessions
  PROVE  Sound'
<1>1. RequestsSound'
  BY DEF Sound, RequestsSound, RequestTypeOK, Step, OnlyRequests
<1> QED
  BY <1>1, Frames DEF Sound, Step, OnlyRequests, tokenVars

(* A request, from its session to its end.                                 *)
LEMMA SoundServe ==
  ASSUME Sound, NEW r \in Requests, Serve(r)
  PROVE  Sound'
<1> DEFINE q == requests[r]
<1>0. /\ q \in RequestRecords
      /\ q.stage # "none" => q.member \in Members /\ q.mailbox \in Mailboxes /\ q.session \in Sessions
  BY DEF Sound, RequestsSound, RequestTypeOK
<1>1. ASSUME NEW s \in Sessions, NEW b \in Mailboxes, LookupSession(r, s, b) PROVE Sound'
  <2>1. sessions[s].member \in Members
    BY <1>1 DEF LookupSession, LiveSession, Sound, SessionsSound
  <2> QED
    BY <1>1, <2>1, RequestSet DEF LookupSession, NoRequest, RequestRecords, Levels
<1>2. ASSUME NEW t \in viewTokens, CheckViewToken(r, t) PROVE Sound'
  <2>1. t.member \in Members /\ t.mailbox \in Mailboxes /\ t.session \in Sessions
    BY DEF Sound, RequestsSound, RequestTypeOK
  <2> QED
    BY <1>2, <2>1, RequestSet DEF CheckViewToken, NoRequest, RequestRecords, Levels
<1>3. CASE RegisterMailRequest(r)
  BY <1>0, <1>3, RequestSet DEF RegisterMailRequest, RequestRecords
<1>4. CASE SessionHashActive(r)
  BY <1>0, <1>4, RequestSet DEF SessionHashActive, Proceeds, RequestRecords
<1>5. CASE CheckMailboxAccess(r)
  <2>1. AccessLevel(q.member, q.mailbox) \in Levels
    BY <1>0, <1>5 DEF CheckMailboxAccess, Proceeds, AccessLevel, Levels, Sound, MailboxTypeOK
  <2> QED
    BY <1>0, <1>5, <2>1, RequestSet DEF CheckMailboxAccess, Proceeds, RequestRecords
<1>6. CASE ViewToken(r)
  <2>1. RequestsSound'
    BY <1>0, <1>6 DEF ViewToken, Proceeds, Sound, RequestsSound, RequestTypeOK
  <2> QED
    BY <1>6, <2>1, Frames DEF ViewToken, Sound, tokenVars
<1>7. CASE EndRequest(r)
  BY <1>7, RequestSet DEF EndRequest, NoRequest, RequestRecords, Levels
<1> QED
  BY <1>1, <1>2, <1>3, <1>4, <1>5, <1>6, <1>7 DEF Serve

(* A cancellation that is carried out.                                     *)
LEMMA SoundCancel ==
  ASSUME Sound, NEW c \in Calls, NEW k \in calls[c].pending, CancelMailRequests(c, k)
  PROVE  Sound'
<1>1. calls[c].pending \subseteq Reaches
  BY CallFields DEF Sound, CancelMailRequests
<1>2. CallTypeOK'
  <2>1. CASE calls[c].pending = {k}
    BY <2>1, CallIdle DEF CancelMailRequests, Sound
  <2>2. CASE calls[c].pending # {k}
    <3>1. calls[c].pending \ {k} # {} /\ calls[c].pending \ {k} \in SUBSET Reaches
      BY <1>1, <2>2
    <3> QED
      BY <2>2, <3>1, CallCancels DEF CancelMailRequests, Sound
  <2> QED
    BY <2>1, <2>2
<1>3. RequestsSound'
  <2>1. ASSUME NEW r \in Requests
        PROVE  /\ requests'[r] \in RequestRecords
               /\ requests'[r].stage = requests[r].stage /\ requests'[r].member = requests[r].member
               /\ requests'[r].mailbox = requests[r].mailbox /\ requests'[r].session = requests[r].session
    <3>1. requests[r] \in RequestRecords
      BY DEF Sound, RequestsSound, RequestTypeOK
    <3>2. requests'[r] \in {requests[r], [requests[r] EXCEPT !.cancelled = TRUE]}
      BY Zenon DEF CancelMailRequests
    <3> QED
      BY <3>1, <3>2 DEF RequestRecords
  <2>2. DOMAIN requests' = Requests /\ requests' = [r \in Requests |-> requests'[r]]
    BY DEF CancelMailRequests
  <2>3. viewTokens' = viewTokens
    BY DEF CancelMailRequests
  <2> QED
    BY <2>1, <2>2, <2>3 DEF Sound, RequestsSound, RequestTypeOK
<1> QED
  BY <1>2, <1>3, Frames DEF Sound, CancelMailRequests, tokenVars

(* Time that runs out, new invites, and a restart. *)
LEMMA SoundTokens ==
  ASSUME Sound
  PROVE  /\ \A s \in Sessions : ExpireSession(s) => Sound'
         /\ \A i \in Invites : ExpireInvite(i) => Sound'
         /\ \A i \in Invites, a, m \in Members : CreateInvite(a, m, i) => Sound'
         /\ Restart => Sound'
<1>1. ASSUME NEW s \in Sessions, ExpireSession(s) PROVE Sound'
  <2>1. SessionsSound'
    BY <1>1 DEF ExpireSession, Sound, SessionsSound
  <2> QED
    BY <1>1, <2>1, Frames DEF ExpireSession, Sound, NoMail
<1>2. ASSUME NEW i \in Invites, ExpireInvite(i) PROVE Sound'
  <2>1. InvitesSound'
    BY <1>2 DEF ExpireInvite, Sound, InvitesSound, Deleted
  <2> QED
    BY <1>2, <2>1, Frames DEF ExpireInvite, Sound, NoMail
<1>3. ASSUME NEW i \in Invites, NEW a \in Members, NEW m \in Members, CreateInvite(a, m, i) PROVE Sound'
  <2>1. InvitesSound'
    BY <1>3 DEF CreateInvite, Sound, InvitesSound, Deleted, EndInvites
  <2> QED
    BY <1>3, <2>1, Frames DEF CreateInvite, Sound, NoMail
<1>4. ASSUME Restart PROVE Sound'
  <2>1. CallTypeOK'
    BY <1>4 DEF Restart, CallTypeOK, CallRecords
  <2>2. RequestsSound'
    BY <1>4 DEF Restart, Sound, RequestsSound, RequestTypeOK, RequestRecords, NoRequest, Levels
  <2> QED
    BY <1>4, <2>1, <2>2, Frames DEF Restart, Sound, tokenVars
<1> QED
  BY <1>1, <1>2, <1>3, <1>4

(* Every step keeps the types.                                             *)
LEMMA SoundStep == Sound /\ [Next]_vars => Sound'
<1> SUFFICES ASSUME Sound, [Next]_vars PROVE Sound'
  OBVIOUS
<1>1. CASE UNCHANGED vars
  BY <1>1, Frames DEF vars, memberVars, tokenVars, mailboxVars, Sound
<1>2. CASE Next
  <2>1. ASSUME NEW c \in Calls,
               \/ SignIn(c) \/ CommitChange(c)
               \/ \E m \in Members : ManageMember(c, m)
               \/ \E b \in Mailboxes : ManageMailbox(c, b)
               \/ calls[c].kind = "cancel" /\ \E k \in calls[c].pending : CancelMailRequests(c, k)
        PROVE  Sound'
    BY <2>1, SoundSignIn, SoundCommitChange, SoundManageMember, SoundMailbox, SoundCancel
  <2> QED
    BY <1>2, <2>1, SoundOperation, SoundServe, SoundTokens DEF Next
<1> QED
  BY <1>1, <1>2

(* Every variable keeps its type, for every number of members, mailboxes,  *)
(* tokens, calls and requests: a lock always has an operation's record, a  *)
(* cancellation always has something left to do.                           *)
THEOREM TypeCorrect == Spec => []TypeOK
<1>1. Spec => []Sound
  BY SoundInit, SoundStep, PTL DEF Spec
<1> QED
  BY <1>1, SoundTypes, PTL

-----------------------------------------------------------------------------
(* Members: their status, passwords, roles and sessions *)

(* What a plan was made from has not changed while the revision is the one *)
(* it was made at, for calls that are still to commit and for enabling     *)
(* operations that are still to be executed.                               *)
TargetFits(m, target) ==
  /\ target # "departed"
  /\ target = "active" => hasPassword[m]
  /\ target = "invited" => ~hasPassword[m]
  /\ target = "disabled" => role[m] # "owner"

CallPlanned(q) ==
  /\ q.kind = "status" => /\ q.revision <= revision[q.member]
                          /\ q.revision = revision[q.member] => TargetFits(q.member, q.target)
  /\ q.kind = "role" => q.actor # q.member

LockPlanned(m) ==
  held[m].todo \in {"toActive", "toInvited"} =>
    /\ held[m].revision <= revision[m]
    /\ held[m].revision = revision[m] => (hasPassword[m] <=> held[m].todo = "toActive")

Planned == (\A c \in Calls : CallPlanned(calls[c])) /\ (\A m \in Members : LockPlanned(m))

MembersSound == Sound /\ Planned /\ SessionsFollowStatus /\ OneOwner /\ StatusMatchesPassword

(* A step either counts up a member's revision or leaves what is planned   *)
(* with alone.                                                             *)
Counted(m) ==
  \/ revision'[m] = revision[m] + 1
  \/ revision'[m] = revision[m] /\ hasPassword'[m] = hasPassword[m] /\ role'[m] = role[m]

(* Which revisions are counted up.                                         *)
LEMMA BumpCounts ==
  ASSUME MemberTypeOK, NEW M, Bump(M)
  PROVE  /\ \A m \in Members : revision'[m] = IF m \in M THEN revision[m] + 1 ELSE revision[m]
  BY DEF MemberTypeOK, Bump

(* A plan is right for the revision it names, or that one is gone.         *)
LEMMA CallStaysPlanned ==
  ASSUME Sound, \A m \in Members : Counted(m), NEW q \in CallRecords, CallPlanned(q)
  PROVE  CallPlanned(q)'
<1>1. CASE q.kind = "status"
  <2>1. q.member \in Members /\ q.revision \in Nat
    BY <1>1 DEF CallRecords, Idle
  <2>2. revision[q.member] \in Nat /\ Counted(q.member)
    BY <2>1 DEF Sound, MemberTypeOK
  <2> QED
    BY <1>1, <2>1, <2>2 DEF CallPlanned, Counted, TargetFits
<1>2. CASE q.kind # "status"
  BY <1>2 DEF CallPlanned
<1> QED
  BY <1>1, <1>2

(* The planned calls after a step that replaces at most one of them. *)
LEMMA CallsStayPlanned ==
  ASSUME Sound, Planned, \A m \in Members : Counted(m), NEW c \in Calls, NEW q \in CallRecords,
         UNCHANGED calls \/ (calls' = [calls EXCEPT ![c] = q] /\ CallPlanned(q)')
  PROVE  \A d \in Calls : CallPlanned(calls[d])'
<1> TAKE d \in Calls
<1>1. CallPlanned(calls[d])
  BY DEF Planned
<1>2. calls[d] \in CallRecords
  BY CallFields DEF Sound
<1>3. calls'[d] = calls[d] \/ (calls'[d] = q /\ CallPlanned(q)')
  BY DEF Sound, CallTypeOK
<1> QED
  <2>1. CASE calls'[d] = calls[d]
    <3> DEFINE q0 == calls[d]
    <3>1. \A p \in CallRecords : CallPlanned(p) => CallPlanned(p)'
      BY CallStaysPlanned
    <3> QED
      BY <1>1, <1>2, <2>1, <3>1 DEF CallPlanned, TargetFits
  <2>2. CASE calls'[d] = q /\ CallPlanned(q)'
    BY <2>2 DEF CallPlanned, TargetFits
  <2> QED
    BY <1>3, <2>1, <2>2

(* The same of enabling operations, when at most one lock changes.         *)
LEMMA LocksStayPlanned ==
  ASSUME Sound, Planned, \A m \in Members : Counted(m), NEW n \in Members,
         \A m \in Members \ {n} : held'[m] = held[m],
         held'[n] = held[n] \/ held'[n].todo \notin {"toActive", "toInvited"}
  PROVE  \A m \in Members : LockPlanned(m)'
<1> SUFFICES ASSUME NEW m \in Members, held'[m] = held[m], held[m].todo \in {"toActive", "toInvited"}
             PROVE  LockPlanned(m)'
  BY DEF LockPlanned
<1>1. held[m] \in Locks /\ held[m].revision \in Nat /\ revision[m] \in Nat
  BY DEF Sound, MemberTypeOK, Free, Locks
<1> QED
  BY <1>1 DEF Planned, LockPlanned, Counted

(* After setup nothing is planned, and the founder is the owner.           *)
LEMMA MembersInit == Init => MembersSound
<1> SUFFICES ASSUME Init PROVE MembersSound
  OBVIOUS
<1>1. Planned
  BY DEF Init, Planned, CallPlanned, LockPlanned, Idle, Free
<1>2. SessionsFollowStatus
  BY DEF Init, SessionsFollowStatus
<1>3. OneOwner
  BY FounderIsMember DEF Init, OneOwner
<1>4. StatusMatchesPassword
  BY Zenon DEF Init, StatusMatchesPassword
<1> QED
  BY <1>1, <1>2, <1>3, <1>4, SoundInit DEF MembersSound

(* A step that changes no member. *)
LEMMA MembersFrame ==
  ASSUME MembersSound, Sound', UNCHANGED memberVars, SessionsFollowStatus',
         NEW c \in Calls, NEW q \in CallRecords,
         UNCHANGED calls \/ (calls' = [calls EXCEPT ![c] = q] /\ CallPlanned(q)')
  PROVE  MembersSound'
<1> USE DEF MembersSound
<1>1. \A m \in Members : Counted(m)
  BY DEF Counted, memberVars
<1>2. Planned'
  <2>1. \A d \in Calls : CallPlanned(calls[d])'
    BY <1>1, CallsStayPlanned
  <2>2. \A m \in Members : LockPlanned(m)'
    BY DEF Planned, LockPlanned, memberVars
  <2> QED
    BY <2>1, <2>2 DEF Planned
<1>3. OneOwner' /\ StatusMatchesPassword'
  BY DEF OneOwner, StatusMatchesPassword, memberVars
<1> QED
  BY <1>2, <1>3

(* The same, when the call that ends or goes on is not a planned change. *)
LEMMA MembersQuiet ==
  ASSUME MembersSound, Sound', UNCHANGED memberVars, SessionsFollowStatus',
         NEW c \in Calls, UNCHANGED calls \/ calls' = [calls EXCEPT ![c] = calls'[c]],
         calls'[c].kind \notin {"status", "role"}
  PROVE  MembersSound'
<1>1. calls'[c] \in CallRecords
  BY DEF Sound, CallTypeOK
<1>2. \A q \in CallRecords : q.kind \notin {"status", "role"} => CallPlanned(q)'
  BY DEF CallPlanned
<1> DEFINE q == calls'[c]
<1> QED
  <2>1. PICK p \in CallRecords : p = calls'[c]
    BY <1>1
  <2> QED
    BY <1>2, <2>1, MembersFrame

(* Sessions and invites that nobody touches.                               *)
LEMMA TokensFrame ==
  ASSUME SessionsFollowStatus, UNCHANGED <<memberVars, tokenVars>>
  PROVE  SessionsFollowStatus'
  BY DEF SessionsFollowStatus, memberVars, tokenVars

(* A step that changes a member and its lock, and counts up its revision.  *)
LEMMA MembersChange ==
  ASSUME MembersSound, Sound', SessionsFollowStatus', OneOwner', StatusMatchesPassword',
         \A m \in Members : Counted(m),
         NEW n \in Members, \A m \in Members \ {n} : held'[m] = held[m],
         held'[n] = held[n] \/ held'[n].todo \notin {"toActive", "toInvited"},
         NEW c \in Calls, UNCHANGED calls \/ calls' = [calls EXCEPT ![c] = calls'[c]],
         UNCHANGED calls \/ calls'[c].kind \notin {"status", "role"}
  PROVE  MembersSound'
<1> USE DEF MembersSound
<1>1. \A d \in Calls : CallPlanned(calls[d])'
  <2>1. CASE UNCHANGED calls
    <3> TAKE d \in Calls
    <3>1. PICK q \in CallRecords : q = calls[d]
      BY CallFields DEF Sound
    <3>2. CallPlanned(q)'
      BY <3>1, CallStaysPlanned DEF Planned
    <3> QED
      BY <2>1, <3>1, <3>2 DEF CallPlanned, TargetFits
  <2>2. CASE ~UNCHANGED calls
    <3>1. PICK q \in CallRecords : q = calls'[c]
      BY DEF Sound, CallTypeOK
    <3>2. CallPlanned(q)'
      BY <2>2, <3>1 DEF CallPlanned
    <3> QED
      BY <2>2, <3>1, <3>2, CallsStayPlanned
  <2> QED
    BY <2>1, <2>2
<1>2. \A m \in Members : LockPlanned(m)'
  BY LocksStayPlanned
<1> QED
  BY <1>1, <1>2 DEF Planned

(* A call that has read what it plans with.                                *)
LEMMA MembersBegin ==
  ASSUME MembersSound, NEW c \in Calls, NEW call \in CallRecords, Begin(c, call), OnlyCalls, CallPlanned(call)'
  PROVE  MembersSound'
<1>1. Sound'
  BY SoundBegin DEF MembersSound
<1> QED
  BY <1>1, MembersFrame, TokensFrame DEF MembersSound, Begin, OnlyCalls

(* A stored password counts up the revision; who was invited is active.    *)
LEMMA MembersPassword ==
  ASSUME MembersSound, NEW c \in Calls, NEW m \in Members, NEW keep \in Sessions \cup {NoOne},
         StorePassword(c, m, keep)
  PROVE  MembersSound'
<1>1. Sound'
  BY SoundPassword DEF MembersSound
<1>2. \A n \in Members : Counted(n)
  BY BumpCounts DEF MembersSound, Sound, StorePassword, Counted, MemberTypeOK
<1>3. /\ \A n \in Members : status'[n] = IF n = m /\ status[m] = "invited" THEN "active" ELSE status[n]
      /\ \A n \in Members : hasPassword'[n] = IF n = m THEN TRUE ELSE hasPassword[n]
  BY Zenon DEF MembersSound, Sound, MemberTypeOK, StorePassword
<1>4. SessionsFollowStatus'
  <2>1. \A s \in Sessions : sessions'[s].state = "live" => sessions'[s] = sessions[s] /\ sessions[s].member \in Members
    BY DEF StorePassword, EndSessions, Deleted, MembersSound, Sound, SessionsSound
  <2>2. \A i \in Invites : invites[i].state = "open" => invites[i].member \in Members
    BY DEF MembersSound, Sound, InvitesSound
  <2> QED
    BY <1>3, <2>1, <2>2 DEF StorePassword, MembersSound, SessionsFollowStatus
<1>5. OneOwner'
  BY <1>3 DEF MembersSound, OneOwner, StorePassword
<1>6. StatusMatchesPassword'
  BY <1>3 DEF MembersSound, StatusMatchesPassword
<1>7. /\ calls' = [calls EXCEPT ![c] = calls'[c]] /\ calls'[c].kind = "cancel"
      /\ held' = held
  BY DEF StorePassword, ThenCancel, MembersSound, Sound, CallTypeOK
<1> QED
  BY <1>1, <1>2, <1>4, <1>5, <1>6, <1>7, MembersChange

(* Signing in and out, and invites.                                        *)
LEMMA MembersSignIn ==
  ASSUME MembersSound, NEW c \in Calls, SignIn(c)
  PROVE  MembersSound'
<1>0. Sound' /\ CallTypeOK /\ CallTypeOK' /\ SessionsFollowStatus
  BY SoundSignIn DEF MembersSound, Sound
<1>1. ASSUME NEW m \in Members, VerifyLogin(c, m) PROVE MembersSound'
  <2>1. SessionsFollowStatus' /\ UNCHANGED memberVars
    BY <1>0, <1>1, TokensFrame DEF VerifyLogin, OnlyCalls
  <2>2. calls' = [calls EXCEPT ![c] = calls'[c]] /\ calls'[c].kind = "login"
    BY <1>0, <1>1 DEF VerifyLogin, Begin, CallTypeOK
  <2> QED
    BY <1>0, <2>1, <2>2, MembersQuiet
<1>2. ASSUME NEW s \in Sessions, CreateSession(c, s) PROVE MembersSound'
  <2>1. SessionsFollowStatus' /\ UNCHANGED memberVars
    BY <1>0, <1>2 DEF CreateSession, SessionsFollowStatus, MayStart, memberVars, MembersSound, Sound, SessionsSound
  <2>2. calls' = [calls EXCEPT ![c] = calls'[c]] /\ calls'[c].kind = "idle"
    BY <1>0, <1>2 DEF CreateSession, Return, Idle, CallTypeOK
  <2> QED
    BY <1>0, <2>1, <2>2, MembersQuiet
<1>3. ASSUME NEW s \in Sessions, DeleteSession(c, s) PROVE MembersSound'
  <2>1. SessionsFollowStatus' /\ UNCHANGED memberVars
    BY <1>0, <1>3 DEF DeleteSession, SessionsFollowStatus, Deleted, memberVars, MembersSound, Sound, SessionsSound
  <2>2. calls' = [calls EXCEPT ![c] = calls'[c]] /\ calls'[c].kind = "cancel"
    BY <1>0, <1>3 DEF DeleteSession, ThenCancel, CallTypeOK
  <2> QED
    BY <1>0, <2>1, <2>2, MembersQuiet
<1>4. ASSUME NEW s \in Sessions, ReadOwnPassword(c, s) PROVE MembersSound'
  <2>1. SessionsFollowStatus' /\ UNCHANGED memberVars
    BY <1>0, <1>4, TokensFrame DEF ReadOwnPassword, OnlyCalls
  <2>2. calls' = [calls EXCEPT ![c] = calls'[c]] /\ calls'[c].kind = "password"
    BY <1>0, <1>4 DEF ReadOwnPassword, Begin, CallTypeOK
  <2> QED
    BY <1>0, <2>1, <2>2, MembersQuiet
<1>5. ASSUME NEW i \in Invites, LookupInvite(c, i) PROVE MembersSound'
  <2>1. SessionsFollowStatus' /\ UNCHANGED memberVars
    BY <1>0, <1>5, TokensFrame DEF LookupInvite, OnlyCalls
  <2>2. calls' = [calls EXCEPT ![c] = calls'[c]] /\ calls'[c].kind = "accept"
    BY <1>0, <1>5 DEF LookupInvite, Begin, CallTypeOK
  <2> QED
    BY <1>0, <2>1, <2>2, MembersQuiet
<1>6. CASE AcceptInvite(c)
  <2> DEFINE i == calls[c].invite  m == invites[i].member
  <2>1. i \in Invites /\ m \in Members
    BY <1>6, CallFields DEF AcceptInvite, InviteOpen, InvitesSound, MembersSound, Sound
  <2>2. /\ invites' = [invites EXCEPT ![i].state = "accepted"]
        /\ hasPassword' = [hasPassword EXCEPT ![m] = TRUE]
        /\ status' = [status EXCEPT ![m] = "active"]
        /\ Bump({m})
        /\ calls' = [calls EXCEPT ![c] = [kind |-> "login", member |-> m]]
        /\ UNCHANGED <<role, held, sessions>>
    BY <1>6 DEF AcceptInvite
  <2>3. /\ \A n \in Members : status'[n] = IF n = m THEN "active" ELSE status[n]
        /\ \A n \in Members : hasPassword'[n] = IF n = m THEN TRUE ELSE hasPassword[n]
    BY <2>1, <2>2, Zenon DEF MembersSound, Sound, MemberTypeOK
  <2>4. \A n \in Members : Counted(n)
    BY <2>1, <2>2, <2>3, BumpCounts DEF MembersSound, Sound, Counted
  <2>5. SessionsFollowStatus'
    <3>1. \A s \in Sessions : sessions[s].state = "live" => sessions[s].member \in Members
      BY DEF MembersSound, Sound, SessionsSound
    <3>2. \A j \in Invites : invites'[j].state = "open" => invites'[j] = invites[j] /\ invites[j].member \in Members
      BY <2>1, <2>2 DEF MembersSound, Sound, InvitesSound
    <3> QED
      BY <1>0, <2>2, <2>3, <3>1, <3>2 DEF SessionsFollowStatus
  <2>6. OneOwner'
    BY <2>2, <2>3 DEF OneOwner, MembersSound
  <2>7. StatusMatchesPassword'
    BY <2>3 DEF StatusMatchesPassword, MembersSound
  <2>8. calls' = [calls EXCEPT ![c] = calls'[c]] /\ calls'[c].kind = "login"
    BY <1>0, <2>2 DEF CallTypeOK
  <2> QED
    BY <1>0, <2>1, <2>2, <2>4, <2>5, <2>6, <2>7, <2>8, MembersChange
<1>7. CASE ChangeOwnPassword(c)
  BY <1>7, MembersPassword, CallFields DEF ChangeOwnPassword, MembersSound, Sound
<1>8. CASE DropCall(c)
  <2>1. SessionsFollowStatus' /\ UNCHANGED memberVars
    BY <1>0, <1>8, TokensFrame DEF DropCall, OnlyCalls
  <2>2. calls' = [calls EXCEPT ![c] = calls'[c]] /\ calls'[c].kind = "idle"
    BY <1>0, <1>8 DEF DropCall, Return, Idle, CallTypeOK
  <2> QED
    BY <1>0, <2>1, <2>2, MembersQuiet
<1> QED
  BY <1>1, <1>2, <1>3, <1>4, <1>5, <1>6, <1>7, <1>8 DEF SignIn

(* Planning, and the hand-over of mailboxes.                               *)
LEMMA MembersManage ==
  ASSUME MembersSound, NEW c \in Calls, NEW m \in Members, ManageMember(c, m)
  PROVE  MembersSound'
<1>0. /\ Sound /\ Sound' /\ MemberTypeOK /\ CallTypeOK /\ CallTypeOK' /\ SessionsFollowStatus /\ OneOwner
      /\ revision[m] \in Nat
  BY SoundManageMember DEF MembersSound, Sound, MemberTypeOK
<1>1. ASSUME NEW a \in Members, SetPassword(c, a, m) PROVE MembersSound'
  BY <1>1, MembersPassword DEF SetPassword
<1>2. ASSUME NEW a \in Members, NEW enable \in BOOLEAN, PrepareMemberStatus(c, a, m, enable) PROVE MembersSound'
  <2> DEFINE target == StatusPlanned(m, enable)
             call == [kind |-> "status", actor |-> a, member |-> m, revision |-> revision[m], target |-> target]
  <2>1. target \in {"active", "invited", "disabled"} /\ TargetFits(m, target)
    BY <1>0, <1>2 DEF StatusPlanned, PrepareMemberStatus, TargetFits, MemberTypeOK
  <2>2. UNCHANGED <<revision, hasPassword, role>>
    BY <1>2 DEF PrepareMemberStatus, OnlyCalls, memberVars
  <2>3. TargetFits(m, target)'
    <3> HIDE DEF target
    <3>1. \A t : TargetFits(m, t) => TargetFits(m, t)'
      BY <2>2 DEF TargetFits
    <3>2. PICK t : t = target
      OBVIOUS
    <3>3. target' = target
      BY <2>2, Zenon DEF target, StatusPlanned
    <3> QED
      BY <2>1, <3>1, <3>2, <3>3 DEF TargetFits
  <2>4. PICK q \in CallRecords : q = call
    BY <1>0, <2>1 DEF CallRecords, Statuses
  <2>5. CallPlanned(q)'
    <3>1. q.kind = "status" /\ q.member = m /\ q.revision = revision'[m] /\ q.target = target
      BY <2>2, <2>4
    <3>2. TargetFits(m, q.target)'
      BY <2>1, <2>2, <3>1 DEF TargetFits
    <3> QED
      BY <1>0, <2>2, <3>1, <3>2 DEF CallPlanned
  <2> QED
    BY <1>2, <2>4, <2>5, MembersBegin DEF PrepareMemberStatus
<1>3. ASSUME NEW a \in Members, PrepareOffboard(c, a, m) PROVE MembersSound'
  <2>1. SessionsFollowStatus' /\ UNCHANGED memberVars
    BY <1>0, <1>3, TokensFrame DEF PrepareOffboard, OnlyCalls
  <2>2. calls' = [calls EXCEPT ![c] = calls'[c]] /\ calls'[c].kind = "offboard"
    BY <1>0, <1>3 DEF PrepareOffboard, Begin, CallTypeOK
  <2> QED
    BY <1>0, <2>1, <2>2, MembersQuiet
<1>4. ASSUME NEW a \in Members, NEW r \in {"admin", "member"}, ReadForRole(c, a, m, r) PROVE MembersSound'
  <2>1. PICK q \in CallRecords :
          q = [kind |-> "role", actor |-> a, member |-> m, revision |-> revision[m], role |-> r]
    BY <1>0 DEF CallRecords
  <2>2. CallPlanned(q)'
    BY <1>4, <2>1 DEF CallPlanned, ReadForRole
  <2> QED
    BY <1>4, <2>1, <2>2, MembersBegin DEF ReadForRole
<1>5. ASSUME NEW a \in Members, ReadForTransfer(c, a, m) PROVE MembersSound'
  <2>1. SessionsFollowStatus' /\ UNCHANGED memberVars
    BY <1>0, <1>5, TokensFrame DEF ReadForTransfer, OnlyCalls
  <2>2. calls' = [calls EXCEPT ![c] = calls'[c]] /\ calls'[c].kind = "transfer"
    BY <1>0, <1>5 DEF ReadForTransfer, Begin, CallTypeOK
  <2> QED
    BY <1>0, <2>1, <2>2, MembersQuiet
<1>6. CASE HandOver(c, m)
  <2>1. held[m] \in Locks /\ held' = [held EXCEPT ![m] = [held[m] EXCEPT !.todo = "settling"]]
    BY <1>0, <1>6 DEF HandOver, MemberTypeOK, Free
  <2>2. (\A n \in Members \ {m} : held'[n] = held[n]) /\ held'[m].todo = "settling"
    BY <1>0, <2>1 DEF Locks, MemberTypeOK
  <2>3. \A n \in Members : Counted(n)
    BY <1>6 DEF HandOver, Counted
  <2>4. SessionsFollowStatus' /\ OneOwner' /\ StatusMatchesPassword'
    BY <1>0, <1>6 DEF HandOver, SessionsFollowStatus, OneOwner, StatusMatchesPassword, tokenVars, MembersSound
  <2>5. UNCHANGED calls \/ (calls' = [calls EXCEPT ![c] = calls'[c]] /\ calls'[c].kind = "cancel")
    BY <1>0, <1>6 DEF HandOver, ThenCancel, CallTypeOK
  <2>6. calls' = [calls EXCEPT ![c] = calls'[c]]
    BY <1>0, <2>5 DEF CallTypeOK
  <2> QED
    BY <1>0, <2>2, <2>3, <2>4, <2>5, <2>6, MembersChange
<1> QED
  BY <1>1, <1>2, <1>3, <1>4, <1>5, <1>6 DEF ManageMember

(* Disabling: the plan says that the member is not the owner.              *)
LEMMA MembersDisable ==
  ASSUME MembersSound, Sound', NEW c \in Calls, QueueDisable(c)
  PROVE  MembersSound'
<1> DEFINE m == calls[c].member
<1>1. m \in Members /\ role[m] # "owner"
  <2>1. CallPlanned(calls[c]) /\ calls[c].revision = revision[m] /\ m \in Members /\ revision[m] \in Nat
    BY CallFields DEF MembersSound, Sound, Planned, QueueDisable, PlanIsCurrent, MemberTypeOK
  <2> QED
    BY <2>1 DEF CallPlanned, QueueDisable, TargetFits
<1>2. /\ status' = [status EXCEPT ![m] = "disabled"] /\ Bump({m})
      /\ sessions' = EndSessions(m, NoOne) /\ ThenCancel(c, {OfMember(m)})
      /\ UNCHANGED <<role, hasPassword, invites>>
  BY DEF QueueDisable
<1>3. \A n \in Members : status'[n] = IF n = m THEN "disabled" ELSE status[n]
  BY <1>1, <1>2, Zenon DEF MembersSound, Sound, MemberTypeOK
<1>4. \A n \in Members : Counted(n)
  BY <1>1, <1>2, BumpCounts DEF MembersSound, Sound, Counted
<1>5. (\A n \in Members \ {m} : held'[n] = held[n]) /\ held'[m].todo = "settling"
  BY <1>1 DEF QueueDisable, MembersSound, Sound, MemberTypeOK, Free
<1>6. SessionsFollowStatus'
  <2>1. ASSUME NEW s \in Sessions, sessions'[s].state = "live"
        PROVE  status'[sessions'[s].member] = "active"
    <3>1. sessions'[s] = sessions[s] /\ sessions[s].member # m /\ sessions[s].member \in Members
      BY <1>2, <2>1, NoOneIsNobody DEF EndSessions, Deleted, MembersSound, Sound, SessionsSound
    <3> QED
      BY <1>3, <2>1, <3>1 DEF MembersSound, SessionsFollowStatus
  <2>2. ASSUME NEW i \in Invites, invites'[i].state = "open"
        PROVE  status'[invites'[i].member] # "departed"
    <3>1. invites'[i] = invites[i] /\ invites[i].member \in Members
      BY <1>2, <2>2 DEF MembersSound, Sound, InvitesSound
    <3> QED
      BY <1>3, <2>2, <3>1 DEF MembersSound, SessionsFollowStatus
  <2> QED
    BY <2>1, <2>2 DEF SessionsFollowStatus
<1>7. OneOwner'
  BY <1>1, <1>2, <1>3 DEF MembersSound, OneOwner
<1>8. StatusMatchesPassword'
  BY <1>2, <1>3 DEF MembersSound, StatusMatchesPassword
<1>9. calls' = [calls EXCEPT ![c] = calls'[c]] /\ calls'[c].kind = "cancel"
  BY <1>2 DEF ThenCancel, MembersSound, Sound, CallTypeOK
<1> QED
  BY <1>1, <1>4, <1>5, <1>6, <1>7, <1>8, <1>9, MembersChange

(* Enabling: the lock takes over what the plan found out.                  *)
LEMMA MembersEnable ==
  ASSUME MembersSound, Sound', NEW c \in Calls, QueueEnable(c)
  PROVE  MembersSound'
<1> USE DEF MembersSound
<1> DEFINE m == calls[c].member
<1>1. m \in Members /\ revision[m] \in Nat
  BY CallFields DEF Sound, QueueEnable, MemberTypeOK
<1>2. held'[m].todo = (IF calls[c].target = "active" THEN "toActive" ELSE "toInvited") /\ held'[m].revision = revision[m]
  BY <1>1 DEF QueueEnable, Sound, MemberTypeOK, Free
<1>3. hasPassword[m] <=> calls[c].target = "active"
  <2>1. CallPlanned(calls[c]) /\ calls[c].revision = revision[m]
    BY DEF QueueEnable, Planned, PlanIsCurrent
  <2>2. TargetFits(m, calls[c].target) /\ calls[c].target \in Statuses \ {"disabled"}
    BY <1>1, <2>1, CallFields DEF CallPlanned, QueueEnable, Sound
  <2> QED
    BY <2>2 DEF TargetFits, Statuses
<1>4. \A n \in Members : LockPlanned(n)'
  <2> SUFFICES ASSUME NEW n \in Members PROVE LockPlanned(n)'
    OBVIOUS
  <2>1. CASE n = m
    <3>1. /\ held'[m].revision <= revision'[m]
          /\ hasPassword'[m] <=> held'[m].todo = "toActive"
      BY <1>1, <1>2, <1>3 DEF QueueEnable
    <3> QED
      BY <2>1, <3>1 DEF LockPlanned
  <2>2. CASE n # m
    <3>1. held'[n] = held[n] /\ revision' = revision /\ hasPassword' = hasPassword
      BY <1>1, <2>2 DEF QueueEnable, Sound, MemberTypeOK
    <3> QED
      BY <3>1 DEF LockPlanned, Planned
  <2> QED
    BY <2>1, <2>2
<1>5. \A d \in Calls : CallPlanned(calls[d])'
  <2>1. PICK q \in CallRecords : q = Idle
    BY DEF CallRecords
  <2>2. CallPlanned(q)' /\ calls' = [calls EXCEPT ![c] = q]
    BY <2>1 DEF CallPlanned, Idle, QueueEnable, Return
  <2>3. \A n \in Members : Counted(n)
    BY DEF Counted, QueueEnable
  <2> QED
    BY <2>2, <2>3, CallsStayPlanned
<1>6. SessionsFollowStatus' /\ OneOwner' /\ StatusMatchesPassword'
  BY DEF QueueEnable, SessionsFollowStatus, OneOwner, StatusMatchesPassword, tokenVars
<1> QED
  BY <1>4, <1>5, <1>6 DEF Planned

(* Leaving ends sessions and invites in the same transaction.              *)
LEMMA MembersDepart ==
  ASSUME MembersSound, Sound', NEW c \in Calls, NEW future \in Futures, CommitDeparture(c, future)
  PROVE  MembersSound'
<1> DEFINE m == calls[c].member
<1>1. m \in Members /\ role[m] # "owner"
  BY CallFields DEF MembersSound, Sound, CommitDeparture, MayDepart
<1>2. /\ status' = [status EXCEPT ![m] = "departed"] /\ Bump({m})
      /\ sessions' = EndSessions(m, NoOne) /\ invites' = EndInvites(m) /\ ThenCancel(c, {OfMember(m)})
      /\ UNCHANGED <<role, hasPassword>>
  BY DEF CommitDeparture
<1>3. \A n \in Members : status'[n] = IF n = m THEN "departed" ELSE status[n]
  BY <1>1, <1>2, Zenon DEF MembersSound, Sound, MemberTypeOK
<1>4. \A n \in Members : Counted(n)
  BY <1>1, <1>2, BumpCounts DEF MembersSound, Sound, Counted
<1>5. (\A n \in Members \ {m} : held'[n] = held[n]) /\ held'[m].todo = "departing"
  BY <1>1 DEF CommitDeparture, MembersSound, Sound, MemberTypeOK
<1>6. SessionsFollowStatus'
  <2>1. ASSUME NEW s \in Sessions, sessions'[s].state = "live"
        PROVE  status'[sessions'[s].member] = "active"
    <3>1. sessions'[s] = sessions[s] /\ sessions[s].member # m /\ sessions[s].member \in Members
      BY <1>2, <2>1, NoOneIsNobody DEF EndSessions, Deleted, MembersSound, Sound, SessionsSound
    <3> QED
      BY <1>3, <2>1, <3>1 DEF MembersSound, SessionsFollowStatus
  <2>2. ASSUME NEW i \in Invites, invites'[i].state = "open"
        PROVE  status'[invites'[i].member] # "departed"
    <3>1. invites[i] \in [member : Members \cup {NoOne}, state : {"unused", "open", "accepted", "deleted"}]
      BY DEF MembersSound, Sound, InvitesSound
    <3>2. invites'[i] = invites[i] /\ invites[i].member # m /\ invites[i].member \in Members
      BY <1>2, <2>2, <3>1 DEF EndInvites, Deleted, MembersSound, Sound, InvitesSound
    <3> QED
      BY <1>3, <2>2, <3>2 DEF MembersSound, SessionsFollowStatus
  <2> QED
    BY <2>1, <2>2 DEF SessionsFollowStatus
<1>7. OneOwner'
  BY <1>1, <1>2, <1>3 DEF MembersSound, OneOwner
<1>8. StatusMatchesPassword'
  BY <1>2, <1>3 DEF MembersSound, StatusMatchesPassword
<1>9. calls' = [calls EXCEPT ![c] = calls'[c]] /\ calls'[c].kind = "cancel"
  BY <1>2 DEF ThenCancel, MembersSound, Sound, CallTypeOK
<1> QED
  BY <1>1, <1>4, <1>5, <1>6, <1>7, <1>8, <1>9, MembersChange

(* Roles and ownership: two members change, and the recipient is active.   *)
LEMMA MembersRole ==
  ASSUME MembersSound, Sound', NEW c \in Calls, UpdateMember(c) \/ TransferOwnership(c)
  PROVE  MembersSound'
<1> USE DEF MembersSound
<1> DEFINE m == calls[c].member  a == calls[c].actor
<1>1. m \in Members /\ a \in Members /\ a # m
  <2>1. CallPlanned(calls[c])
    BY DEF Planned
  <2> QED
    BY <2>1, CallFields DEF Sound, UpdateMember, TransferOwnership, CallPlanned
<1>2. \A n \in Members : Counted(n)
  <2>1. CASE UpdateMember(c)
    BY <1>1, <2>1, BumpCounts DEF UpdateMember, Sound, Counted, MemberTypeOK
  <2>2. CASE TransferOwnership(c)
    BY <1>1, <2>2, BumpCounts DEF TransferOwnership, Sound, Counted, MemberTypeOK
  <2> QED
    BY <2>1, <2>2
<1>3. OneOwner'
  <2>1. PICK o \in Members : status[o] = "active" /\ \A n \in Members : role[n] = "owner" <=> n = o
    BY DEF OneOwner
  <2>2. CASE UpdateMember(c)
    <3>1. /\ role' = [role EXCEPT ![m] = calls[c].role] /\ UNCHANGED status
          /\ calls[c].role # "owner" /\ role[m] # "owner"
      BY <1>1, <2>2, CallFields DEF UpdateMember, MemberManageable, Sound
    <3>2. \A n \in Members : role'[n] = "owner" <=> n = o
      BY <1>1, <2>1, <3>1 DEF Sound, MemberTypeOK
    <3> QED
      BY <2>1, <3>1, <3>2 DEF OneOwner
  <2>3. CASE TransferOwnership(c)
    <3>1. /\ role' = [role EXCEPT ![a] = "admin", ![m] = "owner"] /\ UNCHANGED status
          /\ role[a] = "owner" /\ status[m] = "active"
      BY <2>3 DEF TransferOwnership, RecipientCurrent
    <3>2. \A n \in Members : role'[n] = "owner" <=> n = m
      BY <1>1, <2>1, <3>1 DEF Sound, MemberTypeOK
    <3> QED
      BY <1>1, <3>1, <3>2 DEF OneOwner
  <2> QED
    BY <2>2, <2>3
<1>4. UNCHANGED <<status, hasPassword, held, tokenVars>>
  BY DEF UpdateMember, TransferOwnership
<1>5. SessionsFollowStatus' /\ StatusMatchesPassword'
  BY <1>4 DEF SessionsFollowStatus, StatusMatchesPassword, tokenVars
<1>6. calls' = [calls EXCEPT ![c] = calls'[c]] /\ calls'[c].kind = "idle"
  BY DEF UpdateMember, TransferOwnership, Return, Idle, Sound, CallTypeOK
<1> QED
  BY <1>1, <1>2, <1>3, <1>4, <1>5, <1>6, MembersChange

(* The execution of an enabling operation, and the end of any.             *)
LEMMA MembersOperation ==
  ASSUME MembersSound, NEW m \in Members, ExecuteEnable(m) \/ FinishOperation(m)
  PROVE  MembersSound'
<1> USE DEF MembersSound
<1>0. Sound'
  BY SoundOperation
<1>1. \A n \in Members : Counted(n)
  <2>1. CASE ExecuteEnable(m)
    BY <2>1, BumpCounts DEF ExecuteEnable, Sound, Counted
  <2>2. CASE FinishOperation(m)
    BY <2>2 DEF FinishOperation, Counted
  <2> QED
    BY <2>1, <2>2
<1>2. (\A n \in Members \ {m} : held'[n] = held[n]) /\ held'[m].todo \in {"settling", "free"}
  <2>1. CASE ExecuteEnable(m)
    <3>1. held[m] \in Locks
      BY <2>1 DEF ExecuteEnable, Sound, MemberTypeOK, Free
    <3> QED
      BY <2>1, <3>1 DEF ExecuteEnable, Sound, MemberTypeOK, Locks
  <2>2. CASE FinishOperation(m)
    BY <2>2 DEF FinishOperation, Sound, MemberTypeOK, Free
  <2> QED
    BY <2>1, <2>2
<1>3. SessionsFollowStatus' /\ OneOwner' /\ StatusMatchesPassword'
  <2>1. CASE ExecuteEnable(m)
    <3> DEFINE new == IF held[m].todo = "toActive" THEN "active" ELSE "invited"
    <3>1. hasPassword[m] <=> new = "active"
      BY <2>1 DEF Planned, LockPlanned, ExecuteEnable, PlanIsCurrent
    <3>2. (\A n \in Members : status'[n] = IF n = m THEN new ELSE status[n]) /\ new \in {"active", "invited"}
      BY <2>1 DEF ExecuteEnable, Sound, MemberTypeOK
    <3>3. status[m] = "active" => new = "active"
      BY <3>1 DEF StatusMatchesPassword
    <3>4. UNCHANGED <<role, hasPassword, sessions, invites>>
      BY <2>1 DEF ExecuteEnable, tokenVars
    <3> HIDE DEF new
    <3>5. SessionsFollowStatus'
      <4>1. \A s \in Sessions : sessions[s].state = "live" => sessions[s].member \in Members
        BY DEF Sound, SessionsSound
      <4>2. \A i \in Invites : invites[i].state = "open" => invites[i].member \in Members
        BY DEF Sound, InvitesSound
      <4> QED
        BY <3>2, <3>3, <3>4, <4>1, <4>2 DEF SessionsFollowStatus
    <3>6. OneOwner'
      BY <3>2, <3>3, <3>4 DEF OneOwner
    <3>7. StatusMatchesPassword'
      BY <3>1, <3>2, <3>4 DEF StatusMatchesPassword
    <3> QED
      BY <3>5, <3>6, <3>7
  <2>2. CASE FinishOperation(m)
    BY <2>2 DEF FinishOperation, SessionsFollowStatus, OneOwner, StatusMatchesPassword, tokenVars
  <2> QED
    BY <2>1, <2>2
<1>4. UNCHANGED calls
  BY DEF ExecuteEnable, FinishOperation
<1> QED
  <2>1. ASSUME NEW c \in Calls PROVE MembersSound'
    BY <1>0, <1>1, <1>2, <1>3, <1>4, MembersChange
  <2>2. CASE Calls = {}
    <3>1. Planned'
      BY <1>1, <1>2, <2>2, LocksStayPlanned DEF Planned
    <3> QED
      BY <1>0, <1>3, <3>1
  <2> QED
    BY <2>1, <2>2

(* What leaves the members alone: mailboxes, requests, tokens, a restart.  *)
LEMMA MembersElsewhere ==
  ASSUME MembersSound, Sound', UNCHANGED memberVars, SessionsFollowStatus',
         \A d \in Calls : calls'[d] = calls[d] \/ calls'[d].kind \notin {"status", "role"}
  PROVE  MembersSound'
<1>1. \A d \in Calls : CallPlanned(calls[d])'
  BY DEF MembersSound, Planned, CallPlanned, TargetFits, memberVars
<1>2. \A m \in Members : LockPlanned(m)'
  BY DEF MembersSound, Planned, LockPlanned, memberVars
<1>3. OneOwner' /\ StatusMatchesPassword'
  BY DEF MembersSound, OneOwner, StatusMatchesPassword, memberVars
<1> QED
  BY <1>1, <1>2, <1>3 DEF MembersSound, Planned

(* Every step keeps the members consistent.                                *)
LEMMA MembersStep == MembersSound /\ [Next]_vars => MembersSound'
<1> SUFFICES ASSUME MembersSound, [Next]_vars PROVE MembersSound'
  OBVIOUS
<1>0. Sound /\ Sound' /\ CallTypeOK /\ SessionsFollowStatus
  BY SoundStep DEF MembersSound, Sound
<1>1. CASE UNCHANGED vars
  BY <1>0, <1>1, MembersElsewhere, TokensFrame DEF vars
<1>2. ASSUME NEW c \in Calls, CommitChange(c) PROVE MembersSound'
  BY <1>0, <1>2, MembersDisable, MembersEnable, MembersDepart, MembersRole DEF CommitChange
<1>3. ASSUME NEW c \in Calls, NEW b \in Mailboxes, ManageMailbox(c, b) PROVE MembersSound'
  <2>1. UNCHANGED <<memberVars, tokenVars>> /\ \E reach : ThenCancel(c, {reach})
    BY <1>3 DEF ManageMailbox, RevokeAccess, GrantAccess, UpdateMailboxOwner, SetMailboxStatus, ChangeMailboxRow
  <2>2. \A d \in Calls : calls'[d] = calls[d] \/ calls'[d].kind = "cancel"
    BY <1>0, <2>1 DEF ThenCancel, CallTypeOK
  <2> QED
    BY <1>0, <2>1, <2>2, TokensFrame, MembersElsewhere
<1>4. ASSUME NEW c \in Calls, NEW k \in calls[c].pending, CancelMailRequests(c, k) PROVE MembersSound'
  <2>1. UNCHANGED <<memberVars, tokenVars>>
    BY <1>4 DEF CancelMailRequests
  <2>2. \A d \in Calls : calls'[d] = calls[d] \/ calls'[d].kind \in {"idle", "cancel"}
    BY <1>0, <1>4 DEF CancelMailRequests, Return, ThenCancel, Idle, CallTypeOK
  <2> QED
    BY <1>0, <2>1, <2>2, TokensFrame, MembersElsewhere
<1>5. ASSUME NEW r \in Requests, Serve(r) PROVE MembersSound'
  <2>1. UNCHANGED <<memberVars, tokenVars, calls>>
    BY <1>5 DEF Serve, LookupSession, CheckViewToken, RegisterMailRequest, SessionHashActive, CheckMailboxAccess,
                ViewToken, EndRequest, Step, OnlyRequests
  <2> QED
    BY <1>0, <2>1, TokensFrame, MembersElsewhere
<1>6. ASSUME NEW s \in Sessions, ExpireSession(s) PROVE MembersSound'
  <2>1. SessionsFollowStatus'
    BY <1>0, <1>6 DEF ExpireSession, SessionsFollowStatus, memberVars, Sound, SessionsSound
  <2> QED
    BY <1>0, <1>6, <2>1, MembersElsewhere DEF ExpireSession
<1>7. ASSUME NEW i \in Invites, ExpireInvite(i) \/ \E a, m \in Members : CreateInvite(a, m, i) PROVE MembersSound'
  <2>1. SessionsFollowStatus'
    <3>1. ASSUME NEW j \in Invites, invites'[j].state = "open"
          PROVE  invites'[j] = invites[j] \/ status[invites'[j].member] # "departed"
      <4>1. CASE ExpireInvite(i)
        BY <3>1, <4>1 DEF ExpireInvite, Deleted, Sound, InvitesSound
      <4>2. ASSUME NEW a \in Members, NEW m \in Members, CreateInvite(a, m, i)
            PROVE  invites'[j] = invites[j] \/ status[invites'[j].member] # "departed"
        <5>1. /\ status[m] # "departed" /\ DOMAIN EndInvites(m) = Invites
              /\ EndInvites(m)[j] = invites[j] \/ EndInvites(m)[j] = Deleted
          BY <4>2 DEF CreateInvite, EndInvites
        <5>2. invites' = [EndInvites(m) EXCEPT ![i] = [member |-> m, state |-> "open"]]
          BY <4>2 DEF CreateInvite
        <5> QED
          BY <3>1, <5>1, <5>2 DEF Deleted
      <4> QED
        BY <1>7, <4>1, <4>2
    <3>2. UNCHANGED <<memberVars, sessions>>
      BY <1>7 DEF ExpireInvite, CreateInvite
    <3> QED
      BY <1>0, <3>1, <3>2 DEF SessionsFollowStatus, memberVars
  <2>2. UNCHANGED <<memberVars, calls>>
    BY <1>7 DEF ExpireInvite, CreateInvite
  <2> QED
    BY <1>0, <2>1, <2>2, MembersElsewhere
<1>8. CASE Restart
  BY <1>0, <1>8, TokensFrame, MembersElsewhere DEF Restart, Idle
<1>9. ASSUME NEW c \in Calls, \/ SignIn(c) \/ \E m \in Members : ManageMember(c, m) PROVE MembersSound'
  BY <1>9, MembersSignIn, MembersManage
<1> QED
  BY <1>1, <1>2, <1>3, <1>4, <1>5, <1>6, <1>7, <1>8, <1>9, MembersOperation DEF Next

(* The inductive invariant of the members.                                 *)
LEMMA MembersAlways == Spec => []MembersSound
  BY MembersInit, MembersStep, PTL DEF Spec

(* core/member_status_operations.go, members.go: nobody who is disabled or *)
(* has left has a session, or an invite to accept, whatever meets.         *)
THEOREM SessionsFollow == Spec => []SessionsFollowStatus
<1>1. MembersSound => SessionsFollowStatus
  BY DEF MembersSound
<1> QED
  BY <1>1, MembersAlways, PTL

(* core/roles.go, members.go: there is exactly one owner, who is active.   *)
THEOREM OwnerIsUnique == Spec => []OneOwner
<1>1. MembersSound => OneOwner
  BY DEF MembersSound
<1> QED
  BY <1>1, MembersAlways, PTL

(* core/member_status_operations.go: the status of an enabling operation   *)
(* fits whether there is a password by then.                               *)
THEOREM StatusAndPassword == Spec => []StatusMatchesPassword
<1>1. MembersSound => StatusMatchesPassword
  BY DEF MembersSound
<1> QED
  BY <1>1, MembersAlways, PTL

-----------------------------------------------------------------------------
(* Mail requests and the rights they are served under *)

(* What a request that has passed a check, and was not told to stop, rests *)
(* on: what was checked still holds, or a cancellation is on its way.      *)
Entitled(q) ==
  /\ sessions[q.session].member = q.member /\ sessions[q.session].state \in {"live", "expired"}
  /\ status[q.member] = "active"
  /\ q.stage = "serving" => mailboxStatus[q.mailbox] = "active" /\ q.level = AccessLevel(q.member, q.mailbox)

Reached(q) == \E c \in Calls : calls[c].kind = "cancel" /\ \E k \in calls[c].pending : Hits(k, q)

Rests == \A r \in Requests : Proceeds(r, "checked") \/ Proceeds(r, "serving") =>
                               Entitled(requests[r]) \/ Reached(requests[r])

(* A request as it is while it is registered. *)
Registered(q) == /\ q \in RequestRecords /\ InRequests(q)
                 /\ q.member \in Members /\ q.mailbox \in Mailboxes /\ q.session \in Sessions

(* There are no requests at first.                                         *)
LEMMA RestsInit == Init => Rests
  BY DEF Init, Rests, Proceeds, NoRequest

(* Requests past their registration.                                       *)
LEMMA RequestsRegistered ==
  ASSUME Sound, NEW r \in Requests, requests[r].stage \in {"registered", "checked", "serving"}
  PROVE  Registered(requests[r])
  BY DEF Sound, RequestsSound, RequestTypeOK, Registered, InRequests

(* A step of anybody but a request: whoever was entitled or about to be    *)
(* cancelled still is.                                                     *)
LEMMA RestsFrame ==
  ASSUME Sound, Rests, UNCHANGED requests,
         \A q : Registered(q) /\ (Entitled(q) \/ Reached(q)) => Entitled(q)' \/ Reached(q)'
  PROVE  Rests'
<1> SUFFICES ASSUME NEW r \in Requests, (Proceeds(r, "checked") \/ Proceeds(r, "serving"))'
             PROVE  (Entitled(requests[r]) \/ Reached(requests[r]))'
  BY DEF Rests
<1>1. PICK q : q = requests[r]
  OBVIOUS
<1>2. Registered(q) /\ (Entitled(q) \/ Reached(q))
  BY <1>1, RequestsRegistered DEF Rests, Proceeds, Entitled, Reached, Hits, InRequests, AccessLevel
<1>3. Entitled(q)' \/ Reached(q)'
  BY <1>2
<1> QED
  BY <1>1, <1>3 DEF Entitled, Reached, Hits, InRequests, AccessLevel

(* Only a cancellation that was carried out is not on its way any more.    *)
LEMMA ReachedStays ==
  ASSUME CallTypeOK, NEW q, Reached(q), NEW c \in Calls, calls[c].kind # "cancel",
         UNCHANGED calls \/ calls' = [calls EXCEPT ![c] = calls'[c]]
  PROVE  Reached(q)'
  BY DEF Reached, CallTypeOK

(* A cancellation that is asked for reaches whom it hits.                  *)
LEMMA ReachedNow ==
  ASSUME CallTypeOK, NEW q, NEW c \in Calls, NEW R, ThenCancel(c, R), NEW k \in R, Hits(k, q)
  PROVE  Reached(q)'
  BY DEF Reached, CallTypeOK, ThenCancel

(* Rights that nobody touches.                                             *)
LEMMA EntitledStays ==
  ASSUME NEW q, Entitled(q), UNCHANGED <<status, sessions, owner, grant, mailboxStatus>>
  PROVE  Entitled(q)'
  BY DEF Entitled, AccessLevel

(* A step of a call that changes nothing a request rests on. *)
LEMMA RestsCall ==
  ASSUME Sound, Rests, NEW c \in Calls, calls[c].kind # "cancel",
         UNCHANGED calls \/ calls' = [calls EXCEPT ![c] = calls'[c]],
         UNCHANGED <<status, sessions, owner, grant, mailboxStatus, requests>>
  PROVE  Rests'
<1>1. \A q : Entitled(q) => Entitled(q)'
  BY EntitledStays
<1>2. \A q : Reached(q) => Reached(q)'
  BY ReachedStays DEF Sound
<1> QED
  BY <1>1, <1>2, RestsFrame

(* One that takes rights away, and is about to cancel. *)
LEMMA RestsRevoked ==
  ASSUME Sound, Rests, NEW c \in Calls, calls[c].kind # "cancel", NEW R, ThenCancel(c, R), UNCHANGED requests,
         \A q : Registered(q) /\ Entitled(q) => Entitled(q)' \/ \E k \in R : Hits(k, q)
  PROVE  Rests'
<1>1. \A q : Reached(q) => Reached(q)'
  BY ReachedStays DEF Sound, ThenCancel, CallTypeOK
<1>2. \A q : (\E k \in R : Hits(k, q)) => Reached(q)'
  BY ReachedNow DEF Sound
<1> QED
  BY <1>1, <1>2, RestsFrame

(* Whom the cancellations of the handlers hit.                             *)
LEMMA ReachOfMember ==
  ASSUME NEW q, Registered(q)
  PROVE  /\ Hits(OfMember(q.member), q) /\ Hits(OfMailbox(q.mailbox), q)
         /\ Hits([OfMember(q.member) EXCEPT !.mailbox = q.mailbox], q)
         /\ Hits([Everyone EXCEPT !.session = q.session], q)
         /\ \A keep : keep # q.session => Hits([OfMember(q.member) EXCEPT !.keep = keep], q)
  BY DEF Hits, OfMember, OfMailbox, Everyone, Registered

(* A password ends all sessions but one, and cancels their requests.       *)
LEMMA RestsPassword ==
  ASSUME MembersSound, Rests, NEW c \in Calls, calls[c].kind # "cancel", NEW m \in Members,
         NEW keep \in Sessions \cup {NoOne}, StorePassword(c, m, keep)
  PROVE  Rests'
<1>1. ASSUME NEW q, Registered(q), Entitled(q), ~Hits([OfMember(m) EXCEPT !.keep = keep], q)
      PROVE  Entitled(q)'
  <2>1. q.member \in Members /\ q.session \in Sessions
    BY <1>1 DEF Registered
  <2>2. q.member # m \/ q.session = keep
    BY <1>1, ReachOfMember
  <2>3. sessions'[q.session] = sessions[q.session]
    BY <1>1, <2>1, <2>2 DEF StorePassword, EndSessions, Entitled
  <2>4. status'[q.member] = "active"
    BY <1>1, <2>1 DEF StorePassword, MembersSound, Sound, MemberTypeOK, Entitled
  <2> QED
    BY <1>1, <2>3, <2>4 DEF Entitled, AccessLevel, StorePassword, NoMail, mailboxVars
<1> QED
  BY <1>1, RestsRevoked DEF StorePassword, NoMail, MembersSound

(* Signing in, which takes no right away, and out, which does.             *)
LEMMA RestsSignIn ==
  ASSUME MembersSound, Rests, NEW c \in Calls, SignIn(c)
  PROVE  Rests'
<1>0. Sound /\ CallTypeOK
  BY DEF MembersSound, Sound
<1> DEFINE Same == UNCHANGED <<status, sessions, owner, grant, mailboxStatus, requests>>
<1>1. ASSUME NEW m \in Members, VerifyLogin(c, m) PROVE Rests'
  <2>1. Same /\ calls[c].kind # "cancel" /\ calls' = [calls EXCEPT ![c] = calls'[c]]
    BY <1>0, <1>1 DEF VerifyLogin, OnlyCalls, Begin, CallTypeOK, memberVars, tokenVars, mailboxVars, Idle
  <2> QED
    BY <1>0, <2>1, RestsCall
<1>2. ASSUME NEW s \in Sessions, CreateSession(c, s) PROVE Rests'
  <2>1. \A q : Registered(q) /\ Entitled(q) => Entitled(q)'
    BY <1>0, <1>2 DEF CreateSession, Registered, Entitled, AccessLevel, NoMail, memberVars, mailboxVars, Sound, SessionsSound
  <2>2. \A q : Reached(q) => Reached(q)'
    <3>1. calls[c].kind # "cancel" /\ calls' = [calls EXCEPT ![c] = calls'[c]]
      BY <1>0, <1>2 DEF CreateSession, Return, CallTypeOK
    <3> QED
      BY <1>0, <3>1, ReachedStays
  <2> QED
    BY <1>0, <1>2, <2>1, <2>2, RestsFrame DEF CreateSession, NoMail
<1>3. ASSUME NEW s \in Sessions, DeleteSession(c, s) PROVE Rests'
  <2> DEFINE k == [Everyone EXCEPT !.session = s]
  <2>1. ASSUME NEW q, Registered(q), Entitled(q), ~Hits(k, q) PROVE Entitled(q)'
    <3>1. q.session # s /\ q.session \in Sessions
      BY <2>1, ReachOfMember DEF Registered
    <3> QED
      BY <1>3, <2>1, <3>1 DEF DeleteSession, Entitled, AccessLevel, NoMail, memberVars, mailboxVars
  <2>2. calls[c].kind # "cancel" /\ ThenCancel(c, {k}) /\ UNCHANGED requests
    BY <1>3 DEF DeleteSession, Idle, NoMail
  <2> HIDE DEF k
  <2> QED
    BY <1>0, <2>1, <2>2, RestsRevoked
<1>4. ASSUME NEW s \in Sessions, ReadOwnPassword(c, s) PROVE Rests'
  <2>1. Same /\ calls[c].kind # "cancel" /\ calls' = [calls EXCEPT ![c] = calls'[c]]
    BY <1>0, <1>4 DEF ReadOwnPassword, OnlyCalls, Begin, CallTypeOK, memberVars, tokenVars, mailboxVars, Idle
  <2> QED
    BY <1>0, <2>1, RestsCall
<1>5. ASSUME NEW i \in Invites, LookupInvite(c, i) PROVE Rests'
  <2>1. Same /\ calls[c].kind # "cancel" /\ calls' = [calls EXCEPT ![c] = calls'[c]]
    BY <1>0, <1>5 DEF LookupInvite, OnlyCalls, Begin, CallTypeOK, memberVars, tokenVars, mailboxVars, Idle
  <2> QED
    BY <1>0, <2>1, RestsCall
<1>6. CASE AcceptInvite(c)
  <2> DEFINE i == calls[c].invite  m == invites[i].member
  <2>1. /\ status' = [status EXCEPT ![m] = "active"]
        /\ calls' = [calls EXCEPT ![c] = [kind |-> "login", member |-> m]]
        /\ calls[c].kind # "cancel"
        /\ NoMail /\ UNCHANGED sessions
    BY <1>6 DEF AcceptInvite
  <2>2. \A q : Registered(q) /\ Entitled(q) => Entitled(q)'
    BY <1>0, <2>1 DEF Registered, Entitled, AccessLevel, NoMail, mailboxVars, Sound, MemberTypeOK
  <2>3. \A q : Reached(q) => Reached(q)'
    <3>1. calls' = [calls EXCEPT ![c] = calls'[c]]
      BY <1>0, <2>1 DEF CallTypeOK
    <3> QED
      BY <1>0, <2>1, <3>1, ReachedStays
  <2> QED
    BY <1>0, <2>1, <2>2, <2>3, RestsFrame DEF NoMail
<1>7. CASE ChangeOwnPassword(c)
  BY <1>0, <1>7, RestsPassword, CallFields DEF ChangeOwnPassword
<1>8. CASE DropCall(c)
  <2>1. Same /\ calls[c].kind # "cancel" /\ calls' = [calls EXCEPT ![c] = calls'[c]]
    BY <1>0, <1>8 DEF DropCall, OnlyCalls, Return, CallTypeOK, memberVars, tokenVars, mailboxVars
  <2> QED
    BY <1>0, <2>1, RestsCall
<1> QED
  BY <1>1, <1>2, <1>3, <1>4, <1>5, <1>6, <1>7, <1>8 DEF SignIn

(* A hand-over cancels the requests of every mailbox of its plan.          *)
LEMMA RestsManage ==
  ASSUME MembersSound, Rests, NEW c \in Calls, NEW m \in Members, ManageMember(c, m)
  PROVE  Rests'
<1>0. Sound /\ CallTypeOK
  BY DEF MembersSound, Sound
<1>1. ASSUME NEW a \in Members, SetPassword(c, a, m) PROVE Rests'
  BY <1>1, RestsPassword DEF SetPassword, Idle
<1>2. ASSUME NEW a \in Members,
             \/ \E enable \in BOOLEAN : PrepareMemberStatus(c, a, m, enable)
             \/ PrepareOffboard(c, a, m)
             \/ \E r \in {"admin", "member"} : ReadForRole(c, a, m, r)
             \/ ReadForTransfer(c, a, m)
      PROVE  Rests'
  <2>1. OnlyCalls /\ \E call : Begin(c, call)
    BY <1>2 DEF PrepareMemberStatus, PrepareOffboard, ReadForRole, ReadForTransfer
  <2>2. calls[c].kind # "cancel" /\ calls' = [calls EXCEPT ![c] = calls'[c]]
    BY <1>0, <2>1 DEF Begin, Idle, CallTypeOK
  <2>3. UNCHANGED <<status, sessions, owner, grant, mailboxStatus, requests>>
    BY <2>1 DEF OnlyCalls, memberVars, tokenVars, mailboxVars
  <2> QED
    BY <1>0, <2>2, <2>3, RestsCall
<1>3. CASE HandOver(c, m)
  <2> DEFINE plan == DOMAIN held[m].plan  R == {OfMailbox(b) : b \in plan}
  <2>1. ASSUME NEW q, Registered(q), Entitled(q), q.mailbox \notin plan PROVE Entitled(q)'
    <3>1. q.member \in Members /\ q.mailbox \in Mailboxes
      BY <2>1 DEF Registered
    <3>2. /\ owner'[q.mailbox] = owner[q.mailbox] /\ mailboxStatus'[q.mailbox] = mailboxStatus[q.mailbox]
          /\ grant'[q.mailbox][q.member] = grant[q.mailbox][q.member]
      BY <1>3, <2>1, <3>1 DEF HandOver
    <3> QED
      BY <1>3, <2>1, <3>2 DEF Entitled, AccessLevel, HandOver, tokenVars
  <2>2. calls[c].kind # "cancel" /\ UNCHANGED requests
    BY <1>3 DEF HandOver, Idle
  <2>3. CASE R = {}
    <3>1. plan = {} /\ UNCHANGED calls
      BY <1>3, <2>3 DEF HandOver
    <3>2. \A q : Reached(q) => Reached(q)'
      BY <1>0, <2>2, <3>1, ReachedStays
    <3> QED
      BY <1>0, <2>1, <2>2, <3>1, <3>2, RestsFrame
  <2>4. CASE R # {}
    <3>1. ThenCancel(c, R)
      BY <1>3, <2>4 DEF HandOver
    <3>2. \A q : Registered(q) /\ Entitled(q) => Entitled(q)' \/ \E k \in R : Hits(k, q)
      BY <2>1, ReachOfMember
    <3> QED
      BY <1>0, <2>2, <3>1, <3>2, RestsRevoked
  <2> QED
    BY <2>3, <2>4
<1> QED
  BY <1>1, <1>2, <1>3 DEF ManageMember

(* Disabling and leaving cancel all requests of the member.                *)
LEMMA RestsCommit ==
  ASSUME MembersSound, Rests, NEW c \in Calls, CommitChange(c)
  PROVE  Rests'
<1>0. Sound /\ CallTypeOK
  BY DEF MembersSound, Sound
<1> DEFINE m == calls[c].member
<1>1. CASE QueueEnable(c) \/ UpdateMember(c) \/ TransferOwnership(c)
  <2>1. calls[c].kind # "cancel" /\ Return(c) /\ NoMail /\ UNCHANGED <<status, tokenVars>>
    BY <1>1 DEF QueueEnable, UpdateMember, TransferOwnership
  <2>2. calls' = [calls EXCEPT ![c] = calls'[c]]
    BY <1>0, <2>1 DEF Return, CallTypeOK
  <2> QED
    BY <1>0, <2>1, <2>2, RestsCall DEF NoMail, mailboxVars, tokenVars
<1>2. CASE QueueDisable(c) \/ \E future \in Futures : CommitDeparture(c, future)
  <2>1. /\ \E new : status' = [status EXCEPT ![m] = new]
        /\ m \in Members /\ sessions' = EndSessions(m, NoOne) /\ ThenCancel(c, {OfMember(m)})
        /\ calls[c].kind # "cancel" /\ UNCHANGED <<owner, mailboxStatus, requests>>
        /\ grant' = grant \/ grant' = [b \in Mailboxes |-> [grant[b] EXCEPT ![m] = "none"]]
    BY <1>0, <1>2, CallFields DEF QueueDisable, CommitDeparture, NoMail, mailboxVars
  <2>2. ASSUME NEW q, Registered(q), Entitled(q), ~Hits(OfMember(m), q) PROVE Entitled(q)'
    <3>1. q.member # m /\ q.member \in Members /\ q.session \in Sessions /\ q.mailbox \in Mailboxes
      BY <2>2, ReachOfMember DEF Registered
    <3>2. sessions'[q.session] = sessions[q.session] /\ status'[q.member] = status[q.member]
      BY <1>0, <2>1, <2>2, <3>1 DEF EndSessions, Entitled, Sound, MemberTypeOK
    <3>3. grant'[q.mailbox][q.member] = grant[q.mailbox][q.member]
      BY <1>0, <2>1, <3>1 DEF Sound, MailboxTypeOK
    <3> QED
      BY <2>1, <2>2, <3>2, <3>3 DEF Entitled, AccessLevel
  <2>3. \A q : Registered(q) /\ Entitled(q) => Entitled(q)' \/ \E k \in {OfMember(m)} : Hits(k, q)
    BY <2>2
  <2> QED
    BY <1>0, <2>1, <2>3, RestsRevoked
<1> QED
  BY <1>1, <1>2 DEF CommitChange

(* A grant or a change of a mailbox cancels whom it concerns.              *)
LEMMA RestsMailbox ==
  ASSUME MembersSound, Rests, NEW c \in Calls, NEW b \in Mailboxes, ManageMailbox(c, b)
  PROVE  Rests'
<1>0. Sound /\ CallTypeOK
  BY DEF MembersSound, Sound
<1>1. ASSUME NEW reach, ChangeMailboxRow(c, b, reach),
             \A q : Registered(q) /\ Entitled(q) => Entitled(q)' \/ Hits(reach, q)
      PROVE  Rests'
  <2>1. calls[c].kind # "cancel" /\ ThenCancel(c, {reach}) /\ UNCHANGED requests
    BY <1>1 DEF ChangeMailboxRow, Idle
  <2>2. \A q : Registered(q) /\ Entitled(q) => Entitled(q)' \/ \E k \in {reach} : Hits(k, q)
    BY <1>1
  <2> QED
    BY <1>0, <2>1, <2>2, RestsRevoked
<1>2. ASSUME NEW m \in Members, NEW level, GrantAccess(c, b, m, level) PROVE Rests'
  <2>1. ASSUME NEW q, Registered(q), Entitled(q), ~Hits([OfMember(m) EXCEPT !.mailbox = b], q)
        PROVE  Entitled(q)'
    <3>1. q.member # m \/ q.mailbox # b
      BY <2>1, ReachOfMember
    <3>2. grant'[q.mailbox][q.member] = grant[q.mailbox][q.member]
      BY <1>0, <1>2, <2>1, <3>1 DEF GrantAccess, Sound, MailboxTypeOK, Registered
    <3> QED
      BY <1>2, <2>1, <3>2 DEF Entitled, AccessLevel, GrantAccess, ChangeMailboxRow, memberVars, tokenVars
  <2> QED
    BY <1>1, <1>2, <2>1 DEF GrantAccess
<1>3. ASSUME UNCHANGED grant, ChangeMailboxRow(c, b, OfMailbox(b)),
             \A d \in Mailboxes \ {b} : owner'[d] = owner[d] /\ mailboxStatus'[d] = mailboxStatus[d]
      PROVE  Rests'
  <2>1. ASSUME NEW q, Registered(q), Entitled(q), ~Hits(OfMailbox(b), q) PROVE Entitled(q)'
    <3>1. q.mailbox \in Mailboxes \ {b}
      BY <2>1, ReachOfMember DEF Registered
    <3> QED
      BY <1>3, <2>1, <3>1 DEF Entitled, AccessLevel, ChangeMailboxRow, memberVars, tokenVars
  <2> QED
    BY <1>1, <1>3, <2>1
<1>4. ASSUME NEW m \in Members \cup {NoOne}, UpdateMailboxOwner(c, b, m) PROVE Rests'
  BY <1>0, <1>3, <1>4 DEF UpdateMailboxOwner, Sound, MailboxTypeOK
<1>5. ASSUME NEW new, SetMailboxStatus(c, b, new) PROVE Rests'
  BY <1>0, <1>3, <1>5 DEF SetMailboxStatus, Sound, MailboxTypeOK
<1> QED
  BY <1>2, <1>4, <1>5 DEF ManageMailbox, RevokeAccess

(* A cancellation that is carried out tells every request it hits.         *)
LEMMA RestsCancel ==
  ASSUME Sound, Rests, NEW c \in Calls, calls[c].kind = "cancel", NEW k \in calls[c].pending,
         CancelMailRequests(c, k)
  PROVE  Rests'
<1> SUFFICES ASSUME NEW r \in Requests, (Proceeds(r, "checked") \/ Proceeds(r, "serving"))'
             PROVE  (Entitled(requests[r]) \/ Reached(requests[r]))'
  BY DEF Rests
<1>1. PICK q : q = requests[r]
  OBVIOUS
<1>2. requests'[r] = q /\ ~Hits(k, q)
  <2>1. requests'[r] = IF Hits(k, requests[r]) THEN [requests[r] EXCEPT !.cancelled = TRUE] ELSE requests[r]
    BY DEF CancelMailRequests
  <2>2. [requests[r] EXCEPT !.cancelled = TRUE].cancelled = TRUE
    BY DEF Sound, RequestsSound, RequestTypeOK, RequestRecords
  <2> QED
    BY <1>1, <2>1, <2>2 DEF Proceeds
<1>3. Entitled(q) \/ Reached(q)
  BY <1>1, <1>2 DEF Rests, Proceeds, Entitled, Reached, Hits, InRequests, AccessLevel
<1>4. CASE Entitled(q)
  <2>1. Entitled(q)'
    BY <1>4, EntitledStays DEF CancelMailRequests, memberVars, tokenVars, mailboxVars
  <2> QED
    BY <1>2, <2>1 DEF Entitled, AccessLevel
<1>5. CASE Reached(q)
  <2>0. PICK d \in Calls : calls[d].kind = "cancel" /\ \E j \in calls[d].pending : Hits(j, q)
    BY <1>5 DEF Reached
  <2>1. PICK j \in calls[d].pending : calls[d].kind = "cancel" /\ Hits(j, q)
    BY <2>0
  <2>2. calls'[d].kind = "cancel" /\ j \in calls'[d].pending
    <3>1. CASE d # c
      BY <3>1, <2>1 DEF CancelMailRequests, Return, ThenCancel, Sound, CallTypeOK
    <3>2. CASE d = c
      <4>1. j # k
        BY <1>2, <2>1
      <4>2. calls[c].pending # {k} /\ ThenCancel(c, calls[c].pending \ {k})
        BY <2>1, <3>2, <4>1 DEF CancelMailRequests
      <4> QED
        BY <2>1, <3>2, <4>1, <4>2 DEF ThenCancel, Sound, CallTypeOK
    <3> QED
      BY <3>1, <3>2
  <2>3. Reached(q)'
    BY <2>1, <2>2 DEF Reached
  <2> QED
    BY <1>2, <2>3 DEF Reached, Hits, InRequests
<1> QED
  BY <1>3, <1>4, <1>5

(* A request goes on: it was registered before anything was checked.       *)
LEMMA RestsServe ==
  ASSUME Sound, Rests, NEW r \in Requests, Serve(r)
  PROVE  Rests'
<1>0. UNCHANGED <<status, sessions, owner, grant, mailboxStatus, calls>>
  BY DEF Serve, LookupSession, CheckViewToken, RegisterMailRequest, SessionHashActive, CheckMailboxAccess,
         ViewToken, EndRequest, Step, OnlyRequests, memberVars, tokenVars, mailboxVars
<1>1. ASSUME NEW x \in Requests, requests'[x] = requests[x], (Proceeds(x, "checked") \/ Proceeds(x, "serving"))'
      PROVE  (Entitled(requests[x]) \/ Reached(requests[x]))'
  BY <1>0, <1>1 DEF Rests, Proceeds, Entitled, Reached, Hits, InRequests, AccessLevel
<1>2. ASSUME NEW q, Step(r, q), q.stage \in {"checked", "serving"} => Entitled(q) \/ Reached(q) PROVE Rests'
  <2>1. requests'[r] = q /\ \A x \in Requests \ {r} : requests'[x] = requests[x]
    BY <1>2 DEF Step, Sound, RequestsSound, RequestTypeOK
  <2>2. (Proceeds(r, "checked") \/ Proceeds(r, "serving"))' => (Entitled(requests[r]) \/ Reached(requests[r]))'
    BY <1>0, <1>2, <2>1 DEF Proceeds, Entitled, Reached, Hits, InRequests, AccessLevel
  <2> QED
    BY <1>1, <2>1, <2>2 DEF Rests
<1> DEFINE old == requests[r]
<1>3. old \in RequestRecords
  BY DEF Sound, RequestsSound, RequestTypeOK
<1>4. ASSUME NEW s \in Sessions, NEW b \in Mailboxes, LookupSession(r, s, b) PROVE Rests'
  BY <1>2, <1>4 DEF LookupSession, NoRequest
<1>5. ASSUME NEW t \in viewTokens, CheckViewToken(r, t) PROVE Rests'
  BY <1>2, <1>5 DEF CheckViewToken, NoRequest
<1>6. CASE RegisterMailRequest(r)
  BY <1>2, <1>3, <1>6 DEF RegisterMailRequest, RequestRecords
<1>7. CASE SessionHashActive(r)
  <2> DEFINE q == [old EXCEPT !.stage = "checked"]
  <2>1. q.stage = "checked" /\ q.session = old.session /\ q.member = old.member
    BY <1>3 DEF RequestRecords
  <2>2. Entitled(q)
    BY <1>7, <2>1 DEF Entitled, SessionHashActive, LiveSession
  <2> QED
    BY <1>2, <1>7, <2>2 DEF SessionHashActive
<1>8. CASE CheckMailboxAccess(r)
  <2> DEFINE q == [old EXCEPT !.stage = "serving", !.level = AccessLevel(old.member, old.mailbox)]
  <2>1. /\ q.stage = "serving" /\ q.level = AccessLevel(old.member, old.mailbox)
        /\ q.session = old.session /\ q.member = old.member /\ q.mailbox = old.mailbox
    BY <1>3 DEF RequestRecords
  <2>2. Entitled(old) \/ Reached(old)
    BY <1>8 DEF CheckMailboxAccess, Rests
  <2>3. Entitled(old) => Entitled(q)
    BY <1>8, <2>1 DEF Entitled, CheckMailboxAccess, MayOpen
  <2>4. Reached(old) => Reached(q)
    BY <1>8, <2>1 DEF Reached, Hits, InRequests
  <2>5. Step(r, q)
    BY <1>8 DEF CheckMailboxAccess
  <2> HIDE DEF q
  <2> QED
    BY <1>2, <2>2, <2>3, <2>4, <2>5
<1>9. CASE ViewToken(r)
  BY <1>1, <1>9 DEF ViewToken, Rests
<1>10. CASE EndRequest(r)
  BY <1>2, <1>10 DEF EndRequest, NoRequest
<1> QED
  BY <1>4, <1>5, <1>6, <1>7, <1>8, <1>9, <1>10 DEF Serve

(* Operations, time and a restart. *)
LEMMA RestsElsewhere ==
  ASSUME MembersSound, Rests
  PROVE  /\ \A m \in Members : ExecuteEnable(m) \/ FinishOperation(m) => Rests'
         /\ \A s \in Sessions : ExpireSession(s) => Rests'
         /\ \A i \in Invites : ExpireInvite(i) \/ (\E a, m \in Members : CreateInvite(a, m, i)) => Rests'
         /\ Restart => Rests'
         /\ UNCHANGED vars => Rests'
<1>0. Sound
  BY DEF MembersSound
<1>1. ASSUME UNCHANGED <<calls, requests>>, \A q : Registered(q) /\ Entitled(q) => Entitled(q)' PROVE Rests'
  <2>1. \A q : Reached(q) => Reached(q)'
    BY <1>1 DEF Reached
  <2> QED
    BY <1>0, <1>1, <2>1, RestsFrame
<1>2. ASSUME NEW m \in Members, ExecuteEnable(m) PROVE Rests'
  <2>1. status[m] = "active" => held[m].todo = "toActive"
    BY <1>2 DEF MembersSound, StatusMatchesPassword, Planned, LockPlanned, ExecuteEnable, PlanIsCurrent
  <2>2. \A q : Registered(q) /\ Entitled(q) => Entitled(q)'
    BY <1>0, <1>2, <2>1 DEF ExecuteEnable, Registered, Entitled, AccessLevel, NoMail, mailboxVars, tokenVars,
                            Sound, MemberTypeOK
  <2> QED
    BY <1>1, <1>2, <2>2 DEF ExecuteEnable, NoMail
<1>3. ASSUME NEW m \in Members, FinishOperation(m) PROVE Rests'
  BY <1>1, <1>3, EntitledStays DEF FinishOperation, NoMail, mailboxVars, tokenVars
<1>4. ASSUME NEW s \in Sessions, ExpireSession(s) PROVE Rests'
  <2>1. \A q : Registered(q) /\ Entitled(q) => Entitled(q)'
    BY <1>0, <1>4 DEF ExpireSession, Registered, Entitled, AccessLevel, NoMail, mailboxVars, memberVars,
                      Sound, SessionsSound
  <2> QED
    BY <1>1, <1>4, <2>1 DEF ExpireSession, NoMail
<1>5. ASSUME NEW i \in Invites, ExpireInvite(i) \/ (\E a, m \in Members : CreateInvite(a, m, i)) PROVE Rests'
  BY <1>1, <1>5, EntitledStays DEF ExpireInvite, CreateInvite, NoMail, mailboxVars, memberVars
<1>6. ASSUME Restart PROVE Rests'
  BY <1>6 DEF Restart, Rests, Proceeds, NoRequest
<1>7. ASSUME UNCHANGED vars PROVE Rests'
  BY <1>1, <1>7, EntitledStays DEF vars, memberVars, tokenVars, mailboxVars
<1> QED
  BY <1>2, <1>3, <1>4, <1>5, <1>6, <1>7

(* Every step keeps the requests covered.                                  *)
LEMMA RestsStep == MembersSound /\ Rests /\ [Next]_vars => Rests'
<1> SUFFICES ASSUME MembersSound, Rests, [Next]_vars PROVE Rests'
  OBVIOUS
<1>1. ASSUME NEW c \in Calls, calls[c].kind = "cancel" /\ \E k \in calls[c].pending : CancelMailRequests(c, k)
      PROVE  Rests'
  BY <1>1, RestsCancel DEF MembersSound
<1>2. ASSUME NEW r \in Requests, Serve(r) PROVE Rests'
  BY <1>2, RestsServe DEF MembersSound
<1> QED
  BY <1>1, <1>2, RestsSignIn, RestsManage, RestsCommit, RestsMailbox, RestsElsewhere DEF Next

(* core/access_requests.go, httpapi/mail.go: no mail request is served     *)
(* beyond the right it was admitted with, however many calls take rights   *)
(* away while it is being checked; "register, then check" on one side and  *)
(* "commit, then cancel" on the other leave no gap.                        *)
THEOREM ServedOnlyIfAuthorised == Spec => []ServingIsAuthorised
<1>1. Rests => ServingIsAuthorised
  BY DEF Rests, ServingIsAuthorised, Proceeds, Entitled, Reached, Authorised
<1>2. Spec => []Rests
  BY MembersAlways, RestsInit, RestsStep, PTL DEF Spec
<1> QED
  BY <1>1, <1>2, PTL
=============================================================================
