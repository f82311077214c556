# Mailhearth in TLA+

Mailhearth is a web mail client and an administration console for an organisation whose
mailboxes live at a mail provider.  One Go process serves HTTP, keeps its state in SQLite, and
talks to IMAP, SMTP and ManageSieve servers and to the providers' administration APIs.  This
directory specifies the parts of it in which steps of several actors interleave, remote calls end
in doubt, or the process stops between two steps; TLC checks the specifications on small
instances and TLAPS proves the most important properties for every instance.

All paths below are relative to the repository; `core/` is `internal/core/`, `httpapi/` is
`internal/httpapi/`.

## 1. The system

### Components

| Component | State | Operations | Correct means |
|---|---|---|---|
| Submission pipeline (`core/submissions.go`, send in `httpapi/compose.go`, `mailops/submission.go`) | rows of `submissions` (status, SMTP and Sent results, captured revisions), `submissionActive`, the draft and the Sent copy on the IMAP server | reserve, stage, queue, dispatch, execute, retry the Sent copy, recover | a request is delivered at most once; a report never contradicts what the server did; nothing is sent under a right that is gone; queued rows settle |
| Operation engine (`core/operations.go`, `operation_controls.go`, `remote_operation_controls.go`, `credential_*.go`) | `operations`, `operation_steps`, `operation_locks`; four workers | queue, execute, cancel, retry, reconcile, confirm, recover | open operations hold their resources alone; ambiguity is kept until resolved; success means everything was done, failure that nothing was, but for what section 5 names |
| IMAP pool (`internal/mailproto/imappool/pool.go`) | slots, idle connections, watchers, epochs | get, put, subscribe, invalidate, reap, close | slots neither leak nor are given back twice; nothing old survives an invalidation; Close returns and leaves nothing |
| Members, sessions, mailbox access (`core/members.go`, `member_status_operations.go`, `mailboxes.go`, `access_requests.go`, `httpapi/auth.go`, `mail.go`) | `members`, `sessions`, `invites`, `mailbox_access`, requests in progress | sign in, invite, password, disable, enable, role, ownership, grant, revoke, serve a mail request | no session or request outlives the right it rests on; one active owner |
| Offboarding (`core/offboarding_operations.go`) | an operation, the member, its mailboxes, sessions and groups | prepare, depart, hand over, leave groups, external confirmations | the departure is immediate and complete; the hand-over follows it; nobody who left keeps a mailbox |
| Addresses, groups and routing (`core/addresses.go`, `routing_operations.go`, with `mailbox_mutations.go`, `member_status_operations.go`, `member_creation.go`; the end of `setup.go`) | addresses with desired, applied and observed targets, groups and their members, the rules at the provider | create, change and delete groups and addresses; every change of a member or mailbox that concerns a group; the end of a connection's set-up | an address shown as in step delivers to what is wanted, and a group's to its team |
| Discovery and import (`core/discovery*.go`, `connection_sync.go`, `resource_observations.go`) | snapshots of the provider, observed states | synchronise, discover, import | what was read late never makes a row say what is not so |
| Managed mailboxes and credentials (`core/managed_mailboxes.go`, `mailbox_*.go`, `credential_*.go`, `entered_creation.go`, `remote_access.go`) | mailbox rows, endpoints, app passwords and entered passwords | create, attach, connect, rotate, reset, reactivate, revoke, delete, unregister | no app password is forgotten; none is called revoked while it works; mail goes on during a rotation |
| Operation secrets (`core/operation_secrets.go`) | a password that may be fetched once | seal, claim, expire | the password that was set is the one that can be fetched |
| Mail connections and endpoints (`core/connections.go`, `connection_candidates.go`, `endpoints.go`, `endpoint_views.go`) | configuration rows with revisions | configure, switch, test, update endpoints | what was verified is what is saved |
| Rules and forwarding, domains, roles, identities, billing | configuration rows | operations of the engine, direct changes | what is shown is what is stored |
| Upload store (`httpapi/uploads.go`) | temporary files and their rows | upload, open, sweep | the quota is kept; an open file is not swept |
| Providers, mail protocol helpers, storage, secrets, configuration, browser application | none of interest here | | |

`PROJECT.json` lists every component with its sources, its status and, where it is not modelled,
the reason.

### How they interact

* HTTP handlers call core services; a service changes the database in one transaction and *then*
  cancels the mail requests the change concerns (`cancelMailRequests`).
* Compose handlers write `submissions` rows and signal the dispatcher; the dispatcher starts one
  goroutine per mailbox; workers re-read rights and configuration before handing over a message.
* Administration handlers queue operations; four workers execute them; an operation's locks keep
  other operations and direct changes (`requireResourceAvailable`) away from its resources.
* Operations on members, mailboxes and groups share the groups' addresses: the plan of one names the revisions that the
  commit of another changes.
* The end of a connection's set-up gives a mailbox to an administrator beside all of these, without an operation.
* Changes of mailboxes and connections bump epochs of the IMAP pool.
* At a fatal write error a worker signals `main`, which shuts down; `StartSubmissions` and
  `StartOperations` repair what they find at the next start.

### What is hard

Repeated requests racing through checks made outside the transaction; rights read before a network
exchange and used after it; a stop between recording an intention, the remote effect and recording
the result; answers that never come; effects that come after the client gave up; stale lists of a
dispatcher; lock rows kept in step with a status by five different functions; slots given back by
whoever closes a connection; subscribers joining a watcher that is being shut down; a mail request
registered while its right is being revoked; plans made of rows that other operations change; a rule that is deleted
and created again with a failure in between; a secret that exists at the provider before any row knows it.  `PROJECT.json` lists these hazards line by line with
the properties aimed at them, and says of the few without a property why there is none.

## 2. The modules

| Module | Models |
|---|---|
| `Outbox` | what a sender is promised about delivery (abstract) |
| `Submissions` | the submission pipeline; implements `Outbox` |
| `SubmissionsProofs` | theorems about `Submissions` |
| `Reservations` | what the engine promises about resources and provider calls (abstract) |
| `Operations` | the operation engine; implements `Reservations` |
| `OperationsProofs` | theorems about `Operations` |
| `ImapPool` | the connection pool and its watchers |
| `ImapPoolProofs` | theorems about `ImapPool` |
| `Access` | members, sessions, invites, mailbox access, mail requests, departure |
| `AccessProofs` | theorems about `Access` |
| `Routing` | groups, addresses and the rules that deliver to them, with every operation and change that alters what a group delivers to |
| `RoutingProofs` | theorems about `Routing` |
| `Credentials` | app passwords, entered passwords, endpoints, and the operations that change them |
| `CredentialsTypes`, `CredentialsRows`, `CredentialsProofs` | theorems about `Credentials`, in three parts that extend each other |
| `MC...` | instances of each for TLC |

Definitions keep the name of the Go function they stand for.  A definition with a second version
beside it, such as `MarkSMTPSubmitting` and `MarkWithoutRevalidation`, documents a plausible mistake:
the second version is not part of the specification, and putting it in place of the first makes a
property fail.

### Submissions

A step is one SQL statement or transaction, or one exchange with a mail server.  `rowVars` are the
columns of `submissions`, `orgVars` the rights and revisions that the pipeline reads, `mailVars` what
the servers hold, `processVars` what dies with the process.  `Compose` through
`CompleteSubmissionStaging` is the send path of the handler; `ListQueued` and `Dispatch` are one pass
of the dispatcher, whose list may be stale; `Begin` through `RecordCleanup` are `executeSubmission` and
its helpers in the order of the code; `Stop` is a crash or a shutdown, `StartSubmissions` and
`ReconcileStaging` the recovery.  A remote call may fail or end in doubt at any time, which covers
network errors, the three-minute limit and a context cancelled by a revocation.  An attempt is one
call of the compose handler with its own submission id; attempts with equal mailbox, member and
request id are repetitions of each other.  Digests stand for contents, revisions for everything they
guard.

`Outbox` knows only the phase in which a message is reported and how often the SMTP server took it.
`Phase` maps a row to it.  The contract demands that a second message for a request is never opened,
that the intention to hand over is reported before the hand-over, and that a report, once final,
stays and is true or says "doubtful".

### Operations

All kinds of operation share `QueueOperation`, the worker loop, the recording of steps around provider
calls and the administrators' controls; these are modelled once.  What a kind does is a sequence of
at most `MaxSteps` steps: `remote` (wrapped by `remoteOperationStep`), `credential` (a result that may be
impossible to read back), `readback` (a change of a
domain, where the adapter writes and then looks the domain up), `commit` (an intermediate transaction that creates a mailbox and locks it) and
`external` (work reported by an administrator).  `Select` and `Claim` are separate because the code
selects a row and then claims it by a guarded UPDATE.  A reconciliation is `ViewOperation`, `ListSteps`,
and for each step `ReadProvider` and `RecordVerdict`, then `FinishReconcile`, because other
administrators and workers may act in between.  `LateEffect` is a provider completing a call whose client has
given up.

In `Reservations` a task is idle, open or closed; it opens with all it needs, keeps it alone, calls
providers only while open, and never reopens after it was closed.

### ImapPool

An action is one critical section under the pool's or a watcher's mutex, or what happens between two.  A
caller makes one call of `Get` or `GetFresh`; connections and watchers are named after the client that made
them.  `close` of a connection takes three steps (`Shut`, `Unlist`, `ReleaseConn`) because a sweep, the
reaper and a caller can meet in it.  Waiting on the `changed` channel is the state `asleep`; a release
wakes everybody.  The limits per mailbox and per provider connection are the same notion here, a
`place`.

### Access

A handler that reads before its transaction is two actions, the first keeping what was read in
`calls[c]`; the cancellations after a commit are pending in `calls[c]` until they are done; `DropCall` is
a handler that gives up, and `Restart` a process that stops, losing calls and requests.  `held[m]` is
the operation that locks a member, with its plan (the mailboxes it locks, at their revisions) and the
future it prepares.  `LookupSession` through `ViewToken` are the steps a mail request passes, in the order of
`withSession` and `withMailbox`: it is *registered first and checked afterwards*, while every
change *commits first and cancels afterwards*; `ServingIsAuthorised` is what these two orders achieve
together.  Roles are three ranks, `owner`, `admin` and `member`; custom roles are not
distinguished further.  `CreateInvite` is one action although the handler reads first, because its
transaction compares all it read.

### Routing

An operation is `Prepare` (the plan, made of what is read before the transaction), `Reserve` or, for groups and
addresses, `Submit` (the transaction that
compares the plan with the rows and takes the locks), and an execution whose plan consists of parts: one per group or
address, and part 0 for the change of the member or mailbox itself.  A part is delete the rule, create it
(`RemoteDelete`, `RemoteCreate`: `replaceRoutingRule`), record each outcome, and commit (`PartCommit`, `CommitChange`) against every revision the plan
captured.  `stage` is the recorded outcome of the calls for an address, `remote` what the provider has, and `rule` the
row with its desired, applied and observed targets.  A call may fail or stay unknown, an execution may stop anywhere;
`Reconcile`, `Retry` and `Cancel` are the administrator's answers.  `Sync`, `Discover`, `Import` and `ImportMailbox` are the
readers; what they write depends on a snapshot that may be old.  `CompleteConnectionSetup` acts beside them without an operation: an
administrator who ends the set-up of a connection takes an active mailbox that belongs to nobody, if neither the mailbox nor the connection is
locked (any active member may be that administrator, since roles are not modelled here).  Three history variables say what a property leaves out:
`touched` (somebody else changed the rule since it was compared), `missed` (a change of a mailbox read the groups it
concerns before its transaction, and one joined meanwhile; the hand-over of an offboarding adds the groups whose address does not follow afterwards, and a set-up
the groups of the administrator) and `abandoned`
(an update was cancelled half-way).  A group leaves `missed` when a later change that is no offboarding takes its address along, and
`abandoned` when such a change takes all its addresses along: a cancelled move may have left two.  Locks are
not modelled as rows again: a live operation holds the keys of its plan, which `Operations` proves.

Left out are the changes of members and mailboxes on which a plan for a group depends through a revision only: accepting an invite and setting
a password (`invited` becomes `active`, and groups deliver to both), the profile and role of a member, access, endpoints, rules and folders of a
mailbox.  They can only make a plan outdated, which the changes that are modelled do as well.  A member who is deleted has no mailbox and is in no
group, and a mailbox that is unregistered has no owner and no rule of its connection delivers to it.

`Fits` is what the fields of a request are after its handler has read it, and `Consistent` which rows there may be before the first
operation: `Initially` is any set of such states, and `RequestsOf` any requests that fit.  Both are assumptions on the constants
(`InitiallyConsistent`, `RequestsFit`), so the theorems hold for every organisation and every request, not for those of the instances.

### Credentials

One connection, one mailbox, and the rows of its credentials.  A secret is a number; the provider accepts some of them
(`account.accepted`), and may go on accepting one after it confirmed its revocation (`late`).  An execution (`run`) walks
through the steps of `executeMailboxManagement`, `createManagedMailbox` and `managedCredential` in the order of
the code: reserve, create the account, create an app password, save it as a candidate, verify it by login, activate it with
the endpoints and the revision, revoke the old one, wait until every endpoint refuses it.  Each call and each statement is
a step, and each may fail (`FailUnless`).  `Verdict` is what a reconciliation concludes, `Report` an administrator's
word that a lost app password was removed by hand, `ClaimSecret` and `Expire` the password that may be fetched.
`Attach`, `UpdateEndpoints`, `Reactivate`, `ConfigureConnection` and `SaveEntered` (the entered credential of a creation) check the logins
first (`Check`) and repeat in their transaction that nothing changed.  `UpdateConnection` (`Switch`), a suspension and the deletion of the
mailbox (`Unregister`) act without an operation.  The override of network modes by endpoint, changes of domain scope, permissions
(see `Operations`) and the individual logins of one check are abstracted.  `Offered` and `Fits` say which requests there are, `Consistent`
which rows may be there before the first operation.

## 3. What is checked

Every run finishes within the given bounds; the distinct questions are:

| Run | Instance | Shows |
|---|---|---|
| `submission_race` | two calls repeating one request, a colleague with full access, one revision each, one interruption | `RequestTakenAtMostOnce`, `HandOffAuthorised`, `FulfilsOutbox` |
| `submission_crash` | one message, two interruptions, two retries, one slow append | `TypeOK`, `ReportsAreTrue`, `FoldersAsReported`, `DraftsRemovedOnlyWhenFiled`, `SMTPResultFinal` |
| `submission_recover` | two requests for one mailbox, one interruption, one retry, fairness | `RowsHaveWorkers`, `QueuedIsSettled` |
| `operation_locks` | a creation, a local operation and an offboarding with overlapping resources, two workers | `LocksFollowStatus`, `CommittedIsSucceeded`, `AmbiguityHeld`, `SuccessIsTruthful`, `FulfilsReservations` |
| `operation_steps` | one request sent three times, twice with two provider calls and once as a change of a domain that is read back, two interruptions, two retries, an actor who loses its permission, one late effect, fairness | `TypeOK`, `StepAppliedOnce`, `FailedLeavesOverlooked`, `QueuedIsExecuted` |
| `operation_stale` | two administrators reconciling one operation | violation of `NeverRepeatedBlindly`, see section 5 |
| `pool_clients` | three callers (one of them `GetFresh`), two subscribers, or one of each; two slots, one invalidation, Close, fairness | `TypeOK`, `SlotsAccounted`, `NoLostWakeup`, `InvalidatedIsClosed`, `NoDeafSubscriber`, `CloseEnds` |
| `access_members` | two members, two calls at a time, one session, one invite, two changes | `TypeOK`, `SessionsFollowStatus`, `OneOwner`, `StatusMatchesPassword` |
| `access_requests` | one mail request, two sessions, one mailbox, one call at a time, two changes | `ServingIsAuthorised` |
| `routing` | three operations that meet (a change of an owner or of a status, a change of the group, an offboarding); and one operation of every kind, or of three kinds, beside readers and somebody at the provider | `TypeOK`, `SyncedAsDesired`, `GroupFollowsTeam`, `NoMailboxLeftBehind`, `CompletedIsApplied` |
| `routing_handover` | a member with a suspended mailbox leaves | violation of `SyncedGroupIsCurrent`, see section 5 |
| `credentials` | five mailboxes at different points of their life, one operation of every kind with two troubles, or two with one | `TypeOK`, `NothingForgotten`, `RevokedIsRefused`, `ServiceContinues`, `PasswordIsKnown` |

### Bounds and why they are enough

Each bound is a constant named in its module.  `MaxInterruptions` counts crashes, shutdowns and failed
writes: one puts a stop between any two steps, two also put one into the recovery from the first.
`MaxRetries = 2` lets a retry follow a retry that itself ended badly.  `MaxRevision = 1` and `MaxChanges = 2`
suffice because the code compares revisions for equality: one change makes a captured value stale, and
two let a change follow a change made meanwhile.  Two attempts for one mailbox are the smallest number that race, and of which a
stale list may hold one whose mailbox is busy meanwhile.
Two callers of `Access` are a read and a transaction that overtakes it.  Three callers on two slots are
the smallest number of which one must sleep.  `PerCredIdle` is one instead of more: the second connection
of a login already finds the list full.  The pool's runs use smaller limits than the code
(`cfg.MaxConns`, 8 and 3) so that they are reached.

`Parties` chooses in the initial state which clients of the pool take part, so that one run covers callers alone, watchers
alone and both together; together, one caller and one watcher are enough to dispute a slot.

`Initially` chooses among whole initial states.  In `routing` the operations of `Race` are those that name each other's revisions
and have a lock in common only in part, three because a plan can be overtaken between its reading and its reservation, and
again before its commit; `Wide` and `Watched` have one operation, since everything else that acts there (`Sync`, `Import`, others at
the provider) takes no locks; any request with one read in `Wide`, three of them with two reads in `Watched`.  `MaxTrouble = 1` puts one
failure anywhere, and reconciliation, retry and cancellation then follow freely.
`MaxReads = 2` makes a discovery and an import of it, or a read that is overtaken; set-ups count as reads, so that one meets every instance and,
in `Watched`, one follows an import that brings the mailbox.  In `credentials` two troubles make a rotation
fail and its repetition fail as well; two operations one after the other with one trouble let a second one start from
what the first left behind.  `MaxKeys = 6` and `MaxCreds = 4` are more than any of these executions uses up, but for the last
candidate after two failed rotations, which is then not created.

`access_requests` excludes disabling: for a request in progress it has the same shape as a departure, which
is included, and its effect on sessions is in `access_members`.

`CHECK_DEADLOCK FALSE` appears in every configuration: when all requests are finished and the bounds are used
up, the bounded system may stop.  That nothing which should go on is stuck is what the liveness properties say.

### Fairness

Only weak fairness is used.  Goroutines run; handlers whose client stays finish; every remote call ends,
since dials and SMTP dialogues have deadlines and contexts have limits; the submission dispatcher ticks
every second; a worker failure reaches `main`, which shuts down, and the container is started again.
`Routing` and `Credentials` state no fairness: their executions are those of `Operations`, whose liveness is checked there.
Administrators, users, revocations, late effects and failures are never assumed to happen.

## 4. What is proved

The theorems hold for every value of the constants that satisfies the named assumptions: any number of mailboxes, sessions, operations,
workers, interruptions and so on.  They are `ConstantsAssumption` and `BoundsAssumption` in `Submissions`; `OpsAssumption`,
`OffboardAssumption` and `BoundsAssumption` in `Operations`; `PoolAssumption` in `ImapPool`; `FounderIsMember`, `NoOneIsNobody`, `BoundsAreNat` and
`GrantLevelsAreLevels` in `Access`; `IdsArePositive`, `NoneIsNothing`, `BoundsAreNat`, `EveryoneConnected`, `RequestsFit` and `InitiallyConsistent` in
`Routing`; `NoneIsNoOp`, `IMAPIsProtocol`, `LimitsAreNat` and `InitiallyConsistent` in `Credentials`.  They say that bounds are natural numbers, that
a value standing for nobody is none of the others, what fits a request, and which rows may be there at the start; none bounds a number of things.  TLC evaluates
them on every instance.

`SubmissionsProofs`:

* `TypeCorrect`: `TypeOK` is inductive.
* `DeliveryCorrect`: the inductive invariant `DeliveryInv`.  `RequestTakenAtMostOnce` alone is not inductive: that a
  second message is not taken rests on what the row, the worker's local copy and the server's count imply about one
  another at each point of the worker (`AttemptInv`), and on at most one row existing per request (`KeyInv`).
* `AtMostOnce` and `TrueReports` follow from it; `ResultFinal` is an action property from it: the one unguarded
  write, `Persist`, never carries a copy older than the row.
* `HandOffIsAuthorised`: `MarkSMTPSubmitting` is the only step that starts a hand-over and repeats every check; the proof
  needs `RunnerInv`, that only a retry of the Sent copy may change the session that executes a row.
* `WorkersCorrect` and `RowsAreWorkedOn`: `WorkersInv` says that mailboxes in `active` and workers correspond one to one, and that a row in progress has
  the worker that will finish it (`RowWorker`) unless a write failed or the process stopped.  `RowsHaveWorkers` is what a reader of the table sees of it.
* `FoldersReported`: `FolderInv` adds what is known of a copy that is still under way (`CopyInv`) and of a draft at every point between reservation
  and cleanup (`DraftInv`); `FoldersAsReported` alone does not say why a draft that is gone stays gone.
* `DraftsOutliveDelivery`: only the cleanup and the user take drafts away, and a worker that cleans up has a row that says `sent` (`DeliveryInv`).
* `PipelineFulfilsOutbox`: initial states map to initial states, and every step is quiet (changes neither phase nor
  count) or one of a few loud ones, each mapped to a step of `Outbox`.

`OperationsProofs`:

* `TypeCorrect`.
* `LocksCorrect` from `LocksInv`: types, `Placed` (a busy worker's operation is running, or just succeeded, and no other worker has it),
  `Shaped` (steps are recorded only where an operation has them, and a `commit` step happened or did not) and `LocksFollowStatus` itself.
* `CommitCorrect`: with the effects of the completing transaction and the status written together, no later write
  separates them.
* `AmbiguityCorrect` needs `Certain`: a worker that may still end its operation with a definite answer has left no step
  unresolved behind, and one in a provider call only the step of that call.
* `SuccessCorrect` needs `Truthful` (each recorded success, answer and verdict is backed by an effect) and `Progress` (a worker has
  passed only resolved steps, and an operation noted as processed went through all of them).
* `PerformedOnce` and `FailureIsAccounted`, under `\A c, d \in Controllers : c = d`, that one administrator works at a time: with two `StepAppliedOnce` fails (section 5).
  `OnceInv` says what a step recorded as not done, as running or as unknown allows to have happened (`Spared`, `FailedUndone`), what a
  reconciliation that has read the provider may still write (`Reconciled`, which is where the single administrator is needed) that an effect was asked for (`Requested`),
  and that what was answered as rejected and yet performed is a change that was read back (`Accounted`).
* `EngineFulfilsReservations`: every step is classified by its effect on status, locks and calls, and each class is a
  step of `Reservations` or a stutter.

`AccessProofs` has three invariants, each of which needs the one before:

* `Sound`: types, and tokens and requests in use name somebody.  `TypeCorrect` follows.
* `MembersSound`: `SessionsFollowStatus`, `OneOwner` and `StatusMatchesPassword` together with `Planned`.  What a handler read
  before its transaction (`CallPlanned`), or what a queued enabling operation was planned with (`LockPlanned`), is right as long
  as the member's revision is the one that was read; every step either counts that up or leaves what was read alone
  (`Counted`).  Without it a plan to disable could meet the owner, and a plan to invite could meet a live session.
  `SessionsFollow`, `OwnerIsUnique` and `StatusAndPassword` follow.
* `Rests`: a request that has passed its first check, and was not told to stop, is `Entitled` (what was checked still
  holds) or `Reached` (a committed call has still to cancel it).  The action that takes a right away creates the
  cancellation in the same step, and requests are registered before they are checked, so every such cancellation
  `Hits` every such request.  `ServedOnlyIfAuthorised` follows.  The proof of `ExecuteEnable` needs `MembersSound`: an operation that
  makes an active member `invited` again would end a right without cancelling anything.

`ImapPoolProofs` has one inductive invariant, `Inv`:

* `Shape` (types without bounds on the counters) and `Phases` (what a caller or subscriber holds at each of its steps, and which watchers exist).
* `Slots`: the counters `sem` and `use` equal the numbers of holders.  No assumption makes the holders finite; that they are is part of the invariant,
  since every step keeps them, adds one or takes one away (`Kept`, `Gained`, `Lost`).  `TypeCorrect` (no counter below zero or beyond its limit) and
  `SlotsAreAccounted` follow.
* `NoLostWakeup`: who sleeps in `reserve` finds no room, because every step that makes room wakes everybody in the same critical section.
* `Closing`: an open connection is listed unless its dial has just ended, and a listed one is newer than the last invalidation or in the hands of a sweep; after `Close`,
  no dial and no watcher is left.  `InvalidatedEnds` follows.  `NoDeafSubscriber` is inductive with `Phases`.
* `LendingSound` and `LentOnce`: what is idle lies in the list of its own login and was registered, and no connection is in two hands or lists.

What `Get` takes from an idle list is the first usable connection; that there is a first one is by induction over positions, in the form of a least element.

`RoutingProofs` has three inductive invariants, each on top of the one before, and a fourth part, `Gone`; `RoutingInv` is all of them:

* `AddressInv`.  `Exclusive`: no key is held by two live operations; every reservation asks for it and no later step adds a key.  `WellFormed`: no
  address is in two parts of a plan, an execution is at a part that is not done, nothing is done before the change is committed.  `Planned`: the
  addresses of a live plan are what the plan wants (other plans hold other addresses), and are not shown as in step before the
  calls for them are recorded.  With these `SyncedAsDesired` is inductive: a commit writes `synced` only after every rule was read back, and a
  `Sync` needs the connection, which no live plan with a rule there leaves free.  `DoneIsApplied` adds what is done to a part stays done.
  `RowsTyped`, `InStepDelivers` and `SuccessIsApplied` follow.
* `OwnerInv`, for `NoMailboxLeftBehind`.  Whoever a request gives a mailbox to was not leaving when the request was prepared (`Prospective`) and, as the
  reservation compares revisions, is not leaving and is locked once it is live (`Receiving`); `Unborn` says that a member who is yet to be created has revision 0.
  An offboarding that has not handed over holds the member and every mailbox the member has (`Leaving`), so that nobody adds one.
  A set-up locks nothing, and gives a mailbox to an active member only; `Gone` says that nobody whose offboarding is under way is active
  again, since every change of a member's
  status holds the member (`Concerns`).  `LeaversLeaveNothing` follows.
* `GroupInv`, for `GroupFollowsTeam`.  `Follow`: the addresses of a group that nobody works on (`Calm`) and nobody is leaving (`Departing`) are to deliver to
  the mailboxes of its team; `missed` and `abandoned` groups are left out.  A set-up can only alter what the groups of its administrator
  should deliver to, and these are `missed`.  A group follows again at the commit of its part because the part is
  about all its addresses (`Within`) and its targets were compared with the rows as they are.  A committed change may alter what a group should
  deliver to only where a part has been planned for it: `Covered` says that a live plan has a part for every group of the members its change concerns,
  and `Concerns` that those are still the members it was planned for, as long as the mailbox has the revision of the plan.  `PreparedWell` carries the same from the
  preparation, which is outside the transaction, to the reservation, by revisions.  `PartsFit`: a part locks every member of its team, so no team
  of a live part can lose its candidates to somebody else's change.  `Single`: a group at rest has one address, and `AddressesFit`: an
  address of a group is one of a group that exists.
  `NobodyAbsent` keeps a member who is yet to be created out of every team.  `GroupsFollow` follows: a group that no operation holds is
  `Calm` and not `Departing`, as both
  lock it.

The proofs about `Credentials` have one inductive invariant, `IInv`, in ten parts; the three modules are stages of one proof:

* `LocalTypes`, `OpTypes`, `RemoteTypes`, and `Control`: at most one operation is live, the execution is that of the running one, and a step
  is unsettled only where a call is under way or the
  operation is `unknown`.
* `References`: what operations, executions and endpoints refer to is a row in the right state; without it nothing can be said of the secret behind a number.
* `Secrets`: no secret is used before it was made, app passwords and passwords are apart, and one row knows each (`Below`, `Apart`, `Distinct`).
* `Creations`: an app password an operation had created is nobody's and that is on record (`Orphan`), or on its way (`Arriving`), or saved
  and its creation not recorded (`Unread`),
  or a row of a recorded creation (`Stored`).  Each step of `managedCredential` moves it along this chain; `NoneIsForgotten` follows.
* `Revocations`: a row says `revoked` only if the provider refuses it, also if a revocation takes effect late.  `RevokedAreRefused` follows.
* `Passwords`: who set the present password still has it to hand over, or it was fetched, expired or given up.  `PasswordsAreKnown` follows.
* `Service`: the endpoints in use log in with something good; between a login that was tried (`Activating`, `Applying`) and the transaction that relies on
  it nothing takes it away but others at the provider, who are counted in `lost`.  `ServiceGoesOn` follows.

### Only model-checked

Liveness (`QueuedIsSettled`, `QueuedIsExecuted`, `CloseEnds`): TLAPS does not prove liveness under fairness.  Every other property that a passing run
checks is the statement of a theorem.

## 5. Where code and documentation part

`operation_stale`: `docs/architecture.md:73` promises that steps "are never re-executed blindly".  `reconcileRemoteSteps`
(`core/remote_operation_controls.go:724`) writes what it read from the provider under the condition that the step is
still `unknown` or `running`.  When a second administrator finishes the reconciliation and retries the operation between that
read and that write, the step is `running` again for a second execution; the first administrator's verdict, "it did not happen",
is then recorded over it and the next retry performs the step again.

`routing_handover`: `README.md:43` promises "dynamic distribution groups that stay in sync with team membership automatically".
`prepareOffboardGroups` (`core/offboarding_operations.go:277`) plans the rules of the heir's groups from the mailboxes that are active when
the request is made; `offboardLocalChanges` then makes every mailbox it hands over active.  A suspended mailbox that is handed over becomes
the heir's, active and personal, and the address of the heir's group is shown as `synced` without it.

Observed while modelling, and not the subject of a run:

* `CompleteConnectionSetup` (`core/setup.go:123`) breaks the same promise in another way: it gives an active mailbox that belonged to nobody to the
  administrator and takes none of their groups along, although every change of an owner by an operation does.  The addresses of these groups stay
  `synced` and do not deliver to the mailbox until the next change of the group or of its members.  The action of this name in `Routing`
  puts the groups in `missed`, which
  `GroupFollowsTeam` leaves out.
* A change of a domain at Purelymail may be performed and reported as failed.  `CreateDomain`, `UpdateDomain` and `CheckDNS`
  (`internal/provider/purelymail/adapter.go:192-236`) write and then look the domain up; if the list does not show it, `GetDomain` answers
  `verification_required`, which `remoteOperationStep` (`core/domain_bindings.go:231`) takes for a definite rejection.  The step
  and the operation are recorded as `failed`, the locks are given back, and a retry performs the step again, against
  `docs/architecture.md:73`.  `CallProvider` does this for calls of the kind `readback`, `misread` counts how often, and `StepAppliedOnce` and
  `FailedLeavesOverlooked` allow exactly that many effects.
* A sign-in verified with the old password before a change of the password still creates a session afterwards;
  `CreateSession` looks at the status only.
* `docs/architecture.md` says that mutations of access rights close pooled connections; `GrantAccess` and `RevokeAccess` cancel
  the requests in progress and leave the pool alone.
* Watchers leave no slot to callers at the level of one mailbox; with three watched folders a caller of that mailbox
  waits for a watcher to end.
* A hand-over that was prepared before a direct change of a grant ends with a revision conflict, since `GrantAccess` does not ask
  for the mailbox's lock.
* `mailbox.deleteRemote` counts what depends on the mailbox before its reservation and does not count again.
* A `group.update` cancelled half-way leaves a rule that a later import takes for the wanted one and shows as `synced`
  (`abandoned`); a cancelled move of an address leaves a group with two addresses, and an offboarding that concerns this group
  meets a revision conflict on every retry.
* After an offboarding that concerns a group whose rule is kept by hand, the address stays `pending`.
* An offboarding whose rule somebody changed at the provider after its creation was recorded ends unknown, and again after
  every retry.
* An offboarding with `removeFromGroups` raises the revision of groups it has not locked; an operation on such a group then
  fails with `revision_conflict`, possibly after calls to the provider.
* An import takes rules from a snapshot that may be fifteen minutes old.
* A rotation that is cancelled after its app password was saved as a candidate leaves that password valid; no later rotation
  revokes it.  If the creation is unknown although it was saved, and the password does not log in any more, the operation
  can be neither reconciled nor reported nor cancelled.
* A reset of the password whose endpoints use the entered password stays `needs_action`, and cancelling it discards the password
  that was set.
* Switching the last endpoint to an entered password leaves the app password active, and a later rotation refuses, having no endpoint
  to rotate for.
* A stop between recording `sent` and the cleanup leaves the staged draft in Drafts with no cleanup error.

## 6. What is not modelled

The providers' and mail servers' protocols, cryptography, MIME, layout and configuration: none of them interleaves with
anything.  Custom roles and identities.  Rules and forwarding: one operation at a time uploads and activates a script, and what
can go wrong around its calls is in `Operations`; the scripts are data.  Domains: wizards that take one step per request.  Uploads: the
quota is checked again by the INSERT itself and the sweep touches only what is a day old.  The deletion and the test of
a mail connection.  The import of members and domains.  The revocation of app passwords by an offboarding, whose steps are those of
`Credentials`.  Routing at two connections with different capabilities: the model's provider is Purelymail, the only adapter that may
manage rules; a rule kept by hand (`External`) stands for the others.  Clocks: expiry of sessions, invites, secrets and
connections happens at any time.  SQLite transactions are atomic and serial (`_txlock=immediate`, `internal/db/db.go:38`),
and durable across a stop of the process; a power failure, which may lose the last transactions under
`synchronous(NORMAL)`, is not modelled.

## 7. Plan

1. `Credentials` and `Routing` shown to refine the abstract steps of `Operations`.
2. Liveness of `Routing`: an address that is not in step is brought in step by a retry, unless the states of section 5 that
   have no way out are repaired.
3. `Rules`: upload, activation and read-back of a Sieve script against a change at the server.
