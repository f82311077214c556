------------------------------ MODULE Routing ------------------------------
(***************************************************************************)
(* Groups, addresses and the remote routing rules that deliver to them,    *)
(* and every operation that has to keep the three in step: group.* and     *)
(* address.* (core/routing_operations.go), the changes of a mailbox or of  *)
(* a member that concern groups (core/mailbox_mutations.go,                *)
(* core/mailbox_additions.go, core/member_status_operations.go,            *)
(* core/member_creation.go, core/offboarding_operations.go), the set-up of *)
(* a connection, which gives a mailbox away (core/setup.go), and what is   *)
(* read back from the provider (core/connection_sync.go,                   *)
(* core/resource_observations.go, core/discovery.go).                      *)
(*                                                                         *)
(* A statement or a transaction of the database is one atomic step, and so *)
(* is a call of the provider.  The life of an operation's row, its steps   *)
(* and its locks are the subject of Operations: here an operation holds    *)
(* the keys of its plan as long as it is live.  The provider is Purelymail *)
(* (no other adapter may manage rules), its rules are replaced by deleting *)
(* and creating them.                                                      *)
(***************************************************************************)
EXTENDS Naturals, FiniteSets

CONSTANTS
  Members, Mailboxes, Connections, Ops,
  Groups,        \* ids of groups
  Rules,         \* ids of addresses other than primary ones
  None,
  ConnectionOf,  \* the connection of every mailbox and address
  External,      \* addresses whose rule an administrator keeps by hand
  Passwordless,  \* members who have not set a password
  RequestsOf,    \* the requests that may be made of an operation
  Initially,     \* the rows at the beginning, who asks, and what of the bounds is used up
  MaxTrouble,    \* bound on calls that fail and executions that stop
  MaxForeign,    \* bound on changes made at the provider by others
  MaxReads       \* bound on synchronisations, discoveries, imports and set-ups

ASSUME IdsArePositive == Groups \cup Rules \subseteq Nat \ {0}
ASSUME NoneIsNothing  == None \notin Members \cup Mailboxes \cup Groups \cup Rules \cup {0}
ASSUME BoundsAreNat   == {MaxTrouble, MaxForeign, MaxReads} \subseteq Nat
ASSUME EveryoneConnected == ConnectionOf \in [Mailboxes \cup Rules -> Connections]

VARIABLES
  member,    \* status and revision of members
  mailbox,   \* status, kind, owner and revision of mailboxes
  group,     \* existence, revision and members of groups
  rule,      \* rows of addresses, with their provider resources
  remote,    \* the targets of the rule at the provider; {}: there is none
  snap,      \* the last discovery: targets, and whether the rule is still that one
  op,        \* operations
  stage,     \* recorded outcome of an operation's calls for an address
  trouble, foreign, reads,
  touched,   \* history: the provider differs from what was last compared
  missed,    \* history: groups a change should have taken along, and did not
  abandoned  \* history: groups whose update was given up half-way

localVars  == <<member, mailbox, group, rule>>
bounds     == <<trouble, foreign, reads>>
history    == <<touched, missed, abandoned>>
vars == <<localVars, remote, snap, op, stage, bounds, history>>

-----------------------------------------------------------------------------
(* Rows and plans. *)

Present   == {"active", "suspended", "archived"}
Live      == {"queued", "running", "needs_action", "unknown"}
Eligible  == {"active", "invited"}
Mutations == {"mailbox.update", "mailbox.suspend", "mailbox.archive", "mailbox.reactivate", "mailbox.deleteRemote"}
Composite == Mutations \cup {"mailbox.add", "member.enable", "member.disable", "member.create"}
Routes    == {"group.create", "group.update", "group.delete", "address.create", "address.update", "address.delete"}

(* What a client may ask for; fields that a kind does not use keep their   *)
(* default.  as: the new kind of a mailbox, what a new member gets, or     *)
(* what becomes of the mailboxes of somebody who leaves.                   *)
Request == [kind : Composite \cup Routes \cup {"member.offboard"}, member : Members \cup {None},
            box : Mailboxes \cup {None}, owner : Members \cup {None},
            as : {"personal", "shared", "none", "bind", "create", "handover", "suspend", "keep"},
            group : Groups \cup {0}, groups : SUBSET Groups, rule : Rules \cup {0},
            team : SUBSET Members, address : {"keep", "remove", "set"}, leave : BOOLEAN]
Ask(kind) == [kind |-> kind, member |-> None, box |-> None, owner |-> None, as |-> "personal", group |-> 0,
              groups |-> {}, rule |-> 0, team |-> {}, address |-> "keep", leave |-> FALSE]

(* What the fields of a request are when its handler has read it. *)
Fits(q) ==
  /\ q.kind \in Mutations \cup {"mailbox.add", "address.create", "address.update"} => q.box \in Mailboxes
  /\ q.kind \in {"mailbox.update", "mailbox.add"} => q.as \in {"personal", "shared"}
  /\ q.kind \in {"member.enable", "member.disable", "member.create", "member.offboard"} => q.member \in Members
  /\ q.kind \in {"member.enable", "member.disable", "member.offboard"} => q.box = None
  /\ q.kind = "member.create" => q.as \in {"none", "bind", "create"} /\ (q.as = "none" <=> q.box = None)
  /\ q.kind = "member.offboard" /\ q.as = "handover" => q.owner \in Members
  /\ q.kind \in {"group.create", "group.update", "group.delete"} =>
       q.group \in Groups /\ (q.address = "set" => q.rule \in Rules)
  /\ q.kind \in {"address.create", "address.update", "address.delete"} => q.group = 0 /\ q.rule \in Rules

ASSUME RequestsFit == \A o \in Ops : \A q \in RequestsOf[o] : q \in Request /\ Fits(q)

MemberRow  == [status : {"absent", "invited", "active", "disabled", "departed"}, rev : Nat]
MailboxRow == [status : {"absent"} \cup Present, kind : {"personal", "shared"}, owner : Members \cup {None}, rev : Nat]
GroupRow   == [exists : BOOLEAN, rev : Nat, team : SUBSET Members]
RuleRow    == [exists : BOOLEAN, kind : {"alias", "group"}, group : Groups \cup {0}, box : Mailboxes \cup {None},
               rev : Nat, desired : SUBSET Mailboxes, targets : SUBSET Mailboxes, observed : SUBSET Mailboxes,
               state : {"pending", "synced", "error", "unknown"}, rows : SUBSET {"missing", "current", "stale"}]

(* The mailboxes a group with this team distributes to. *)
Candidates(team, M, B) ==
  {b \in Mailboxes : /\ B[b].status = "active" /\ B[b].kind = "personal"
                     /\ B[b].owner \in team /\ M[B[b].owner].status \in Eligible}

(* Rows as they are when no operation is under way: who is not there was   *)
(* never changed and is in no team, nobody who left owns a mailbox, an     *)
(* address shown as in step is, and a group has at most one, which follows *)
(* its team.                                                               *)
Consistent(i) ==
  /\ i.member \in [Members -> MemberRow] /\ i.mailbox \in [Mailboxes -> MailboxRow]
  /\ i.group \in [Groups -> GroupRow] /\ i.rule \in [Rules -> RuleRow] /\ i.remote \in [Rules -> SUBSET Mailboxes]
  /\ i.foreign \in 0..MaxForeign /\ i.reads \in 0..MaxReads
  /\ \A m \in Members : i.member[m].status = "absent" => i.member[m].rev = 0
  /\ \A b \in Mailboxes : i.mailbox[b].owner # None => i.member[i.mailbox[b].owner].status # "departed"
  /\ \A r \in Rules \ External :
       i.rule[r].exists /\ i.rule[r].state = "synced" => i.remote[r] = i.rule[r].desired
  /\ \A g \in Groups : \A m \in i.group[g].team : i.member[m].status # "absent"
  /\ \A r \in Rules : LET g == i.rule[r].group IN
       g # 0 => /\ i.rule[r].exists /\ i.rule[r].kind = "group" /\ i.group[g].exists
                /\ i.rule[r].desired = Candidates(i.group[g].team, i.member, i.mailbox)
                /\ \A s \in Rules : i.rule[s].group = g => s = r

ASSUME InitiallyConsistent == \A i \in Initially : Consistent(i)

IsVersions(v) ==
  /\ DOMAIN v.members \subseteq Members /\ \A m \in DOMAIN v.members : v.members[m] \in Nat
  /\ DOMAIN v.boxes \subseteq Mailboxes /\ \A b \in DOMAIN v.boxes : v.boxes[b] \in Nat
IsPart(p) ==
  /\ p.group \in Groups \cup {0} /\ p.rev \in Nat /\ p.team \subseteq Members /\ IsVersions(p.versions)
  /\ DOMAIN p.rules \subseteq Rules
  /\ \A r \in DOMAIN p.rules : p.rules[r] \in [rev : Nat, targets : SUBSET Mailboxes, delete : BOOLEAN]
Empty    == [x \in {} |-> 0]
NoRows   == [members |-> Empty, boxes |-> Empty]
NoPlan   == [old |-> NoRows, new |-> NoRows, before |-> Empty, parts |-> Empty]
Idle     == [status |-> "idle", request |-> Ask("group.update"), plan |-> NoPlan,
             committed |-> FALSE, processed |-> FALSE, part |-> None, done |-> {}]
Settled(status)  == [Idle EXCEPT !.status = status]
Untried  == [r \in Rules |-> "none"]

(* What becomes of the resource rows of an address when its rule goes.     *)
Outdated(rows) == IF "current" \in rows THEN (rows \ {"current"}) \cup {"stale"} ELSE rows

Lowest(S) == CHOOSE x \in S : \A y \in S : x <= y

RowVersions(S, M, T, B) == [members |-> [m \in S |-> M[m].rev], boxes |-> [b \in T |-> B[b].rev]]

AddressesOf(g) == {r \in Rules : rule[r].exists /\ rule[r].group = g}
AddressOf(g)   == IF AddressesOf(g) = {} THEN {} ELSE {Lowest(AddressesOf(g))}

(* A routingPlan of a group with this team: what its address has to        *)
(* deliver to, given the rows of members and mailboxes.                    *)
GroupPlan(g, team, R, M, B) ==
  LET to == Candidates(team, M, B)
  IN  [group |-> g, rev |-> group[g].rev, team |-> team,
       versions |-> RowVersions(team, M, IF R = {} THEN {} ELSE to, B),
       rules |-> [r \in R |-> [rev |-> rule[r].rev, targets |-> to, delete |-> FALSE]]]

Removal(R) == [r \in R |-> [rev |-> rule[r].rev, targets |-> {}, delete |-> TRUE]]

-----------------------------------------------------------------------------
(* What a plan locks, and whether what it was made from is still there.    *)

PartKeys(p) ==
  ({<<"group", p.group>>} \ {<<"group", 0>>})
  \cup {<<"address", r>> : r \in DOMAIN p.rules}
  \cup {<<"connection", ConnectionOf[r]>> : r \in DOMAIN p.rules}
  \cup {<<"member", m>> : m \in DOMAIN p.versions.members}
  \cup {<<"mailbox", b>> : b \in DOMAIN p.versions.boxes}

(* An addition and a member's new mailbox lock the address of the mailbox, *)
(* a bound or an existing one is locked by its id.                         *)
BoxKeys(q) ==
  IF q.box = None \/ q.kind \in Routes THEN {}
  ELSE {<<"connection", ConnectionOf[q.box]>>}
       \cup (IF q.kind \in {"mailbox.add", "member.create"} THEN {<<"mailbox-address", q.box>>} ELSE {})
       \cup (IF q.kind \in Mutations \/ q.as = "bind" THEN {<<"mailbox", q.box>>} ELSE {})

(* An offboarding locks the mailboxes it hands over.                       *)
OldKeys(q, old) ==
  LET given == IF q.kind = "member.offboard" THEN DOMAIN old.boxes ELSE {}
  IN  BoxKeys(q) \cup {<<"member", m>> : m \in DOMAIN old.members}
      \cup {<<"mailbox", b>> : b \in given} \cup {<<"connection", ConnectionOf[b]>> : b \in given}
KeysOf(parts) == UNION {PartKeys(parts[k]) : k \in DOMAIN parts}
Keys(q, plan) == OldKeys(q, plan.old) \cup KeysOf(plan.before) \cup KeysOf(plan.parts)

Held(o) == IF op[o].status \in Live THEN Keys(op[o].request, op[o].plan) ELSE {}
Free(K) == \A o \in Ops : Held(o) \cap K = {}
HeldGroup(g) == \E o \in Ops : <<"group", g>> \in Held(o)

\* Mutant: the revisions of members are not compared.
CurrentBoxes(v) == \A b \in DOMAIN v.boxes : mailbox[b].rev = v.boxes[b]

Current(v) ==
  /\ \A m \in DOMAIN v.members : member[m].rev = v.members[m]
  /\ \A b \in DOMAIN v.boxes : mailbox[b].rev = v.boxes[b]

(* validateRoutingPlan *)
PartCurrent(p) ==
  /\ p.group # 0 => group[p.group].exists /\ group[p.group].rev = p.rev
  /\ \A r \in DOMAIN p.rules : rule[r].exists /\ rule[r].rev = p.rules[r].rev
  /\ Current(p.versions)

(* validateGroupCandidates *)
CandidatesCurrent(p) ==
  p.group # 0 =>
    \A r \in DOMAIN p.rules : ~p.rules[r].delete =>
      LET to == Candidates(p.team, member, mailbox)
      IN  p.rules[r].targets = to /\ p.versions.boxes = [b \in to |-> mailbox[b].rev]

RowsCurrent(o) == Current(IF op[o].committed THEN op[o].plan.new ELSE op[o].plan.old)

(* validate...Progress: what an operation was planned on, as far as it is  *)
(* not done yet.                                                           *)
Progress(o) ==
  LET q == op[o].request
      parts == IF op[o].committed THEN op[o].plan.parts ELSE op[o].plan.before
  IN  /\ RowsCurrent(o)
      /\ \A k \in DOMAIN parts \ op[o].done :
           /\ PartCurrent(parts[k])
           /\ \/ q.kind = "mailbox.add"
              \/ op[o].committed /\ q.kind \in Composite \ {"member.create"}
              => CandidatesCurrent(parts[k])

-----------------------------------------------------------------------------
(* The change that a composite operation makes to a member or a mailbox.   *)

MailboxAfter(q) ==
  LET was == mailbox[q.box]
  IN  CASE q.kind = "mailbox.update" ->
             [was EXCEPT !.kind = q.as, !.owner = IF q.as = "shared" THEN None ELSE q.owner, !.rev = @ + 1]
        [] q.kind = "mailbox.suspend" -> [was EXCEPT !.status = "suspended", !.rev = @ + 1]
        [] q.kind \in {"mailbox.archive", "mailbox.deleteRemote"} -> [was EXCEPT !.status = "archived", !.rev = @ + 1]
        [] q.kind = "mailbox.reactivate" -> [was EXCEPT !.status = "active", !.rev = @ + 1]
        [] q.kind = "mailbox.add" ->
             [status |-> "active", kind |-> q.as, owner |-> q.owner, rev |-> was.rev + 1]
        [] q.kind = "member.create" /\ q.as = "create" ->
             [status |-> "active", kind |-> "personal", owner |-> q.member, rev |-> was.rev + 1]
        [] OTHER -> [was EXCEPT !.owner = q.member, !.rev = @ + 1]

MailboxesAfter(q) == IF q.box = None THEN mailbox ELSE [mailbox EXCEPT ![q.box] = MailboxAfter(q)]

Enabled(m) == IF m \in Passwordless THEN "invited" ELSE "active"
\* Mutant: a member gets the status of a mailbox.
MembersAfterMixed(q) ==
  CASE q.kind = "member.enable"  -> [member EXCEPT ![q.member] = [status |-> Enabled(q.member), rev |-> @.rev + 1]]
    [] q.kind = "member.disable" -> [member EXCEPT ![q.member] = [status |-> "suspended", rev |-> @.rev + 1]]
    [] OTHER -> member

MembersAfter(q) ==
  CASE q.kind = "member.enable"  -> [member EXCEPT ![q.member] = [status |-> Enabled(q.member), rev |-> @.rev + 1]]
    [] q.kind = "member.disable" -> [member EXCEPT ![q.member] = [status |-> "disabled", rev |-> @.rev + 1]]
    [] OTHER -> member

Invited(q) == IF q.kind = "member.create" THEN [member EXCEPT ![q.member] = [status |-> "invited", rev |-> 1]]
                                          ELSE member

\* Mutant: the groups of the new owner are forgotten.
ConcernedBefore(q) ==
  CASE q.kind \in Mutations -> {mailbox[q.box].owner} \ {None}
    [] q.kind = "mailbox.add" -> {q.owner} \ {None}
    [] OTHER -> {q.member}

(* The members whose groups the change concerns. *)
Concerned(q) ==
  CASE q.kind \in Mutations ->
         {mailbox[q.box].owner, MailboxAfter(q).owner} \ {None}
    [] q.kind = "mailbox.add" -> {q.owner} \ {None}
    [] OTHER -> {q.member}

ConcernedGroups(q) ==
  IF q.kind = "member.create" THEN q.groups
  ELSE {g \in Groups : group[g].exists /\ group[g].team \cap Concerned(q) # {}}

(* deleteRemote counts the addresses that deliver to the mailbox. *)
Dependents(b) ==
  {r \in Rules : /\ rule[r].exists /\ rule[r].kind # "group" /\ ConnectionOf[r] = ConnectionOf[b]
                 /\ rule[r].box = b \/ b \in rule[r].targets}

Acceptable(q) ==
  CASE q.kind = "mailbox.update" ->
         /\ mailbox[q.box].status \in Present
         /\ MailboxAfter(q).owner \notin {None, mailbox[q.box].owner} => member[q.owner].status \in Eligible
    [] q.kind = "mailbox.suspend" -> mailbox[q.box].status \in Present \ {"archived"}
    [] q.kind = "mailbox.archive" -> mailbox[q.box].status \in Present \ {"archived"}
    [] q.kind = "mailbox.deleteRemote" -> mailbox[q.box].status \in Present /\ Dependents(q.box) = {}
    [] q.kind = "mailbox.reactivate" -> mailbox[q.box].status = "suspended"
    [] q.kind = "mailbox.add" ->
         /\ mailbox[q.box].status = "absent"
         /\ q.owner # None => q.as = "personal" /\ member[q.owner].status \in Eligible
    [] q.kind \in {"member.enable", "member.disable"} -> member[q.member].status \notin {"absent", "departed"}
    [] q.kind = "member.create" ->
         /\ member[q.member].status = "absent" /\ \A g \in q.groups : group[g].exists
         /\ q.as = "create" => mailbox[q.box].status = "absent"
         /\ q.as = "bind" => mailbox[q.box].status = "active" /\ mailbox[q.box].kind = "personal" /\ mailbox[q.box].owner = None

ChangePlan(q) ==
  LET S == Concerned(q)
      T == {q.box} \ {None}
      B == MailboxesAfter(q)
      M == IF q.kind = "member.create" THEN Invited(q) ELSE MembersAfter(q)
      joins == IF q.kind = "member.create" THEN {q.member} ELSE {}
  IN  [old |-> RowVersions(S, member, T, mailbox), new |-> RowVersions(S, M, T, B),
       before |-> [g \in ConcernedGroups(q) |-> GroupPlan(g, group[g].team, AddressOf(g), member, mailbox)],
       parts |-> [g \in ConcernedGroups(q) |-> GroupPlan(g, group[g].team \cup joins, AddressOf(g), M, B)]]

-----------------------------------------------------------------------------
(* Requests for a change of a mailbox or a member.  The plan is made       *)
(* outside the transaction that reserves it.                               *)

(* The rules of the plan become pending, with the targets to come. *)
Reserved(plan) ==
  LET R == UNION {DOMAIN plan.parts[k].rules : k \in DOMAIN plan.parts}
      RuleOf(r) == LET k == CHOOSE k \in DOMAIN plan.parts : r \in DOMAIN plan.parts[k].rules IN plan.parts[k].rules[r]
  IN  [r \in Rules |-> IF r \notin R THEN rule[r]
                       ELSE [rule[r] EXCEPT !.exists = TRUE, !.desired = RuleOf(r).targets,
                                            !.state = "pending", !.rev = @ + 1]]

Bumped(parts) ==
  [k \in DOMAIN parts |->
     [parts[k] EXCEPT !.rules = [r \in DOMAIN parts[k].rules |-> [parts[k].rules[r] EXCEPT !.rev = @ + 1]]]]

Prepare(o) ==
  /\ op[o].status = "idle"
  /\ \E q \in RequestsOf[o] :
       /\ q.kind \in Composite /\ Acceptable(q)
       /\ op' = [op EXCEPT ![o].status = "prepared", ![o].request = q, ![o].plan = ChangePlan(q)]
  /\ UNCHANGED <<localVars, remote, snap, stage, bounds, history>>

Immediate == {"mailbox.suspend", "mailbox.archive", "mailbox.deleteRemote", "member.disable"}

Reservable(o) ==
  LET q == op[o].request
      plan == op[o].plan
  IN  /\ Free(Keys(q, plan)) /\ Current(plan.old)
      /\ \A k \in DOMAIN plan.before :
           PartCurrent(plan.before[k]) /\ (q.kind = "mailbox.add" => CandidatesCurrent(plan.before[k]))

(* reserveMailboxMutation, reserveMailboxAddition, reserveMemberStatus and *)
(* reserveMemberCreation.  What takes access away is committed at once, a  *)
(* new member exists from here on.                                         *)
Reserve(o) ==
  LET q == op[o].request
      plan == op[o].plan
      now == q.kind \in Immediate
  IN  /\ op[o].status = "prepared" /\ Reservable(o)
      /\ rule' = Reserved(plan)
      /\ mailbox' = IF now THEN MailboxesAfter(q) ELSE mailbox
      /\ member' = IF now THEN MembersAfter(q) ELSE Invited(q)
      /\ op' = [op EXCEPT ![o].status = "queued",
                          ![o].plan = [plan EXCEPT !.before = Bumped(@), !.parts = Bumped(@),
                                                   !.old = IF q.kind = "member.create" THEN [@ EXCEPT !.members = plan.new.members] ELSE @],
                          ![o].committed = now \/ (q.kind = "member.create" /\ q.as = "none")]
      /\ missed' = missed \cup (ConcernedGroups(q) \ DOMAIN plan.parts)
      /\ UNCHANGED <<group, remote, snap, stage, bounds, touched, abandoned>>

Refuse(o) ==
  /\ op[o].status = "prepared" /\ ~Reservable(o)
  /\ op' = [op EXCEPT ![o] = Settled("rejected")]
  /\ UNCHANGED <<localVars, remote, snap, stage, bounds, history>>

-----------------------------------------------------------------------------
(* Requests for a group or an address.  Their plan is made again by the    *)
(* transaction and must be the same: one step.                             *)

NoGroup == [group |-> 0, rev |-> 0, team |-> {}, versions |-> NoRows, rules |-> Empty]

RoutePlan(q) ==
  LET g == q.group
      old == AddressOf(g)
      kept == GroupPlan(g, IF q.kind = "group.delete" THEN group[g].team ELSE q.team,
                        IF q.address = "remove" THEN {} ELSE IF q.address = "set" THEN {q.rule} ELSE old, member, mailbox)
  IN  CASE q.kind = "group.delete" ->
             [kept EXCEPT !.rules = Removal(old), !.versions = NoRows]
        [] q.kind = "address.delete" -> [NoGroup EXCEPT !.rules = Removal({q.rule})]
        [] q.kind \in {"address.create", "address.update"} ->
             [NoGroup EXCEPT !.versions = RowVersions({}, member, {q.box}, mailbox),
                             !.rules = [r \in {q.rule} |-> [rev |-> rule[r].rev, targets |-> {q.box}, delete |-> FALSE]]]
        [] q.kind \in {"group.create", "group.update"} ->
             IF q.address = "keep" THEN kept
             ELSE   \* the previous address goes first
                  [kept EXCEPT !.rules = [r \in old \cup DOMAIN kept.rules |->
                                            IF r \in DOMAIN kept.rules THEN kept.rules[r] ELSE Removal(old)[r]]]

Routable(q) ==
  CASE q.kind = "group.create" -> ~group[q.group].exists /\ (q.address = "set" => ~rule[q.rule].exists)
    [] q.kind = "group.update" ->
         /\ group[q.group].exists
         /\ q.address = "set" => ~rule[q.rule].exists \/ q.rule \in AddressOf(q.group)
    [] q.kind = "group.delete" -> group[q.group].exists
    [] OTHER ->
         /\ rule[q.rule].exists <=> q.kind # "address.create"
         /\ rule[q.rule].exists => rule[q.rule].kind # "group"
         /\ q.kind # "address.delete" =>
              mailbox[q.box].status = "active" /\ ConnectionOf[q.box] = ConnectionOf[q.rule]

(* reserveRouting *)
Submit(o) ==
  /\ op[o].status = "idle"
  /\ \E q \in RequestsOf[o] :
       LET part == RoutePlan(q)
           plan == [NoPlan EXCEPT !.parts = [k \in {q.group} |-> part], !.before = [k \in {q.group} |-> part]]
           new == {r \in DOMAIN part.rules : ~rule[r].exists}
           r1 == Reserved(plan)
       IN  /\ q.kind \in Routes /\ Routable(q) /\ Free(Keys(q, plan))
           /\ \A m \in part.team : member[m].status # "absent"
           /\ rule' = [r \in Rules |->
                         IF r \notin new THEN r1[r]
                         ELSE [r1[r] EXCEPT !.group = q.group, !.targets = {}, !.observed = {}, !.rows = {},
                                            !.kind = IF q.group = 0 THEN "alias" ELSE "group",
                                            !.box = IF q.group = 0 THEN q.box ELSE None]]
           /\ group' = IF q.kind = "group.create"
                       THEN [group EXCEPT ![q.group] = [exists |-> TRUE, rev |-> @.rev + 1, team |-> {}]] ELSE group
           /\ op' = [op EXCEPT ![o] =
                       [Idle EXCEPT !.status = "queued", !.request = q, !.committed = TRUE,
                                    !.plan = [NoPlan EXCEPT !.parts =
                                       [k \in {q.group} |-> [Bumped(plan.parts)[k] EXCEPT
                                           !.rev = IF q.kind = "group.create" THEN @ + 1 ELSE @]]]]]
  /\ UNCHANGED <<member, mailbox, remote, snap, stage, bounds, history>>

-----------------------------------------------------------------------------
(* Offboarding: the member departs when the request is taken, the mailboxes *)
(* and groups follow.                                                       *)

Owned(m) == {b \in Mailboxes : mailbox[b].owner = m}

OffboardPlan(q) ==
  LET heir == IF q.as = "handover" THEN {q.owner} ELSE {}
      affected(g) == LET team == {m \in group[g].team : member[m].status \in Eligible} IN
                     q.member \in team \/ (Owned(q.member) # {} /\ heir \cap team # {})
      B == [b \in Mailboxes |-> IF b \notin Owned(q.member) THEN mailbox[b]
                                ELSE [mailbox[b] EXCEPT !.owner = IF heir = {} THEN None ELSE q.owner]]
      R == {r \in Rules : rule[r].exists /\ rule[r].kind = "group" /\ rule[r].group # 0 /\ affected(rule[r].group)}
  IN  [NoPlan EXCEPT
        !.old = RowVersions({q.member} \cup (IF Owned(q.member) = {} THEN {} ELSE heir), member, Owned(q.member), mailbox),
        !.parts = [r \in R |-> GroupPlan(rule[r].group, group[rule[r].group].team \ {q.member}, {r}, member, B)]]

(* The keys of an offboarding are its groups, not their other members.     *)
OffboardKeys(plan) == [plan EXCEPT !.parts = [r \in DOMAIN @ |-> [@[r] EXCEPT !.versions = NoRows]]]

(* commitOffboardDeparture *)
Depart(o) ==
  /\ op[o].status = "idle"
  /\ \E q \in RequestsOf[o] :
       LET plan == OffboardKeys(OffboardPlan(q))
       IN  /\ q.kind = "member.offboard" /\ member[q.member].status \notin {"absent", "departed"}
           /\ q.as = "handover" => q.owner # q.member /\ member[q.owner].status = "active"
           /\ Free(Keys(q, [plan EXCEPT !.before = plan.parts]))
           /\ member' = [member EXCEPT ![q.member] = [status |-> "departed", rev |-> @.rev + 1]]
           /\ op' = [op EXCEPT ![o] = [Idle EXCEPT !.status = "queued", !.request = q,
                                                   !.plan = [plan EXCEPT !.before = plan.parts]]]
  /\ UNCHANGED <<mailbox, group, rule, remote, snap, stage, bounds, history>>

(* offboardLocalChanges.  Each group is counted up once per address: with  *)
(* two addresses the second update finds another revision.                 *)
HandoverCurrent(o) ==
  LET q == op[o].request
      plan == op[o].plan
      parts == plan.parts
  IN  /\ q.as = "handover" /\ DOMAIN plan.old.boxes # {} => member[q.owner].status = "active"
      /\ \A b \in DOMAIN plan.old.boxes : mailbox[b].owner = q.member /\ mailbox[b].rev = plan.old.boxes[b]
      /\ \A r \in DOMAIN parts :
           /\ group[parts[r].group].rev = parts[r].rev /\ rule[r].rev = parts[r].rules[r].rev
           /\ \A s \in DOMAIN parts \ {r} : parts[s].group # parts[r].group

HandOver(o) ==
  LET q == op[o].request
      plan == op[o].plan
      listed == {plan.parts[r].group : r \in DOMAIN plan.parts}
      left == {g \in Groups : q.leave /\ q.member \in group[g].team}
  IN  /\ op[o].status = "running" /\ q.kind = "member.offboard" /\ ~op[o].committed /\ HandoverCurrent(o)
      /\ mailbox' = [b \in Mailboxes |->
                       IF b \notin DOMAIN plan.old.boxes THEN mailbox[b]
                       ELSE [owner |-> IF q.as = "handover" THEN q.owner ELSE None,
                             kind |-> IF q.as = "shared" THEN "shared" ELSE "personal",
                             status |-> IF mailbox[b].status = "archived" THEN "archived"
                                        ELSE IF q.as = "suspend" THEN "suspended" ELSE "active",
                             rev |-> mailbox[b].rev + 1]]
      /\ group' = [g \in Groups |-> [group[g] EXCEPT !.rev = IF g \in listed \cup left THEN @ + 1 ELSE @,
                                                     !.team = IF g \in left THEN @ \ {q.member} ELSE @]]
      /\ rule' = Reserved(plan)
      /\ op' = [op EXCEPT ![o].committed = TRUE, ![o].plan.parts = Bumped(@)]
      /\ missed' = missed \cup {g \in Groups : \E r \in AddressOf(g) :
                                  rule'[r].desired # Candidates(group'[g].team, member, mailbox')}
      /\ UNCHANGED <<member, remote, snap, stage, bounds, touched, abandoned>>

-----------------------------------------------------------------------------
(* Execution.  The parts of a plan follow one another; within a part the   *)
(* rule of each address is deleted, created again and read back.           *)

Running(o) == op[o].status = "running"
Offboards(o) == op[o].request.kind = "member.offboard"

Start(o) ==
  /\ op[o].status = "queued"
  /\ op' = [op EXCEPT ![o].status = "running", ![o].part = None,
                      ![o].done = IF Offboards(o) THEN {} ELSE @]
  /\ UNCHANGED <<localVars, remote, snap, stage, bounds, history>>

(* commitMailboxMutation, commitMemberStatus and the local commits of an   *)
(* addition or a new member's mailbox.                                     *)
Uncommitted(o) == Running(o) /\ op[o].request.kind \in Composite /\ ~op[o].committed
CommitChange(o) ==
  LET q == op[o].request
  IN  /\ Uncommitted(o) /\ Progress(o)
      /\ mailbox' = MailboxesAfter(q) /\ member' = MembersAfter(q)
      /\ op' = [op EXCEPT ![o].committed = TRUE]
      /\ UNCHANGED <<group, rule, remote, snap, stage, bounds, history>>

Undone(o) == (DOMAIN op[o].plan.parts \ op[o].done) \ (IF Offboards(o) THEN External ELSE {})
Between(o) == Running(o) /\ op[o].committed /\ op[o].part = None

(* What is validated before the remote calls of a part.  An offboarding    *)
(* validates nothing.                                                      *)
BeginValid(o) ==
  LET q == op[o].request
      p == op[o].plan.parts[Lowest(Undone(o))]
  IN  \/ Offboards(o)
      \/ /\ PartCurrent(p) /\ CandidatesCurrent(p)
         /\ q.kind \in Mutations => RowsCurrent(o)
         /\ q.kind \in Composite \ Mutations => Progress(o)

BeginPart(o) ==
  /\ Between(o) /\ Undone(o) # {} /\ BeginValid(o)
  /\ op' = [op EXCEPT ![o].part = Lowest(Undone(o))]
  /\ UNCHANGED <<localVars, remote, snap, stage, bounds, history>>

Working(o) == Running(o) /\ op[o].part # None
PartOf(o) == op[o].plan.parts[op[o].part]
Handled(o, r) == stage[o][r] = "created" \/ (stage[o][r] = "deleted" /\ PartOf(o).rules[r].targets = {})
Unhandled(o) == {r \in DOMAIN PartOf(o).rules \ External : ~Handled(o, r)}

(* The address a group gives up comes first. *)
NextRule(o) ==
  LET gone == {r \in Unhandled(o) : PartOf(o).rules[r].delete}
  IN  Lowest(IF gone = {} THEN Unhandled(o) ELSE gone)

(* A call ends as recorded, or its outcome stays unknown.                  *)
RemoteDelete(o) ==
  /\ Working(o) /\ Unhandled(o) # {}
  /\ LET r == NextRule(o) IN
       /\ stage[o][r] = "none"
       /\ \/ /\ remote' = [remote EXCEPT ![r] = {}]
             /\ stage' = [stage EXCEPT ![o][r] = "deleted"] /\ UNCHANGED <<op, trouble>>
          \/ /\ trouble < MaxTrouble /\ trouble' = trouble + 1
             /\ remote' \in {remote, [remote EXCEPT ![r] = {}]}
             /\ stage' = [stage EXCEPT ![o][r] = "deleting"]
             /\ op' = [op EXCEPT ![o].status = "unknown", ![o].part = None]
       /\ IF remote'[r] = remote[r] THEN UNCHANGED <<rule, snap>>
          ELSE /\ rule' = [rule EXCEPT ![r].rows = Outdated(@)]
               /\ snap' = [snap EXCEPT ![r].live = FALSE]
  /\ UNCHANGED <<member, mailbox, group, foreign, reads, history>>

(* The provider refuses a second rule for an address; a call that it       *)
(* refuses is an end of the execution, Stop.                               *)
RemoteCreate(o) ==
  /\ Working(o) /\ Unhandled(o) # {}
  /\ LET r == NextRule(o)
         made == [remote EXCEPT ![r] = PartOf(o).rules[r].targets]
     IN  /\ stage[o][r] = "deleted" /\ remote[r] = {}
         /\ \/ /\ remote' = made
               /\ stage' = [stage EXCEPT ![o][r] = "created"] /\ UNCHANGED <<op, trouble>>
            \/ /\ trouble < MaxTrouble /\ trouble' = trouble + 1
               /\ remote' \in {remote, made}
               /\ stage' = [stage EXCEPT ![o][r] = "creating"]
               /\ op' = [op EXCEPT ![o].status = "unknown", ![o].part = None]
  /\ UNCHANGED <<localVars, snap, foreign, reads, history>>

(* A refused call, an error, or a restart of the service.                  *)
Stop(o) ==
  /\ Running(o) /\ trouble < MaxTrouble /\ trouble' = trouble + 1
  /\ \E s \in {"needs_action", "unknown"} : op' = [op EXCEPT ![o].status = s, ![o].part = None]
  /\ UNCHANGED <<localVars, remote, snap, stage, foreign, reads, history>>

(* replaceRoutingRule reads each rule back after its calls.  What others   *)
(* change after that and before the commit may as well have been changed   *)
(* after the commit, so one step reads all of them.                        *)
ReadBack(o) == Working(o) /\ Unhandled(o) = {}
Applied(p, r) == remote[r] = p.rules[r].targets

AsPlanned(o) == \A r \in DOMAIN PartOf(o).rules \ External : Applied(PartOf(o), r)

Mismatch(o) ==
  /\ ReadBack(o) /\ ~AsPlanned(o)
  /\ \E r \in DOMAIN PartOf(o).rules \ External :
       /\ ~Applied(PartOf(o), r)
       /\ op' = [op EXCEPT ![o].part = None,
                           ![o].status = IF remote[r] = {} THEN "needs_action" ELSE "unknown"]
  /\ UNCHANGED <<localVars, remote, snap, stage, bounds, history>>

(* The transaction that ends a part: executeRouting, applyOffboardGroup.   *)
PartValid(o) ==
  LET p == PartOf(o)
  IN  IF Offboards(o)
      THEN \A r \in DOMAIN p.rules : rule[r].rev = p.rules[r].rev /\ rule[r].desired = p.rules[r].targets
      ELSE PartCurrent(p) /\ CandidatesCurrent(p)

NoRule(r) == [exists |-> FALSE, kind |-> "alias", group |-> 0, box |-> None, rev |-> rule[r].rev, desired |-> {},
              targets |-> {}, observed |-> {}, state |-> "pending", rows |-> {}]

RuleAfter(o, r) ==
  LET p == PartOf(o)
      wanted == p.rules[r]
      box == IF op[o].request.kind \in {"address.create", "address.update"} THEN op[o].request.box ELSE rule[r].box
  IN  CASE r \in DOMAIN p.rules /\ wanted.delete -> NoRule(r)
        [] r \in DOMAIN p.rules \cap External /\ ~wanted.delete ->
             [rule[r] EXCEPT !.targets = wanted.targets, !.box = box, !.state = "unknown"]
        [] r \in DOMAIN p.rules \ External /\ ~wanted.delete ->
             [rule[r] EXCEPT !.targets = wanted.targets, !.observed = wanted.targets, !.box = box, !.state = "synced",
                             !.rows = (IF @ = {} THEN {} ELSE {"missing"})
                                      \cup (IF wanted.targets = {} THEN {} ELSE {"current"})]
        [] r \notin DOMAIN p.rules ->
             [rule[r] EXCEPT !.group = IF op[o].request.kind = "group.delete" /\ @ = p.group THEN 0 ELSE @]

GroupsAfter(o) ==
  LET g == PartOf(o).group
  IN  IF Offboards(o) \/ g = 0 THEN group
      ELSE IF op[o].request.kind = "group.delete" THEN [group EXCEPT ![g].exists = FALSE, ![g].team = {}]
      ELSE [group EXCEPT ![g].rev = @ + 1, ![g].team = PartOf(o).team]

PartCommit(o) ==
  LET p == PartOf(o)
  IN  /\ ReadBack(o) /\ AsPlanned(o) /\ PartValid(o)
      /\ rule' = [r \in Rules |-> RuleAfter(o, r)]
      /\ group' = GroupsAfter(o)
      /\ touched' = touched \ DOMAIN p.rules
      /\ IF Offboards(o) THEN UNCHANGED <<missed, abandoned>>
         ELSE /\ missed' = missed \ {p.group}
              /\ abandoned' = IF AddressesOf(p.group) \subseteq DOMAIN p.rules THEN abandoned \ {p.group} ELSE abandoned
      /\ IF op[o].request.kind \in Routes
         THEN op' = [op EXCEPT ![o] = Settled("succeeded")] /\ stage' = [stage EXCEPT ![o] = Untried]
         ELSE op' = [op EXCEPT ![o].part = None, ![o].done = @ \cup {op[o].part}] /\ UNCHANGED stage
      /\ UNCHANGED <<member, mailbox, remote, snap, bounds>>

(* The transaction that ends the whole operation. *)

\* Mutant: the end does not look at the groups that are left.
AllDoneEarly(o) == Between(o)
AllDone(o) == Between(o) /\ Undone(o) = {}
FinishValid(o) ==
  LET q == op[o].request
  IN  CASE q.kind \in Mutations -> RowsCurrent(o)
        [] q.kind = "member.create" -> member[q.member].rev = 1 /\ member[q.member].status = "invited"
        [] OTHER -> Progress(o)

Finish(o) ==
  LET q == op[o].request
  IN  /\ AllDone(o) /\ ~Offboards(o) /\ FinishValid(o)
      /\ member' = IF q.kind = "member.create"
                   THEN [member EXCEPT ![q.member] = [status |-> Enabled(q.member), rev |-> @.rev + 1]] ELSE member
      /\ op' = [op EXCEPT ![o] = Settled("succeeded")] /\ stage' = [stage EXCEPT ![o] = Untried]
      /\ UNCHANGED <<mailbox, group, rule, remote, snap, bounds, history>>

(* Somebody has to see to the groups whose rule is kept by hand, and to the *)
(* accesses to the mailboxes that the service does not know of.            *)
FinishOffboard(o) ==
  LET plan == op[o].plan
  IN  /\ AllDone(o) /\ Offboards(o)
      /\ IF DOMAIN plan.parts \cap External # {} \/ DOMAIN plan.old.boxes # {}
         THEN op' = [op EXCEPT ![o].processed = TRUE, ![o].status = "needs_action"] /\ UNCHANGED stage
         ELSE op' = [op EXCEPT ![o] = Settled("succeeded")] /\ stage' = [stage EXCEPT ![o] = Untried]
      /\ UNCHANGED <<localVars, remote, snap, bounds, history>>

(* A transaction that finds other rows than those of the plan. *)
Conflict(o) ==
  /\ \/ Uncommitted(o) /\ ~Progress(o)
     \/ Running(o) /\ Offboards(o) /\ ~op[o].committed /\ ~HandoverCurrent(o)
     \/ Between(o) /\ Undone(o) # {} /\ ~BeginValid(o)
     \/ ReadBack(o) /\ AsPlanned(o) /\ ~PartValid(o)
     \/ AllDone(o) /\ ~Offboards(o) /\ ~FinishValid(o)
  /\ op' = [op EXCEPT ![o].status = "needs_action", ![o].part = None]
  /\ UNCHANGED <<localVars, remote, snap, stage, bounds, history>>

-----------------------------------------------------------------------------
(* What an administrator does about an operation.                          *)

Unresolved(o) == \E r \in Rules : stage[o][r] \in {"deleting", "creating"}
PlannedRules(o) == UNION {DOMAIN op[o].plan.parts[k].rules : k \in DOMAIN op[o].plan.parts}
TargetsOf(o, r) == UNION {op[o].plan.parts[k].rules[r].targets :
                            k \in {k \in DOMAIN op[o].plan.parts : r \in DOMAIN op[o].plan.parts[k].rules}}

(* readRoutingStepOutcome.  A rule that is there with other targets        *)
(* settles neither call.                                                   *)
Outcome(o, r) ==
  CASE stage[o][r] = "deleting" -> IF remote[r] = {} THEN "deleted" ELSE "none"
    [] stage[o][r] = "creating" -> IF remote[r] = {} THEN "deleted"
                                   ELSE IF remote[r] = TargetsOf(o, r) THEN "created" ELSE "creating"
    [] OTHER -> stage[o][r]

Reconcile(o) ==
  /\ op[o].status = "unknown"
  /\ stage' = [stage EXCEPT ![o] = [r \in Rules |-> Outcome(o, r)]]
  /\ op' = [op EXCEPT ![o].status = IF \E r \in Rules : Outcome(o, r) = "creating" THEN @ ELSE "needs_action"]
  /\ <<stage, op>>' # <<stage, op>>
  /\ UNCHANGED <<localVars, remote, snap, bounds, history>>

Retry(o) ==
  /\ op[o].status = "needs_action" /\ ~Unresolved(o)
  /\ op[o].request.kind \in Routes => PartCurrent(op[o].plan.parts[op[o].request.group])
  /\ op[o].request.kind \in Composite => Progress(o)
  /\ op' = [op EXCEPT ![o].status = "queued"]
  /\ UNCHANGED <<localVars, remote, snap, stage, bounds, history>>

Cancel(o) ==
  LET q == op[o].request
      plan == op[o].plan
      part(r) == plan.parts[CHOOSE k \in DOMAIN plan.parts : r \in DOMAIN plan.parts[k].rules]
      unsettled(r) == CASE q.kind \in Routes -> rule[r].rev = part(r).rules[r].rev
                        [] q.kind \in Composite -> rule[r].state = "pending"
                        [] OTHER -> FALSE
  IN  /\ op[o].status \in {"queued", "needs_action"} /\ ~Unresolved(o)
      /\ Offboards(o) => op[o].processed
      /\ rule' = [r \in Rules |-> IF r \in PlannedRules(o) /\ rule[r].exists /\ unsettled(r)
                                  THEN [rule[r] EXCEPT !.state = "unknown"] ELSE rule[r]]
      /\ abandoned' = abandoned \cup ({plan.parts[k].group : k \in DOMAIN plan.parts \ op[o].done} \ {0})
      /\ op' = [op EXCEPT ![o] = Settled("cancelled")] /\ stage' = [stage EXCEPT ![o] = Untried]
      /\ UNCHANGED <<member, mailbox, group, remote, snap, bounds, touched, missed>>

(* ConfirmExternalOperation, for the last of the open external steps. *)
Confirm(o) ==
  /\ op[o].status = "needs_action" /\ Offboards(o) /\ op[o].processed /\ ~Unresolved(o)
  /\ op' = [op EXCEPT ![o] = Settled("succeeded")] /\ stage' = [stage EXCEPT ![o] = Untried]
  /\ UNCHANGED <<localVars, remote, snap, bounds, history>>

-----------------------------------------------------------------------------
(* What is read from the provider.  Each of the three runs as an operation *)
(* of its own that holds the connection.                                   *)

Reads(c) ==
  /\ Free({<<"connection", c>>}) /\ reads < MaxReads /\ reads' = reads + 1
  /\ UNCHANGED <<member, group, remote, op, stage, trouble, foreign, missed, abandoned>>

\* Mutant: what is there is compared with what the last change applied.
ComparedWithApplied(r) ==
  LET lost == IF "missing" \in rule[r].rows THEN [rule[r] EXCEPT !.state = "unknown", !.rev = @ + 1] ELSE rule[r]
      next == IF remote[r] = rule[r].targets THEN "synced" ELSE "error"
  IN  IF "current" \notin rule[r].rows \/ (lost.observed = remote[r] /\ lost.state = next) THEN lost
      ELSE [lost EXCEPT !.observed = remote[r], !.state = next, !.rev = @ + 1]

(* SyncConnection: a resource that is missing says nothing of the address  *)
(* anymore, one that is there is compared (syncRuleObservation), one that  *)
(* was replaced since cannot be looked up and stays as it is.              *)
Compared(r) ==
  LET lost == IF "missing" \in rule[r].rows THEN [rule[r] EXCEPT !.state = "unknown", !.rev = @ + 1] ELSE rule[r]
      next == IF remote[r] = rule[r].desired THEN "synced" ELSE "error"
  IN  IF "current" \notin rule[r].rows \/ (lost.observed = remote[r] /\ lost.state = next) THEN lost
      ELSE [lost EXCEPT !.observed = remote[r], !.state = next, !.rev = @ + 1]

Sync(c) ==
  LET here == {r \in Rules : ConnectionOf[r] = c}
  IN  /\ Reads(c)
      /\ rule' = [r \in Rules |-> IF r \in here THEN Compared(r) ELSE rule[r]]
      /\ touched' = touched \ {r \in here : "current" \in rule[r].rows}
      /\ UNCHANGED <<mailbox, snap>>

Discover(c) ==
  /\ Reads(c)
  /\ snap' = [r \in Rules |-> IF ConnectionOf[r] = c THEN [targets |-> remote[r], live |-> TRUE] ELSE snap[r]]
  /\ UNCHANGED <<mailbox, rule, touched>>

(* importDiscoveredRule, from what was discovered.  An address that exists *)
(* is not counted up.                                                      *)
Imported(r) ==
  LET seen == snap[r].targets
      rows == rule[r].rows \cup {IF snap[r].live THEN "current" ELSE "stale"}
  IN  IF rule[r].exists
      THEN [rule[r] EXCEPT !.observed = seen, !.rows = rows,
                           !.state = IF rule[r].desired = seen THEN "synced" ELSE "error"]
      ELSE [exists |-> TRUE, kind |-> "alias", group |-> 0, rev |-> rule[r].rev + 1, desired |-> seen, targets |-> seen,
            observed |-> seen, state |-> "synced", rows |-> rows \ {"missing"},
            box |-> IF Cardinality(seen) = 1 THEN CHOOSE b \in seen : TRUE ELSE None]

Import(r) ==
  /\ Reads(ConnectionOf[r]) /\ snap[r].targets # {}
  /\ rule' = [rule EXCEPT ![r] = Imported(r)]
  /\ touched' = IF snap[r].targets = remote[r] THEN touched ELSE touched \cup {r}
  /\ UNCHANGED <<mailbox, snap>>

(* ImportConnection: a mailbox comes without an owner. *)
ImportMailbox(b) ==
  /\ Reads(ConnectionOf[b]) /\ mailbox[b].status = "absent"
  /\ mailbox' = [mailbox EXCEPT ![b] = [status |-> "active", kind |-> "personal", owner |-> None, rev |-> @.rev + 1]]
  /\ UNCHANGED <<rule, snap, touched>>

(* The administrator m who ends the set-up of a connection takes one of    *)
(* its mailboxes that belongs to nobody, without an operation: the groups  *)
(* of m are not told.                                                      *)
CompleteConnectionSetup(b, m) ==
  /\ member[m].status = "active"
  /\ mailbox[b].status = "active" /\ mailbox[b].kind = "personal" /\ mailbox[b].owner \in {None, m}
  /\ Free({<<"mailbox", b>>, <<"connection", ConnectionOf[b]>>})
  /\ reads < MaxReads /\ reads' = reads + 1
  /\ mailbox' = [mailbox EXCEPT ![b].owner = m, ![b].rev = @ + 1]
  /\ missed' = missed \cup {g \in Groups : mailbox[b].owner = None /\ m \in group[g].team}
  /\ UNCHANGED <<member, group, rule, remote, snap, op, stage, trouble, foreign, touched, abandoned>>

(* Somebody changes a rule at the provider, in place or by another rule.   *)
Foreign(r) ==
  /\ foreign < MaxForeign /\ foreign' = foreign + 1
  /\ \E to \in SUBSET Mailboxes \ {remote[r]} :
       /\ remote' = [remote EXCEPT ![r] = to]
       /\ \/ {} \notin {to, remote[r]} /\ UNCHANGED <<rule, snap>>
          \/ /\ rule' = [rule EXCEPT ![r].rows = Outdated(@)]
             /\ snap' = [snap EXCEPT ![r].live = FALSE]
  /\ touched' = touched \cup {r}
  /\ UNCHANGED <<member, mailbox, group, op, stage, trouble, reads, missed, abandoned>>

-----------------------------------------------------------------------------
Init ==
  /\ \E i \in Initially :
       /\ member = i.member /\ mailbox = i.mailbox /\ group = i.group
       /\ rule = i.rule /\ remote = i.remote
       /\ op = [o \in Ops |-> IF o \in i.asking THEN Idle ELSE Settled("rejected")]
       /\ foreign = i.foreign /\ reads = i.reads
  /\ snap = [r \in Rules |-> [targets |-> {}, live |-> FALSE]]
  /\ stage = [o \in Ops |-> Untried] /\ trouble = 0
  /\ touched = {} /\ missed = {} /\ abandoned = {}

Next ==
  \/ \E o \in Ops :
       \/ Prepare(o) \/ Reserve(o) \/ Refuse(o) \/ Submit(o) \/ Depart(o)
       \/ Start(o) \/ CommitChange(o) \/ HandOver(o) \/ BeginPart(o)
       \/ RemoteDelete(o) \/ RemoteCreate(o) \/ Stop(o) \/ Mismatch(o) \/ PartCommit(o)
       \/ Finish(o) \/ FinishOffboard(o) \/ Conflict(o)
       \/ Reconcile(o) \/ Retry(o) \/ Cancel(o) \/ Confirm(o)
  \/ \E c \in Connections : Sync(c) \/ Discover(c)
  \/ \E r \in Rules : Import(r) \/ Foreign(r)
  \/ \E b \in Mailboxes : ImportMailbox(b)
  \/ \E b \in Mailboxes, m \in Members : CompleteConnectionSetup(b, m)

Spec == Init /\ [][Next]_vars

-----------------------------------------------------------------------------
(* Properties. *)

\* Members, mailboxes, groups, addresses, plans and operations keep their types.
TypeOK ==
  /\ member \in [Members -> MemberRow] /\ mailbox \in [Mailboxes -> MailboxRow]
  /\ group \in [Groups -> GroupRow] /\ rule \in [Rules -> RuleRow]
  /\ remote \in [Rules -> SUBSET Mailboxes]
  /\ snap \in [Rules -> [targets : SUBSET Mailboxes, live : BOOLEAN]]
  /\ stage \in [Ops -> [Rules -> {"none", "deleting", "deleted", "creating", "created"}]]
  /\ \A o \in Ops :
       /\ op[o].status \in {"idle", "prepared", "rejected", "succeeded", "cancelled"} \cup Live
       /\ op[o].request \in Request
       /\ \A v \in {op[o].plan.old, op[o].plan.new} : IsVersions(v)
       /\ \A P \in {op[o].plan.before, op[o].plan.parts} :
            DOMAIN P \subseteq Groups \cup Rules \cup {0} /\ \A k \in DOMAIN P : IsPart(P[k])
       /\ op[o].part \in DOMAIN op[o].plan.parts \cup {None}
       /\ op[o].done \subseteq DOMAIN op[o].plan.parts
  /\ trouble \in 0..MaxTrouble /\ foreign \in 0..MaxForeign /\ reads \in 0..MaxReads
  /\ touched \subseteq Rules /\ missed \subseteq Groups /\ abandoned \subseteq Groups

\* An address that is shown as in step delivers at the provider to what is
\* wanted, unless somebody else changed the rule after it was last compared,
\* or an import compared it with a snapshot in which it was another:
\* whatever failed, stopped, was reconciled, retried or given up.
SyncedAsDesired ==
  \A r \in Rules \ (External \cup touched) :
    rule[r].exists /\ rule[r].state = "synced" => remote[r] = rule[r].desired

\* A group that no operation holds and whose address is in step distributes
\* to the active mailboxes of its members: every operation on a member, a
\* mailbox or the group itself takes the address along.  Left out are the
\* groups that a stale plan or a hand-over missed, those of an administrator
\* to whom a set-up gave a mailbox, and those whose update was given up.
GroupFollowsTeam ==
  \A g \in Groups \ (missed \cup abandoned) : \A r \in AddressOf(g) :
    group[g].exists /\ ~HeldGroup(g) /\ rule[r].state = "synced"
      => rule[r].desired = Candidates(group[g].team, member, mailbox)

\* README: groups "stay in sync with team membership automatically".
SyncedGroupIsCurrent ==
  \A g \in Groups : \A r \in AddressOf(g) :
    group[g].exists /\ ~HeldGroup(g) /\ rule[r].state = "synced"
      => rule[r].desired = Candidates(group[g].team, member, mailbox)

\* An operation that reports success has applied every rule of its plan at
\* the provider, also when calls ended unknown and were settled by reading.
CompletedIsApplied ==
  [][\A o \in Ops :
       /\ op[o].status \in Live /\ op'[o].status = "succeeded" /\ ~Offboards(o)
       => \A k \in DOMAIN op[o].plan.parts : \A r \in DOMAIN op[o].plan.parts[k].rules \ (External \cup touched') :
            remote'[r] = op[o].plan.parts[k].rules[r].targets]_vars

\* A mailbox belongs to somebody who left only as long as their offboarding
\* is under way and has not handed it over: nothing gives a mailbox to
\* somebody who is leaving, in whatever order requests are prepared,
\* reserved and executed.
NoMailboxLeftBehind ==
  \A b \in Mailboxes : mailbox[b].owner # None /\ member[mailbox[b].owner].status = "departed" =>
    \E o \in Ops : /\ op[o].status \in Live /\ Offboards(o) /\ ~op[o].committed
                   /\ op[o].request.member = mailbox[b].owner

=============================================================================
