--------------------------- MODULE RoutingProofs ---------------------------
(***************************************************************************)
(* Proofs about Routing, for all members, mailboxes, groups, addresses and *)
(* operations, all requests they may make and all bounds.                  *)
(***************************************************************************)
EXTENDS Routing, TLAPS, WellFoundedInduction

-----------------------------------------------------------------------------
(* The inductive invariant, in parts. *)

\* No address belongs to two parts of a plan.
Apart(parts) == \A k, l \in DOMAIN parts : k # l => DOMAIN parts[k].rules \cap DOMAIN parts[l].rules = {}

\* No address is given up.
Keeping(parts) == \A k \in DOMAIN parts : \A r \in DOMAIN parts[k].rules : ~parts[k].rules[r].delete

\* A plan is made for what was asked; only an offboarding that went through its groups waits
\* for reports.
Asked(x) ==
  /\ x.status \in Live \cup {"prepared"} => Fits(x.request)
  /\ x.status = "prepared" => /\ x.request.kind \in Composite /\ ~x.committed
                              /\ DOMAIN x.plan.new.members = DOMAIN x.plan.old.members
  /\ x.status \in Live /\ x.request.kind \in Routes => x.committed /\ DOMAIN x.plan.parts = {x.request.group}
  /\ x.request.kind \notin Routes => Keeping(x.plan.parts)
  /\ x.processed => x.committed
  /\ x.status = "idle" => x = Idle

\* An execution is at a part of its plan that is not done.
Shaped(x) ==
  /\ x.done \subseteq DOMAIN x.plan.parts
  /\ x.part # None => x.part \in DOMAIN x.plan.parts \ x.done /\ x.committed
  /\ ~x.committed => x.done = {}
  /\ Apart(x.plan.parts)

WellFormed == \A o \in Ops : Asked(op[o]) /\ Shaped(op[o])

\* No two operations hold a key.
Exclusive == \A o, p \in Ops : o # p => Held(o) \cap Held(p) = {}

Reserving(o) == op[o].status \in Live /\ (Offboards(o) => op[o].committed)

HandledAs(o, k, r) ==
  stage[o][r] = "created" \/ (stage[o][r] = "deleted" /\ op[o].plan.parts[k].rules[r].targets = {})

\* The addresses of a plan are what the plan wants them to be, and are not shown as in step
\* before the provider was brought in step.
PlannedOf(o) ==
  Reserving(o) =>
    \A k \in DOMAIN op[o].plan.parts : \A r \in DOMAIN op[o].plan.parts[k].rules :
      /\ rule[r].desired = op[o].plan.parts[k].rules[r].targets
      /\ r \notin External /\ rule[r].state = "synced" => HandledAs(o, k, r)
Planned == \A o \in Ops : PlannedOf(o)

\* What is done was applied at the provider, unless somebody changed it since.
DoneOf(o) ==
  op[o].status \in Live =>
    \A k \in op[o].done : \A r \in DOMAIN op[o].plan.parts[k].rules \ (External \cup touched) :
      remote[r] = op[o].plan.parts[k].rules[r].targets
DoneIsApplied == \A o \in Ops : DoneOf(o)

\* Whom the mailbox of a request is given to.
NewOwner(q) ==
  CASE q.kind = "mailbox.update" /\ q.as # "shared" -> q.owner
    [] q.kind = "mailbox.add"                       -> q.owner
    [] q.kind = "member.create" /\ q.box # None     -> q.member
    [] OTHER                                        -> None

\* Who is not there was never changed.
Unborn == \A m \in Members : member[m].status = "absent" => member[m].rev = 0

\* Whoever is to get a mailbox was not leaving when the request was prepared, or owned it
\* already; either is still so if the revisions are the same.
ProspectiveOf(o) ==
  op[o].status = "prepared" =>
    LET q == op[o].request
        old == op[o].plan.old
        m == NewOwner(q)
    IN  /\ m # None =>
             /\ m \in DOMAIN old.members /\ m \in Members
             /\ q.kind # "member.create" =>
                  \/ /\ old.members[m] <= member[m].rev
                     /\ old.members[m] = member[m].rev => member[m].status # "departed"
                  \/ /\ q.box \in DOMAIN old.boxes /\ old.boxes[q.box] <= mailbox[q.box].rev
                     /\ old.boxes[q.box] = mailbox[q.box].rev => mailbox[q.box].owner = m
        /\ q.kind = "member.create" => q.member \in DOMAIN old.members /\ old.members[q.member] = 0
Prospective == \A o \in Ops : ProspectiveOf(o)

\* Whoever is about to get a mailbox is locked and has not left.
ReceivingOf(o) ==
  op[o].status \in Live /\ ~op[o].committed /\ NewOwner(op[o].request) # None =>
    LET m == NewOwner(op[o].request)
    IN  m \in DOMAIN op[o].plan.old.members /\ member[m].status # "departed"
Receiving == \A o \in Ops : ReceivingOf(o)

\* An offboarding under way holds the member and every mailbox the member has.
LeavingOf(o) ==
  op[o].status \in Live /\ Offboards(o) =>
    LET m == op[o].request.member
        heir == op[o].request.owner
    IN  /\ m \in DOMAIN op[o].plan.old.members
        /\ op[o].request.as = "handover" /\ DOMAIN op[o].plan.old.boxes # {} => heir \in DOMAIN op[o].plan.old.members
        /\ ~op[o].committed => \A b \in Mailboxes : mailbox[b].owner = m => b \in DOMAIN op[o].plan.old.boxes
Leaving == \A o \in Ops : LeavingOf(o)

\* Nobody whose offboarding is under way comes back.
GoneOf(o) == op[o].status \in Live /\ Offboards(o) => member[op[o].request.member].status = "departed"
Gone == \A o \in Ops : GoneOf(o)

-----------------------------------------------------------------------------
(* Types.  A plan is made of functions whose domains vary. *)

PFun(A, B) == UNION {[S -> B] : S \in SUBSET A}

Statuses   == {"idle", "prepared", "rejected", "succeeded", "cancelled"} \cup Live
Indices    == Groups \cup Rules \cup {0}
RuleWish   == [rev : Nat, targets : SUBSET Mailboxes, delete : BOOLEAN]
Versions   == [members : PFun(Members, Nat), boxes : PFun(Mailboxes, Nat)]
PartRow    == [group : Groups \cup {0}, rev : Nat, team : SUBSET Members, versions : Versions,
               rules : PFun(Rules, RuleWish)]
PlanRow    == [old : Versions, new : Versions, before : PFun(Indices, PartRow), parts : PFun(Indices, PartRow)]
OpRow      == [status : Statuses, request : Request, plan : PlanRow, committed : BOOLEAN, processed : BOOLEAN,
               part : Indices \cup {None}, done : SUBSET Indices]
Stages     == {"none", "deleting", "deleted", "creating", "created"}

LocalTypes ==
  /\ member \in [Members -> MemberRow] /\ mailbox \in [Mailboxes -> MailboxRow]
  /\ group \in [Groups -> GroupRow] /\ rule \in [Rules -> RuleRow]
RemoteTypes ==
  /\ remote \in [Rules -> SUBSET Mailboxes]
  /\ snap \in [Rules -> [targets : SUBSET Mailboxes, live : BOOLEAN]]
BoundTypes ==
  /\ trouble \in 0..MaxTrouble /\ foreign \in 0..MaxForeign /\ reads \in 0..MaxReads
  /\ touched \subseteq Rules /\ missed \subseteq Groups /\ abandoned \subseteq Groups
OpTypes == op \in [Ops -> OpRow] /\ stage \in [Ops -> [Rules -> Stages]]
Types == LocalTypes /\ RemoteTypes /\ BoundTypes /\ OpTypes

(* What is a function of the right kind is one of the partial functions. *)
LEMMA PartialFunction ==
  ASSUME NEW A, NEW B, NEW f, f = [x \in DOMAIN f |-> f[x]], DOMAIN f \subseteq A, \A x \in DOMAIN f : f[x] \in B
  PROVE  f \in PFun(A, B)
<1>1. f \in [DOMAIN f -> B]
  OBVIOUS
<1>2. DOMAIN f \in SUBSET A
  OBVIOUS
<1> QED
  BY <1>1, <1>2 DEF PFun

(* What a partial function is. *)
LEMMA PartialApplied ==
  ASSUME NEW A, NEW B, NEW f \in PFun(A, B)
  PROVE  f = [x \in DOMAIN f |-> f[x]] /\ DOMAIN f \subseteq A /\ \A x \in DOMAIN f : f[x] \in B
<1>1. PICK S \in SUBSET A : f \in [S -> B]
  BY DEF PFun
<1> QED
  BY <1>1

(* Every set of natural numbers that is not empty has a least element. *)
LEMMA LeastElement ==
  ASSUME NEW T \in SUBSET Nat, T # {}
  PROVE  \E x \in T : \A y \in T : x <= y
<1> DEFINE R == OpToRel(<, Nat)
<1>1. IsWellFoundedOn(R, Nat)
  BY NatLessThanWellFounded
<1>2. \A x, y \in Nat : y < x => <<y, x>> \in R
  BY DEF OpToRel
<1> HIDE DEF R
<1>3. T \subseteq Nat
  OBVIOUS
<1>4. PICK x \in T : \A y \in T : ~ (<<y, x>> \in R)
  <2>1. \E x \in T : \A y \in T : ~ (<<y, x>> \in R)
    BY <1>1, <1>3, WFMin, Zenon
  <2> QED
    BY <2>1, Zenon
<1>5. ASSUME NEW y \in T PROVE x <= y
  <2>1. x \in Nat /\ y \in Nat
    OBVIOUS
  <2>2. ~ (y < x)
    BY <1>2, <1>4, <2>1, Zenon
  <2> QED
    BY <2>1, <2>2
<1> QED
  BY <1>5

(* Addresses and parts are taken in the order of their ids. *)
LEMMA LowestChosen ==
  ASSUME NEW T \in SUBSET Nat, T # {}
  PROVE  Lowest(T) \in T
<1>1. \E x \in T : \A y \in T : x <= y
  BY LeastElement
<1> QED
  BY <1>1, Zenon DEF Lowest

(* Ids of groups and addresses are numbers, and none of them stands for    *)
(* nothing.                                                                *)
LEMMA IndicesAreNat == Indices \subseteq Nat /\ Rules \subseteq Nat /\ Groups \subseteq Nat /\ None \notin Indices
  BY IdsArePositive, NoneIsNothing DEF Indices

(* The address of a group is one of its addresses. *)
LEMMA AddressOfRules ==
  ASSUME LocalTypes, NEW g
  PROVE  /\ AddressOf(g) \subseteq Rules
         /\ \A r \in AddressOf(g) : rule[r].exists /\ rule[r].group = g
<1>1. AddressesOf(g) \subseteq Rules
  BY DEF AddressesOf
<1>2. CASE AddressesOf(g) = {}
  BY <1>2 DEF AddressOf
<1>3. CASE AddressesOf(g) # {}
  <2>1. Lowest(AddressesOf(g)) \in AddressesOf(g)
    BY <1>1, <1>3, LowestChosen, IndicesAreNat
  <2> QED
    BY <1>1, <1>3, <2>1 DEF AddressOf, AddressesOf
<1> QED
  BY <1>2, <1>3

-----------------------------------------------------------------------------
(* The rows a request leaves and the plans that are made for it have their *)
(* types.                                                                  *)

(* Revisions of some members and mailboxes. *)
LEMMA VersionsTyped ==
  ASSUME NEW S \in SUBSET Members, NEW T \in SUBSET Mailboxes,
         NEW M \in [Members -> MemberRow], NEW B \in [Mailboxes -> MailboxRow]
  PROVE  /\ RowVersions(S, M, T, B) \in Versions
         /\ RowVersions(S, M, T, B).members = [m \in S |-> M[m].rev]
         /\ RowVersions(S, M, T, B).boxes = [b \in T |-> B[b].rev]
<1> DEFINE f == [m \in S |-> M[m].rev]
           h == [b \in T |-> B[b].rev]
<1>1. f \in PFun(Members, Nat)
  <2>1. \A m \in S : f[m] \in Nat
    BY DEF MemberRow
  <2> QED
    BY <2>1, PartialFunction
<1>2. h \in PFun(Mailboxes, Nat)
  <2>1. \A b \in T : h[b] \in Nat
    BY DEF MailboxRow
  <2> QED
    BY <2>1, PartialFunction
<1> HIDE DEF f, h
<1>3. RowVersions(S, M, T, B) = [members |-> f, boxes |-> h]
  BY DEF RowVersions, f, h
<1>4. RowVersions(S, M, T, B) \in Versions
  BY <1>1, <1>2, <1>3 DEF Versions
<1>5. RowVersions(S, M, T, B).members = f /\ RowVersions(S, M, T, B).boxes = h
  BY <1>3
<1> QED
  BY <1>4, <1>5 DEF f, h

(* The empty plan, and what it is made of. *)
LEMMA NothingTyped ==
  /\ \A A, B : Empty \in PFun(A, B)
  /\ NoRows \in Versions /\ NoPlan \in PlanRow /\ NoGroup \in PartRow
<1>1. ASSUME NEW A, NEW B PROVE Empty \in PFun(A, B)
  BY PartialFunction DEF Empty
<1>2. NoRows \in Versions
  BY <1>1 DEF NoRows, Versions
<1>3. NoPlan \in PlanRow
  BY <1>1, <1>2 DEF NoPlan, PlanRow
<1>4. NoGroup \in PartRow
  BY <1>1, <1>2 DEF NoGroup, PartRow
<1> QED
  BY <1>1, <1>2, <1>3, <1>4

(* A group delivers to mailboxes. *)
LEMMA CandidatesAreMailboxes == ASSUME NEW T, NEW M, NEW B PROVE Candidates(T, M, B) \subseteq Mailboxes
  BY DEF Candidates

(* A plan for a group is a part of a plan. *)
LEMMA GroupPlanTyped ==
  ASSUME LocalTypes, NEW g \in Groups, NEW T \in SUBSET Members, NEW R \in SUBSET Rules,
         NEW M \in [Members -> MemberRow], NEW B \in [Mailboxes -> MailboxRow]
  PROVE  /\ GroupPlan(g, T, R, M, B) \in PartRow
         /\ DOMAIN GroupPlan(g, T, R, M, B).rules = R
         /\ GroupPlan(g, T, R, M, B).group = g
<1> DEFINE to == Candidates(T, M, B)
           v == RowVersions(T, M, IF R = {} THEN {} ELSE to, B)
           rs == [r \in R |-> [rev |-> rule[r].rev, targets |-> to, delete |-> FALSE]]
<1>1. to \subseteq Mailboxes
  BY CandidatesAreMailboxes
<1> HIDE DEF to
<1>2. v \in Versions
  BY <1>1, VersionsTyped
<1>3. rs \in PFun(Rules, RuleWish)
  <2>1. \A r \in R : rs[r] \in RuleWish
    BY <1>1 DEF LocalTypes, RuleRow, RuleWish
  <2> QED
    BY <2>1, PartialFunction
<1>4. group[g].rev \in Nat
  BY DEF LocalTypes, GroupRow
<1>5. DOMAIN rs = R
  OBVIOUS
<1> HIDE DEF v, rs
<1>6. GroupPlan(g, T, R, M, B) = [group |-> g, rev |-> group[g].rev, team |-> T, versions |-> v, rules |-> rs]
  BY DEF GroupPlan, v, rs, to
<1> QED
  BY <1>2, <1>3, <1>4, <1>5, <1>6 DEF PartRow

(* A plan for a group gives up no address. *)
LEMMA GroupPlanKeeps ==
  ASSUME NEW g, NEW T, NEW R, NEW M, NEW B, NEW r \in R
  PROVE  ~GroupPlan(g, T, R, M, B).rules[r].delete
BY DEF GroupPlan

(* So is the removal of addresses. *)
LEMMA RemovalTyped ==
  ASSUME LocalTypes, NEW R \in SUBSET Rules
  PROVE  Removal(R) \in PFun(Rules, RuleWish) /\ DOMAIN Removal(R) = R
<1>1. \A r \in R : Removal(R)[r] \in RuleWish
  BY DEF LocalTypes, RuleRow, RuleWish, Removal
<1>2. DOMAIN Removal(R) = R /\ Removal(R) = [r \in R |-> Removal(R)[r]]
  BY DEF Removal
<1> QED
  BY <1>1, <1>2, PartialFunction

(* Members and mailboxes keep their types when a change is made. *)
LEMMA RowsAfterTyped ==
  ASSUME LocalTypes, NEW q \in Request, Fits(q), q.kind \in Composite
  PROVE  /\ MembersAfter(q) \in [Members -> MemberRow] /\ Invited(q) \in [Members -> MemberRow]
         /\ MailboxesAfter(q) \in [Mailboxes -> MailboxRow]
         /\ q.box # None => q.box \in Mailboxes /\ MailboxAfter(q) \in MailboxRow
<1>1. /\ q.member \in Members \cup {None} /\ q.box \in Mailboxes \cup {None} /\ q.owner \in Members \cup {None}
      /\ None \notin Members \cup Mailboxes
  BY NoneIsNothing DEF Request
<1>2. /\ member \in [Members -> MemberRow] /\ mailbox \in [Mailboxes -> MailboxRow]
      /\ \A m \in Members : member[m].rev \in Nat /\ member[m].rev + 1 \in Nat
  BY DEF LocalTypes, MemberRow
<1>3. \A m \in Members : Enabled(m) \in {"invited", "active"}
  BY DEF Enabled
<1>4. MembersAfter(q) \in [Members -> MemberRow]
  <2>1. q.kind \in {"member.enable", "member.disable"} => q.member \in Members
    BY DEF Fits
  <2>2. \A m \in Members : /\ [status |-> Enabled(m), rev |-> member[m].rev + 1] \in MemberRow
                           /\ [status |-> "disabled", rev |-> member[m].rev + 1] \in MemberRow
    BY <1>2, <1>3 DEF MemberRow
  <2> QED
    BY <1>2, <2>1, <2>2 DEF MembersAfter
<1>5. Invited(q) \in [Members -> MemberRow]
  BY <1>2 DEF Invited, MemberRow
<1>6. ASSUME q.box # None PROVE q.box \in Mailboxes /\ MailboxAfter(q) \in MailboxRow
  <2>1. q.box \in Mailboxes
    BY <1>1, <1>6
  <2>2. mailbox[q.box] \in MailboxRow
    BY <1>2, <2>1
  <2>4. q.kind \in {"mailbox.update", "mailbox.add"} => q.as \in {"personal", "shared"}
    BY DEF Fits
  <2>5. {"active", "suspended", "archived"} = Present
    BY DEF Present
  <2> DEFINE was == mailbox[q.box]
             ST == {"absent"} \cup Present
             W == Members \cup {None}
             K == {"personal", "shared"}
  <2>0. /\ MailboxRow = [status : ST, kind : K, owner : W, rev : Nat]
        /\ was \in MailboxRow /\ Present \subseteq ST /\ "active" \in ST /\ "personal" \in K
        /\ q.member \in W /\ q.owner \in W /\ None \in W
        /\ (q.kind \in {"mailbox.update", "mailbox.add"} => q.as \in K)
    BY <1>1, <2>2, <2>4, <2>5 DEF MailboxRow
  <2>6. CASE q.kind = "mailbox.update"
    <3>1. MailboxAfter(q) = [was EXCEPT !.kind = q.as, !.owner = IF q.as = "shared" THEN None ELSE q.owner, !.rev = @ + 1]
      BY <2>6 DEF MailboxAfter
    <3> HIDE DEF was, ST, W, K
    <3>2. was.rev \in Nat /\ was.rev + 1 \in Nat
      BY <2>0
    <3>3. MailboxAfter(q) \in MailboxRow
      BY <2>0, <3>1, <3>2, <2>6
    <3> QED
      BY <2>1, <3>3
  <2>7. CASE q.kind = "mailbox.add"
    <3>1. MailboxAfter(q) = [status |-> "active", kind |-> q.as, owner |-> q.owner, rev |-> was.rev + 1]
      BY <2>7 DEF MailboxAfter
    <3> HIDE DEF was, ST, W, K
    <3>2. was.rev \in Nat /\ was.rev + 1 \in Nat
      BY <2>0
    <3>3. MailboxAfter(q) \in MailboxRow
      BY <2>0, <3>1, <3>2, <2>7
    <3> QED
      BY <2>1, <3>3
  <2>8. CASE q.kind \in {"mailbox.suspend", "mailbox.archive", "mailbox.deleteRemote", "mailbox.reactivate"}
    <3>1. PICK s \in Present : MailboxAfter(q) = [was EXCEPT !.status = s, !.rev = @ + 1]
      <4>1. \E s \in Present : MailboxAfter(q) = [was EXCEPT !.status = s, !.rev = @ + 1]
        BY <2>5, <2>8 DEF MailboxAfter
      <4> QED
        BY <4>1, Zenon
    <3> HIDE DEF was, ST, W, K
    <3>2. was.rev \in Nat /\ was.rev + 1 \in Nat
      BY <2>0
    <3>3. MailboxAfter(q) \in MailboxRow
      BY <2>0, <3>1, <3>2
    <3> QED
      BY <2>1, <3>3
  <2>9. CASE q.kind \notin Mutations \cup {"mailbox.add"}
    <3>1. \/ MailboxAfter(q) = [status |-> "active", kind |-> "personal", owner |-> q.member, rev |-> was.rev + 1]
          \/ MailboxAfter(q) = [was EXCEPT !.owner = q.member, !.rev = @ + 1]
      BY <2>9 DEF MailboxAfter, Mutations
    <3> HIDE DEF was, ST, W, K
    <3>2. was.rev \in Nat /\ was.rev + 1 \in Nat
      BY <2>0
    <3>3. CASE MailboxAfter(q) = [status |-> "active", kind |-> "personal", owner |-> q.member, rev |-> was.rev + 1]
      BY <2>0, <2>1, <3>2, <3>3
    <3>4. CASE MailboxAfter(q) = [was EXCEPT !.owner = q.member, !.rev = @ + 1]
      BY <2>0, <2>1, <3>2, <3>4
    <3> QED
      BY <3>1, <3>3, <3>4
  <2> QED
    BY <2>1, <2>6, <2>7, <2>8, <2>9 DEF Mutations
<1>7. MailboxesAfter(q) \in [Mailboxes -> MailboxRow]
  BY <1>2, <1>6 DEF MailboxesAfter
<1> QED
  BY <1>4, <1>5, <1>6, <1>7

(* A change concerns members and groups. *)
LEMMA ConcernedTyped ==
  ASSUME LocalTypes, NEW q \in Request, Fits(q), q.kind \in Composite
  PROVE  Concerned(q) \subseteq Members /\ ConcernedGroups(q) \subseteq Groups
<1>1. CASE q.kind \in Mutations
  <2>1. q.box \in Mailboxes /\ q.box # None
    BY <1>1, NoneIsNothing DEF Fits
  <2>2. MailboxAfter(q).owner \in Members \cup {None} /\ mailbox[q.box].owner \in Members \cup {None}
    BY <2>1, RowsAfterTyped DEF MailboxRow, LocalTypes
  <2>3. Concerned(q) = {mailbox[q.box].owner, MailboxAfter(q).owner} \ {None}
    <3>1. q.kind # "mailbox.add"
      BY <1>1 DEF Mutations
    <3> DEFINE w == MailboxAfter(q).owner
               u == mailbox[q.box].owner
    <3>2. Concerned(q) = IF q.kind \in Mutations THEN {u, w} \ {None}
                         ELSE IF q.kind = "mailbox.add" THEN {q.owner} \ {None} ELSE {q.member}
      BY <3>1 DEF Concerned
    <3> QED
      BY <1>1, <3>2
  <2> QED
    BY <2>2, <2>3, <1>1 DEF ConcernedGroups, Mutations
<1>2. CASE q.kind = "mailbox.add"
  BY <1>2 DEF Concerned, ConcernedGroups, Request, Mutations
<1>3. CASE q.kind \in {"member.enable", "member.disable", "member.create"}
  <2>1. q.member \in Members
    BY <1>3 DEF Fits
  <2>2. Concerned(q) = {q.member}
    BY <1>3 DEF Concerned, Mutations
  <2>3. q.groups \subseteq Groups
    BY DEF Request
  <2> QED
    BY <2>1, <2>2, <2>3 DEF ConcernedGroups
<1> QED
  BY <1>1, <1>2, <1>3 DEF Composite

(* The plan of a change: what it was made from, and its parts before and   *)
(* after.                                                                  *)
LEMMA ChangePlanTyped ==
  ASSUME LocalTypes, NEW q \in Request, Fits(q), q.kind \in Composite
  PROVE  /\ ChangePlan(q) \in PlanRow /\ Apart(ChangePlan(q).parts) /\ Keeping(ChangePlan(q).parts)
         /\ DOMAIN ChangePlan(q).new.members = Concerned(q)
         /\ ChangePlan(q).old.members = [m \in Concerned(q) |-> member[m].rev]
         /\ ChangePlan(q).old.boxes = [b \in {q.box} \ {None} |-> mailbox[b].rev]
         /\ DOMAIN ChangePlan(q).parts = DOMAIN ChangePlan(q).before
         /\ \A k \in DOMAIN ChangePlan(q).parts :
              /\ ChangePlan(q).parts[k].group = ChangePlan(q).before[k].group
              /\ DOMAIN ChangePlan(q).parts[k].rules = DOMAIN ChangePlan(q).before[k].rules
<1> DEFINE S == Concerned(q)
           T == {q.box} \ {None}
           B == MailboxesAfter(q)
           M == IF q.kind = "member.create" THEN Invited(q) ELSE MembersAfter(q)
           joins == IF q.kind = "member.create" THEN {q.member} ELSE {}
           G == ConcernedGroups(q)
           was == [g \in G |-> GroupPlan(g, group[g].team, AddressOf(g), member, mailbox)]
           will == [g \in G |-> GroupPlan(g, group[g].team \cup joins, AddressOf(g), M, B)]
<1>1. S \subseteq Members /\ G \subseteq Groups
  BY ConcernedTyped
<1>2. T \subseteq Mailboxes
  BY DEF Request
<1>3. M \in [Members -> MemberRow] /\ B \in [Mailboxes -> MailboxRow]
  BY RowsAfterTyped
<1>4. joins \subseteq Members
  BY DEF Fits
<1>5. member \in [Members -> MemberRow] /\ mailbox \in [Mailboxes -> MailboxRow]
  BY DEF LocalTypes
<1>6. \A g \in Groups : group[g].team \subseteq Members
  BY DEF LocalTypes, GroupRow
<1>7. G \subseteq Indices
  BY <1>1 DEF Indices
<1> HIDE DEF S, T, M, B, joins, G
<1>8. ASSUME NEW g \in G
      PROVE  /\ was[g] \in PartRow /\ was[g].group = g /\ DOMAIN was[g].rules = AddressOf(g)
             /\ will[g] \in PartRow /\ will[g].group = g /\ DOMAIN will[g].rules = AddressOf(g)
             /\ \A r \in AddressOf(g) : ~will[g].rules[r].delete
  <2>1. g \in Groups /\ AddressOf(g) \subseteq Rules /\ group[g].team \subseteq Members /\ group[g].team \cup joins \subseteq Members
    BY <1>1, <1>4, <1>6, AddressOfRules
  <2>2. was[g] = GroupPlan(g, group[g].team, AddressOf(g), member, mailbox)
    OBVIOUS
  <2>3. will[g] = GroupPlan(g, group[g].team \cup joins, AddressOf(g), M, B)
    OBVIOUS
  <2>4. was[g] \in PartRow /\ was[g].group = g /\ DOMAIN was[g].rules = AddressOf(g)
    BY <2>1, <2>2, <1>5, GroupPlanTyped
  <2>5. will[g] \in PartRow /\ will[g].group = g /\ DOMAIN will[g].rules = AddressOf(g)
    BY <2>1, <2>3, <1>3, GroupPlanTyped
  <2>6. \A r \in AddressOf(g) : ~will[g].rules[r].delete
    BY <2>3, GroupPlanKeeps
  <2> QED
    BY <2>4, <2>5, <2>6
<1>9. DOMAIN was = G /\ DOMAIN will = G
  OBVIOUS
<1>10. was \in PFun(Indices, PartRow) /\ will \in PFun(Indices, PartRow)
  <2>1. was = [g \in DOMAIN was |-> was[g]] /\ will = [g \in DOMAIN will |-> will[g]]
    OBVIOUS
  <2>2. (\A g \in DOMAIN was : was[g] \in PartRow) /\ (\A g \in DOMAIN will : will[g] \in PartRow)
    BY <1>8, <1>9
  <2>3. DOMAIN was \subseteq Indices /\ DOMAIN will \subseteq Indices
    BY <1>7, <1>9
  <2> HIDE DEF was, will
  <2> QED
    BY <2>1, <2>2, <2>3, PartialFunction
<1>15. RowVersions(S, M, T, B) \in Versions /\ DOMAIN RowVersions(S, M, T, B).members = S
  <2>1. RowVersions(S, M, T, B) \in Versions
    BY <1>1, <1>2, <1>3, VersionsTyped
  <2>2. RowVersions(S, M, T, B).members = [m \in S |-> M[m].rev]
    BY DEF RowVersions
  <2> QED
    BY <2>1, <2>2
<1>11. /\ RowVersions(S, member, T, mailbox) \in Versions
       /\ RowVersions(S, member, T, mailbox).members = [m \in S |-> member[m].rev]
       /\ RowVersions(S, member, T, mailbox).boxes = [b \in T |-> mailbox[b].rev]
  BY <1>1, <1>2, <1>5, VersionsTyped
<1>12. ChangePlan(q) = [old |-> RowVersions(S, member, T, mailbox), new |-> RowVersions(S, M, T, B),
                        before |-> was, parts |-> will]
  BY DEF ChangePlan, S, T, M, B, joins, G
<1> DEFINE old == RowVersions(S, member, T, mailbox)
           new == RowVersions(S, M, T, B)
<1> HIDE DEF was, will, old, new
<1>13. ChangePlan(q) \in PlanRow /\ ChangePlan(q).parts = will /\ ChangePlan(q).before = was /\ ChangePlan(q).old = old
      /\ ChangePlan(q).new = new
  BY <1>10, <1>11, <1>12, <1>15 DEF PlanRow, old, new
<1>16. Keeping(will)
  BY <1>8, <1>9 DEF Keeping
<1>14. Apart(will)
  <2>1. \A g, h \in G : g # h => AddressOf(g) \cap AddressOf(h) = {}
    BY AddressOfRules
  <2> QED
    BY <1>8, <1>9, <2>1 DEF Apart
<1> QED
  BY <1>8, <1>9, <1>11, <1>13, <1>14, <1>15, <1>16 DEF old, new, S, T

(* The plans for an address alone, spelled out. *)
LEMMA RoutePlanOfAddress ==
  ASSUME NEW q
  PROVE  /\ q.kind \in {"address.create", "address.update"} =>
              RoutePlan(q) = [NoGroup EXCEPT !.versions = RowVersions({}, member, {q.box}, mailbox),
                             !.rules = [r \in {q.rule} |-> [rev |-> rule[r].rev, targets |-> {q.box}, delete |-> FALSE]]]
         /\ q.kind = "address.delete" => RoutePlan(q) = [NoGroup EXCEPT !.rules = Removal({q.rule})]
<1> DEFINE g == q.group
           old == AddressOf(g)
           kept == GroupPlan(g, IF q.kind = "group.delete" THEN group[g].team ELSE q.team,
                        IF q.address = "remove" THEN {} ELSE IF q.address = "set" THEN {q.rule} ELSE old, member, mailbox)
           a == [kept EXCEPT !.rules = Removal(old), !.versions = NoRows]
           b == [NoGroup EXCEPT !.rules = Removal({q.rule})]
           c == [NoGroup EXCEPT !.versions = RowVersions({}, member, {q.box}, mailbox),
                             !.rules = [r \in {q.rule} |-> [rev |-> rule[r].rev, targets |-> {q.box}, delete |-> FALSE]]]
           d == [kept EXCEPT !.rules = [r \in old \cup DOMAIN kept.rules |->
                                       IF r \in DOMAIN kept.rules THEN kept.rules[r] ELSE Removal(old)[r]]]
<1>1. RoutePlan(q) = CASE q.kind = "group.delete" -> a
                      [] q.kind = "address.delete" -> b
                      [] q.kind \in {"address.create", "address.update"} -> c
                      [] q.kind \in {"group.create", "group.update"} -> IF q.address = "keep" THEN kept ELSE d
  BY Zenon DEF RoutePlan
<1> HIDE DEF a, b, c, d, kept
<1>2. q.kind = "address.delete" => RoutePlan(q) = b
  BY <1>1
<1>3. q.kind \in {"address.create", "address.update"} => RoutePlan(q) = c
  BY <1>1
<1> QED
  BY <1>2, <1>3, Zenon DEF b, c

(* The plan for a group or an address is a part of a plan. *)
LEMMA RoutePlanTyped ==
  ASSUME LocalTypes, NEW q \in Request, Fits(q), q.kind \in Routes
  PROVE  RoutePlan(q) \in PartRow /\ RoutePlan(q).group = q.group
<1>1. mailbox \in [Mailboxes -> MailboxRow] /\ member \in [Members -> MemberRow] /\ q.team \subseteq Members
  BY DEF LocalTypes, Request
<1>2. CASE q.kind \in {"address.create", "address.update"}
  <2>1. q.box \in Mailboxes /\ q.group = 0 /\ q.rule \in Rules
    BY <1>2 DEF Fits
  <2> DEFINE v == RowVersions({}, member, {q.box}, mailbox)
             rs == [r \in {q.rule} |-> [rev |-> rule[r].rev, targets |-> {q.box}, delete |-> FALSE]]
  <2>2. v \in Versions
    BY <1>1, <2>1, VersionsTyped
  <2>3. rs \in PFun(Rules, RuleWish)
    <3>1. \A r \in {q.rule} : rs[r] \in RuleWish
      BY <2>1 DEF LocalTypes, RuleRow, RuleWish
    <3> QED
      BY <2>1, <3>1, PartialFunction
  <2> HIDE DEF v, rs
  <2>4. RoutePlan(q) = [NoGroup EXCEPT !.versions = v, !.rules = rs]
    BY <1>2, RoutePlanOfAddress DEF v, rs
  <2>5. NoGroup \in PartRow /\ NoGroup.group = 0
    BY NothingTyped DEF NoGroup
  <2> QED
    BY <2>1, <2>2, <2>3, <2>4, <2>5 DEF PartRow
<1>3. CASE q.kind = "address.delete"
  <2>1. q.group = 0 /\ q.rule \in Rules
    BY <1>3 DEF Fits
  <2>2. RoutePlan(q) = [NoGroup EXCEPT !.rules = Removal({q.rule})]
    BY <1>3, RoutePlanOfAddress
  <2>3. NoGroup \in PartRow /\ NoGroup.group = 0
    BY NothingTyped DEF NoGroup
  <2>4. Removal({q.rule}) \in PFun(Rules, RuleWish)
    BY <2>1, RemovalTyped
  <2> QED
    BY <2>1, <2>2, <2>3, <2>4 DEF PartRow
<1>4. CASE q.kind \in {"group.create", "group.update", "group.delete"}
  <2>1. q.group \in Groups /\ (q.address = "set" => q.rule \in Rules)
    BY <1>4 DEF Fits
  <2> DEFINE old == AddressOf(q.group)
             T == IF q.kind = "group.delete" THEN group[q.group].team ELSE q.team
             R == IF q.address = "remove" THEN {} ELSE IF q.address = "set" THEN {q.rule} ELSE old
             kept == GroupPlan(q.group, T, R, member, mailbox)
             both == [r \in old \cup DOMAIN kept.rules |->
                        IF r \in DOMAIN kept.rules THEN kept.rules[r] ELSE Removal(old)[r]]
  <2>2. old \subseteq Rules
    BY AddressOfRules
  <2>3. T \subseteq Members
    BY <2>1, <1>1 DEF LocalTypes, GroupRow
  <2>4. R \subseteq Rules
    BY <2>1, <2>2
  <2> HIDE DEF old, T, R
  <2>5. kept \in PartRow /\ DOMAIN kept.rules = R /\ kept.group = q.group
    BY <1>1, <2>1, <2>3, <2>4, GroupPlanTyped
  <2>6. Removal(old) \in PFun(Rules, RuleWish) /\ DOMAIN Removal(old) = old
    BY <2>2, RemovalTyped
  <2>7. kept.rules \in PFun(Rules, RuleWish)
    BY <2>5 DEF PartRow
  <2> HIDE DEF kept
  <2>8. both \in PFun(Rules, RuleWish)
    <3>1. \A r \in old : Removal(old)[r] \in RuleWish
      BY <2>6, PartialApplied
    <3>2. \A r \in DOMAIN kept.rules : kept.rules[r] \in RuleWish
      BY <2>7, PartialApplied
    <3>3. DOMAIN both \subseteq Rules /\ both = [r \in DOMAIN both |-> both[r]]
      BY <2>2, <2>4, <2>5
    <3>4. \A r \in DOMAIN both : both[r] \in RuleWish
      BY <3>1, <3>2
    <3> HIDE DEF both
    <3> QED
      BY <3>3, <3>4, PartialFunction
  <2> HIDE DEF both
  <2>9. \/ RoutePlan(q) = [kept EXCEPT !.rules = Removal(old), !.versions = NoRows]
        \/ RoutePlan(q) = kept
        \/ RoutePlan(q) = [kept EXCEPT !.rules = both]
    BY <1>4 DEF RoutePlan, kept, old, T, R, both
  <2> QED
    BY <2>5, <2>6, <2>8, <2>9, NothingTyped DEF PartRow
<1> QED
  BY <1>2, <1>3, <1>4 DEF Routes

\* The addresses of the groups that distribute to the member.
Follows(m) ==
  {r \in Rules : /\ rule[r].exists /\ rule[r].kind = "group" /\ rule[r].group # 0
                 /\ m \in group[rule[r].group].team /\ member[m].status \in Eligible}

(* The plan of an offboarding takes the member, the heir and every mailbox *)
(* the member owns.                                                        *)
LEMMA OffboardPlanTyped ==
  ASSUME LocalTypes, NEW q \in Request, Fits(q), q.kind = "member.offboard"
  PROVE  LET plan == OffboardKeys(OffboardPlan(q)) IN
         /\ plan \in PlanRow /\ Apart(plan.parts) /\ Keeping(plan.parts)
         /\ [plan EXCEPT !.before = plan.parts] \in PlanRow
         /\ q.member \in DOMAIN plan.old.members
         /\ q.as = "handover" /\ Owned(q.member) # {} => q.owner \in DOMAIN plan.old.members
         /\ plan.old.boxes = [b \in Owned(q.member) |-> mailbox[b].rev]
         /\ \A r \in Rules : r \in Follows(q.member) => r \in DOMAIN plan.parts /\ plan.parts[r].group = rule[r].group
<1> DEFINE heir == IF q.as = "handover" THEN {q.owner} ELSE {}
           S == {q.member} \cup (IF Owned(q.member) = {} THEN {} ELSE heir)
           affected(g) == LET team == {m \in group[g].team : member[m].status \in Eligible} IN
                     q.member \in team \/ (Owned(q.member) # {} /\ heir \cap team # {})
           B == [b \in Mailboxes |-> IF b \notin Owned(q.member) THEN mailbox[b]
                                     ELSE [mailbox[b] EXCEPT !.owner = IF heir = {} THEN None ELSE q.owner]]
           R == {r \in Rules : rule[r].exists /\ rule[r].kind = "group" /\ rule[r].group # 0 /\ affected(rule[r].group)}
           ps == [r \in R |-> GroupPlan(rule[r].group, group[rule[r].group].team \ {q.member}, {r}, member, B)]
           ks == [r \in R |-> [ps[r] EXCEPT !.versions = NoRows]]
           old == RowVersions(S, member, Owned(q.member), mailbox)
<1>1. q.member \in Members /\ (q.as = "handover" => q.owner \in Members) /\ q.owner \in Members \cup {None}
  BY DEF Fits, Request
<1>2. member \in [Members -> MemberRow] /\ mailbox \in [Mailboxes -> MailboxRow] /\ Owned(q.member) \subseteq Mailboxes
  BY DEF LocalTypes, Owned
<1>3. S \subseteq Members /\ q.member \in S /\ (q.as = "handover" /\ Owned(q.member) # {} => q.owner \in S)
  BY <1>1
<1>4. B \in [Mailboxes -> MailboxRow]
  <2>1. ASSUME NEW b \in Mailboxes, NEW x \in Members \cup {None} PROVE [mailbox[b] EXCEPT !.owner = x] \in MailboxRow
    BY <1>2 DEF MailboxRow
  <2> QED
    BY <1>1, <1>2, <2>1
<1>5. R \subseteq Rules /\ \A r \in R : rule[r].group \in Groups
  BY DEF LocalTypes, RuleRow
<1>17. Follows(q.member) \subseteq R
  BY DEF Follows
<1> HIDE DEF R, B, S
<1>6. ASSUME NEW r \in R
      PROVE  ps[r] \in PartRow /\ DOMAIN ps[r].rules = {r} /\ ~ps[r].rules[r].delete /\ ps[r].group = rule[r].group
  <2>1. rule[r].group \in Groups /\ group[rule[r].group].team \ {q.member} \subseteq Members /\ {r} \subseteq Rules
    BY <1>5 DEF LocalTypes, GroupRow
  <2>2. ps[r] = GroupPlan(rule[r].group, group[rule[r].group].team \ {q.member}, {r}, member, B)
    OBVIOUS
  <2>3. ps[r] \in PartRow /\ DOMAIN ps[r].rules = {r} /\ ps[r].group = rule[r].group
    BY <1>2, <1>4, <2>1, <2>2, GroupPlanTyped
  <2>4. ~ps[r].rules[r].delete
    BY <2>2, GroupPlanKeeps
  <2> QED
    BY <2>3, <2>4
<1> HIDE DEF ps
<1>7. ASSUME NEW r \in R
      PROVE  ks[r] \in PartRow /\ DOMAIN ks[r].rules = {r} /\ ~ks[r].rules[r].delete /\ ks[r].group = rule[r].group
  BY <1>6, NothingTyped DEF PartRow
<1>8. DOMAIN ks = R /\ R \subseteq Indices /\ ks = [r \in DOMAIN ks |-> ks[r]]
  BY <1>5 DEF Indices
<1> HIDE DEF ks
<1>9. ks \in PFun(Indices, PartRow)
  BY <1>7, <1>8, PartialFunction
<1>10. old \in Versions /\ old.members = [m \in S |-> member[m].rev] /\ old.boxes = [b \in Owned(q.member) |-> mailbox[b].rev]
  BY <1>2, <1>3, VersionsTyped
<1> HIDE DEF old
<1>11. OffboardPlan(q) = [NoPlan EXCEPT !.old = old, !.parts = ps]
  BY DEF OffboardPlan, old, ps, S, B, R
<1>12. OffboardPlan(q).parts = ps /\ DOMAIN ps = R /\ NoPlan \in PlanRow
  BY <1>11, NothingTyped DEF NoPlan, ps
<1>13. OffboardKeys(OffboardPlan(q)) = [NoPlan EXCEPT !.old = old, !.parts = ks]
  <2>1. OffboardKeys(OffboardPlan(q)) = [OffboardPlan(q) EXCEPT !.parts = ks]
    BY <1>12 DEF OffboardKeys, ks
  <2> QED
    BY <1>11, <2>1 DEF NoPlan
<1> DEFINE plan == OffboardKeys(OffboardPlan(q))
<1>14. plan \in PlanRow /\ plan.parts = ks /\ plan.old = old
  BY <1>9, <1>10, <1>12, <1>13 DEF PlanRow
<1>15. Apart(ks) /\ Keeping(ks)
  BY <1>7, <1>8 DEF Apart, Keeping
<1>16. [plan EXCEPT !.before = plan.parts] \in PlanRow
  BY <1>14 DEF PlanRow
<1> QED
  BY <1>3, <1>7, <1>8, <1>10, <1>14, <1>15, <1>16, <1>17
(* Counting up the revisions of a plan changes nothing else of it. *)
LEMMA BumpedTyped ==
  ASSUME NEW parts \in PFun(Indices, PartRow)
  PROVE  /\ Bumped(parts) \in PFun(Indices, PartRow) /\ DOMAIN Bumped(parts) = DOMAIN parts
         /\ \A k \in DOMAIN parts :
              /\ DOMAIN Bumped(parts)[k].rules = DOMAIN parts[k].rules
              /\ Bumped(parts)[k].group = parts[k].group /\ Bumped(parts)[k].versions = parts[k].versions
              /\ Bumped(parts)[k].team = parts[k].team /\ Bumped(parts)[k].rev = parts[k].rev
              /\ \A r \in DOMAIN parts[k].rules :
                   /\ Bumped(parts)[k].rules[r].targets = parts[k].rules[r].targets
                   /\ Bumped(parts)[k].rules[r].delete = parts[k].rules[r].delete
                   /\ Bumped(parts)[k].rules[r].rev = parts[k].rules[r].rev + 1
<1> DEFINE next(k) == [r \in DOMAIN parts[k].rules |-> [parts[k].rules[r] EXCEPT !.rev = @ + 1]]
<1>1. DOMAIN parts \subseteq Indices /\ \A k \in DOMAIN parts : parts[k] \in PartRow
  BY PartialApplied
<1>2. ASSUME NEW k \in DOMAIN parts
      PROVE  /\ next(k) \in PFun(Rules, RuleWish) /\ DOMAIN next(k) = DOMAIN parts[k].rules
             /\ \A r \in DOMAIN parts[k].rules :
                  /\ next(k)[r].targets = parts[k].rules[r].targets /\ next(k)[r].delete = parts[k].rules[r].delete
                  /\ next(k)[r].rev = parts[k].rules[r].rev + 1
  <2> DEFINE rs == parts[k].rules
  <2>1. rs \in PFun(Rules, RuleWish)
    BY <1>1 DEF PartRow
  <2>2. DOMAIN rs \subseteq Rules /\ \A r \in DOMAIN rs : rs[r] \in RuleWish
    BY <2>1, PartialApplied
  <2> HIDE DEF rs
  <2> DEFINE nx == [r \in DOMAIN rs |-> [rs[r] EXCEPT !.rev = @ + 1]]
  <2>3. \A r \in DOMAIN rs : /\ nx[r] \in RuleWish /\ nx[r].targets = rs[r].targets /\ nx[r].delete = rs[r].delete
                             /\ nx[r].rev = rs[r].rev + 1
    BY <2>2 DEF RuleWish
  <2>4. nx = [r \in DOMAIN nx |-> nx[r]] /\ DOMAIN nx = DOMAIN rs
    OBVIOUS
  <2>5. nx = next(k)
    BY DEF rs
  <2> HIDE DEF nx
  <2>6. nx \in PFun(Rules, RuleWish)
    BY <2>2, <2>3, <2>4, PartialFunction
  <2> HIDE DEF next
  <2> QED
    BY <2>3, <2>4, <2>5, <2>6 DEF rs
<1> HIDE DEF next
<1>3. Bumped(parts) = [k \in DOMAIN parts |-> [parts[k] EXCEPT !.rules = next(k)]]
  BY DEF Bumped, next
<1>4. DOMAIN Bumped(parts) = DOMAIN parts
  BY <1>3
<1>5. ASSUME NEW k \in DOMAIN parts
      PROVE  /\ Bumped(parts)[k] \in PartRow /\ Bumped(parts)[k].rules = next(k)
             /\ Bumped(parts)[k].group = parts[k].group /\ Bumped(parts)[k].versions = parts[k].versions
             /\ Bumped(parts)[k].team = parts[k].team /\ Bumped(parts)[k].rev = parts[k].rev
  <2>1. Bumped(parts)[k] = [parts[k] EXCEPT !.rules = next(k)]
    BY <1>3
  <2>2. parts[k] \in PartRow /\ next(k) \in PFun(Rules, RuleWish)
    BY <1>1, <1>2
  <2> QED
    BY <2>1, <2>2 DEF PartRow
<1>6. Bumped(parts) \in PFun(Indices, PartRow)
  <2>1. Bumped(parts) = [k \in DOMAIN Bumped(parts) |-> Bumped(parts)[k]]
    BY <1>3
  <2> QED
    BY <1>1, <1>4, <1>5, <2>1, PartialFunction
<1> QED
  BY <1>2, <1>4, <1>5, <1>6

\* The addresses of a plan.
RulesOf(parts) == UNION {DOMAIN parts[k].rules : k \in DOMAIN parts}

(* The addresses of a part are among those of the plan. *)
LEMMA RulesOfPart ==
  ASSUME NEW parts, NEW k \in DOMAIN parts, NEW r \in DOMAIN parts[k].rules
  PROVE  r \in RulesOf(parts)
BY DEF RulesOf

(* The addresses of a plan are addresses. *)
LEMMA RulesOfTyped ==
  ASSUME NEW parts \in PFun(Indices, PartRow)
  PROVE  /\ RulesOf(parts) \subseteq Rules
         /\ \A k \in DOMAIN parts : /\ parts[k] \in PartRow /\ k \in Indices /\ DOMAIN parts[k].rules \subseteq Rules
                                    /\ \A r \in DOMAIN parts[k].rules : parts[k].rules[r] \in RuleWish
<1>1. DOMAIN parts \subseteq Indices /\ \A k \in DOMAIN parts : parts[k] \in PartRow
  BY PartialApplied
<1>2. ASSUME NEW k \in DOMAIN parts
      PROVE DOMAIN parts[k].rules \subseteq Rules /\ \A r \in DOMAIN parts[k].rules : parts[k].rules[r] \in RuleWish
  <2>1. parts[k].rules \in PFun(Rules, RuleWish)
    BY <1>1 DEF PartRow
  <2> QED
    BY <2>1, PartialApplied
<1> QED
  BY <1>1, <1>2 DEF RulesOf

ReservedAs(r, to) == [rule[r] EXCEPT !.exists = TRUE, !.desired = to, !.state = "pending", !.rev = @ + 1]

(* The row of an address that is reserved. *)
LEMMA ReservedAsTyped ==
  ASSUME LocalTypes, NEW r \in Rules, NEW to \in SUBSET Mailboxes
  PROVE  /\ ReservedAs(r, to) \in RuleRow
         /\ ReservedAs(r, to).exists /\ ReservedAs(r, to).state = "pending"
         /\ ReservedAs(r, to).rev = rule[r].rev + 1 /\ ReservedAs(r, to).desired = to
         /\ ReservedAs(r, to).group = rule[r].group /\ ReservedAs(r, to).box = rule[r].box
         /\ ReservedAs(r, to).rows = rule[r].rows /\ ReservedAs(r, to).kind = rule[r].kind
<1> DEFINE row == rule[r]
           K == {"alias", "group"}
           G == Groups \cup {0}
           B == Mailboxes \cup {None}
           T == SUBSET Mailboxes
           S == {"pending", "synced", "error", "unknown"}
           W == SUBSET {"missing", "current", "stale"}
<1>1. RuleRow = [exists : BOOLEAN, kind : K, group : G, box : B, rev : Nat, desired : T, targets : T, observed : T,
                 state : S, rows : W]
  BY DEF RuleRow
<1>2. row \in RuleRow /\ to \in T /\ "pending" \in S
  BY DEF LocalTypes
<1>3. ReservedAs(r, to) = [row EXCEPT !.exists = TRUE, !.desired = to, !.state = "pending", !.rev = @ + 1]
  BY DEF ReservedAs
<1>4. row = rule[r]
  OBVIOUS
<1> HIDE DEF row, K, G, B, T, S, W
<1>5. row.rev \in Nat /\ row.rev + 1 \in Nat
  BY <1>1, <1>2
<1>6. ReservedAs(r, to) \in RuleRow
  BY <1>1, <1>2, <1>3, <1>5
<1> QED
  BY <1>1, <1>2, <1>3, <1>4, <1>6

(* What a reservation does to an address of the plan, and to others. *)
LEMMA ReservedRow ==
  ASSUME LocalTypes, NEW plan, plan.parts \in PFun(Indices, PartRow), NEW r \in Rules
  PROVE  /\ r \notin RulesOf(plan.parts) => Reserved(plan)[r] = rule[r]
         /\ r \in RulesOf(plan.parts) =>
              \E k \in DOMAIN plan.parts :
                /\ r \in DOMAIN plan.parts[k].rules
                /\ Reserved(plan)[r] = ReservedAs(r, plan.parts[k].rules[r].targets)
<1> DEFINE parts == plan.parts
           k0 == CHOOSE k \in DOMAIN parts : r \in DOMAIN parts[k].rules
<1>1. Reserved(plan)[r] = IF r \notin RulesOf(parts) THEN rule[r]
                          ELSE ReservedAs(r, parts[k0].rules[r].targets)
  BY DEF Reserved, RulesOf, ReservedAs
<1>2. r \in RulesOf(parts) => k0 \in DOMAIN parts /\ r \in DOMAIN parts[k0].rules
  <2>1. r \in RulesOf(parts) => \E k \in DOMAIN parts : r \in DOMAIN parts[k].rules
    BY DEF RulesOf
  <2> QED
    BY <2>1, Zenon
<1> HIDE DEF k0
<1> QED
  BY <1>1, <1>2

(* The rows of all addresses when a plan is reserved. *)
LEMMA ReservedTyped ==
  ASSUME LocalTypes, NEW plan, plan.parts \in PFun(Indices, PartRow)
  PROVE  /\ Reserved(plan) \in [Rules -> RuleRow]
         /\ Reserved(plan) = [r \in Rules |-> Reserved(plan)[r]]
         /\ \A r \in RulesOf(plan.parts) :
              /\ Reserved(plan)[r].exists /\ Reserved(plan)[r].state = "pending"
              /\ Reserved(plan)[r].rev = rule[r].rev + 1
              /\ Reserved(plan)[r].group = rule[r].group /\ Reserved(plan)[r].box = rule[r].box
              /\ Reserved(plan)[r].rows = rule[r].rows /\ Reserved(plan)[r].kind = rule[r].kind
         /\ Apart(plan.parts) =>
              \A k \in DOMAIN plan.parts : \A r \in DOMAIN plan.parts[k].rules :
                Reserved(plan)[r].desired = plan.parts[k].rules[r].targets
<1>1. Reserved(plan) = [r \in Rules |-> Reserved(plan)[r]]
  BY DEF Reserved
<1>2. ASSUME NEW r \in Rules
      PROVE  /\ Reserved(plan)[r] \in RuleRow
             /\ r \in RulesOf(plan.parts) =>
                  /\ Reserved(plan)[r].exists /\ Reserved(plan)[r].state = "pending"
                  /\ Reserved(plan)[r].rev = rule[r].rev + 1
                  /\ Reserved(plan)[r].group = rule[r].group /\ Reserved(plan)[r].box = rule[r].box
                  /\ Reserved(plan)[r].rows = rule[r].rows /\ Reserved(plan)[r].kind = rule[r].kind
  <2>1. rule[r] \in RuleRow
    BY DEF LocalTypes
  <2>2. CASE r \notin RulesOf(plan.parts)
    BY <2>1, <2>2, ReservedRow
  <2>3. CASE r \in RulesOf(plan.parts)
    <3>1. PICK k \in DOMAIN plan.parts :
                /\ r \in DOMAIN plan.parts[k].rules
                /\ Reserved(plan)[r] = ReservedAs(r, plan.parts[k].rules[r].targets)
      BY <2>3, ReservedRow, Zenon
    <3>2. plan.parts[k].rules[r].targets \subseteq Mailboxes
      BY <3>1, RulesOfTyped DEF RuleWish
    <3> QED
      BY <3>1, <3>2, ReservedAsTyped
  <2> QED
    BY <2>2, <2>3
<1>3. RulesOf(plan.parts) \subseteq Rules
  BY RulesOfTyped
<1>4. ASSUME Apart(plan.parts), NEW k \in DOMAIN plan.parts, NEW r \in DOMAIN plan.parts[k].rules
      PROVE  Reserved(plan)[r].desired = plan.parts[k].rules[r].targets
  <2>1. r \in RulesOf(plan.parts) /\ r \in Rules
    BY <1>3, RulesOfPart
  <2>2. PICK l \in DOMAIN plan.parts :
              /\ r \in DOMAIN plan.parts[l].rules
              /\ Reserved(plan)[r] = ReservedAs(r, plan.parts[l].rules[r].targets)
    BY <2>1, ReservedRow, Zenon
  <2>3. k = l
    BY <1>4, <2>2 DEF Apart
  <2>4. plan.parts[l].rules[r].targets \subseteq Mailboxes
    BY <2>2, RulesOfTyped DEF RuleWish
  <2> QED
    BY <2>1, <2>2, <2>3, <2>4, ReservedAsTyped
<1>5. Reserved(plan) \in [Rules -> RuleRow]
  BY <1>1, <1>2
<1> QED
  BY <1>1, <1>2, <1>3, <1>4, <1>5

-----------------------------------------------------------------------------
(* What the actions do to the row of an operation. *)

\* Only the row of o changes.
OnlyOp(o) == op' \in [Ops -> OpRow] /\ \A p \in Ops \ {o} : op'[p] = op[p]

\* An execution goes on, or stops with its locks.
GoesOn(o) ==
  /\ OnlyOp(o) /\ Asked(op[o])' /\ Shaped(op[o])'
  /\ op[o].status \in Live /\ op'[o].status \in Live
  /\ op'[o].request = op[o].request /\ op'[o].plan = op[o].plan /\ op'[o].committed = op[o].committed

\* An operation ends and gives up its locks.
Ends(o) == OnlyOp(o) /\ \E s \in {"rejected", "succeeded", "cancelled"} : op'[o] = Settled(s)

(* The statuses of operations that hold locks, and those of others. *)
LEMMA LiveFacts ==
  /\ Live \subseteq Statuses /\ "running" \in Live /\ "queued" \in Live /\ "needs_action" \in Live /\ "unknown" \in Live
  /\ Live \cap {"idle", "prepared", "rejected", "succeeded", "cancelled"} = {}
BY DEF Live, Statuses

(* Operations that were not asked for anything or have ended. *)
LEMMA IdleTyped ==
  /\ Idle \in OpRow /\ Asked(Idle) /\ Shaped(Idle) /\ Idle.status = "idle"
  /\ \A s \in {"rejected", "succeeded", "cancelled"} :
       Settled(s) \in OpRow /\ Settled(s).status = s /\ Asked(Settled(s)) /\ Shaped(Settled(s))
<1>1. Ask("group.update") \in Request
  BY DEF Ask, Request, Routes
<1> DEFINE a == Ask("group.update")
<1> HIDE DEF a
<1>2. NoPlan \in PlanRow /\ DOMAIN NoPlan.parts = {}
  BY NothingTyped DEF NoPlan, Empty
<1>3. Idle = [status |-> "idle", request |-> a, plan |-> NoPlan,
              committed |-> FALSE, processed |-> FALSE, part |-> None, done |-> {}]
  BY DEF Idle, a
<1>4. Idle \in OpRow /\ Idle.status = "idle"
  BY <1>1, <1>2, <1>3 DEF OpRow, Statuses, a
<1>5. Asked(Idle) /\ Shaped(Idle)
  BY <1>2, <1>3, LiveFacts DEF Asked, Shaped, Apart, Keeping
<1>6. ASSUME NEW s \in {"rejected", "succeeded", "cancelled"}
      PROVE  Settled(s) \in OpRow /\ Settled(s).status = s /\ Asked(Settled(s)) /\ Shaped(Settled(s))
  <2>1. s \in Statuses /\ s \notin Live /\ s # "idle" /\ s # "prepared"
    BY LiveFacts DEF Statuses
  <2>2. Settled(s) = [Idle EXCEPT !.status = s]
    BY DEF Settled
  <2>3. Settled(s) \in OpRow
    BY <1>4, <2>1, <2>2 DEF OpRow
  <2>4. /\ Settled(s).status = s /\ Settled(s).plan = Idle.plan /\ Settled(s).done = Idle.done
        /\ Settled(s).part = Idle.part /\ Settled(s).processed = Idle.processed
    BY <1>4, <2>2 DEF OpRow
  <2>5. /\ Idle.plan = NoPlan /\ Idle.done = {} /\ Idle.part = None /\ Idle.processed = FALSE
    BY <1>3
  <2> QED
    BY <1>2, <2>1, <2>3, <2>4, <2>5 DEF Asked, Shaped, Apart, Keeping
<1> QED
  BY <1>4, <1>5, <1>6

(* The fields of an operation. *)
LEMMA OpRowFields ==
  ASSUME OpTypes, NEW o \in Ops
  PROVE  /\ op[o] \in OpRow /\ op[o].status \in Statuses /\ op[o].request \in Request /\ op[o].plan \in PlanRow
         /\ op[o].plan.old \in Versions /\ op[o].plan.new \in Versions
         /\ op[o].plan.parts \in PFun(Indices, PartRow) /\ op[o].plan.before \in PFun(Indices, PartRow)
         /\ op[o].part \in Indices \cup {None} /\ op[o].done \subseteq Indices
         /\ op[o].committed \in BOOLEAN /\ op[o].processed \in BOOLEAN
BY DEF OpTypes, OpRow, PlanRow

(* The next part of a plan is one of its parts. *)
LEMMA UndoneTyped ==
  ASSUME OpTypes, NEW o \in Ops, Undone(o) # {}
  PROVE  Lowest(Undone(o)) \in DOMAIN op[o].plan.parts \ op[o].done /\ Lowest(Undone(o)) \in Indices
<1>1. DOMAIN op[o].plan.parts \subseteq Indices
  BY OpRowFields, PartialApplied
<1>2. Undone(o) \subseteq DOMAIN op[o].plan.parts \ op[o].done
  BY DEF Undone
<1>3. Lowest(Undone(o)) \in Undone(o)
  BY <1>1, <1>2, IndicesAreNat, LowestChosen
<1> QED
  BY <1>1, <1>2, <1>3

\* Actions that change only how far an execution has come.
Paces(o) == Start(o) \/ BeginPart(o) \/ Stop(o) \/ Mismatch(o) \/ Conflict(o) \/ Reconcile(o) \/ Retry(o)

(* When an execution goes on as GoesOn says. *)
LEMMA GoesOnFrom ==
  ASSUME OpTypes, WellFormed, NEW o \in Ops, OnlyOp(o),
         op[o].status \in Live, op'[o].status \in Live,
         op'[o].request = op[o].request, op'[o].plan = op[o].plan, op'[o].committed = op[o].committed,
         op'[o].processed => op[o].committed,
         op'[o].done \subseteq DOMAIN op[o].plan.parts, ~op[o].committed => op'[o].done = {},
         op'[o].part # None => op'[o].part \in DOMAIN op[o].plan.parts \ op'[o].done /\ op[o].committed
  PROVE  GoesOn(o)
<1>1. Asked(op[o]) /\ Shaped(op[o])
  BY DEF WellFormed
<1>2. Asked(op[o])'
  BY <1>1, LiveFacts DEF Asked
<1>3. Shaped(op[o])'
  BY <1>1 DEF Shaped
<1> QED
  BY <1>2, <1>3 DEF GoesOn

(* The steps that only move the execution on change nothing else. *)
LEMMA PacesGoesOn ==
  ASSUME OpTypes, WellFormed, NEW o \in Ops, Paces(o)
  PROVE  /\ GoesOn(o) /\ UNCHANGED <<member, mailbox, group, rule, remote, snap, history>>
         /\ op'[o].done \subseteq op[o].done
<1> USE LiveFacts
<1>0. /\ op \in [Ops -> OpRow] /\ op[o] \in OpRow /\ op[o].done \subseteq DOMAIN op[o].plan.parts
      /\ op[o].processed => op[o].committed
      /\ op[o].done \subseteq Indices /\ None \in Indices \cup {None}
      /\ Live \subseteq Statuses /\ (~op[o].committed => op[o].done = {})
      /\ op[o].part # None => op[o].part \in DOMAIN op[o].plan.parts \ op[o].done /\ op[o].committed
  BY OpRowFields DEF OpTypes, WellFormed, Shaped, Asked
<1>1. CASE Start(o)
  <2> DEFINE d == IF Offboards(o) THEN {} ELSE op[o].done
  <2>1. op' = [op EXCEPT ![o].status = "running", ![o].part = None, ![o].done = d] /\ op[o].status = "queued"
    BY <1>1 DEF Start
  <2>2. d \subseteq DOMAIN op[o].plan.parts /\ d \subseteq Indices /\ (~op[o].committed => d = {}) /\ d \subseteq op[o].done
    BY <1>0
  <2> HIDE DEF d
  <2>3. OnlyOp(o)
    BY <1>0, <2>1, <2>2 DEF OnlyOp, OpRow
  <2>4. /\ op'[o].status = "running" /\ op'[o].request = op[o].request /\ op'[o].plan = op[o].plan
        /\ op'[o].committed = op[o].committed /\ op'[o].processed = op[o].processed
        /\ op'[o].done = d /\ op'[o].part = None
    BY <1>0, <2>1 DEF OpRow
  <2>5. GoesOn(o) /\ op'[o].done \subseteq op[o].done
    BY <1>0, <2>1, <2>2, <2>3, <2>4, GoesOnFrom
  <2> QED
    BY <1>1, <2>5 DEF Start, localVars
<1>2. CASE BeginPart(o)
  <2> DEFINE p == Lowest(Undone(o))
  <2>1. op' = [op EXCEPT ![o].part = p] /\ op[o].status = "running" /\ op[o].committed
    BY <1>2 DEF BeginPart, Between, Running
  <2>2. p \in DOMAIN op[o].plan.parts \ op[o].done /\ p \in Indices
    BY <1>2, UndoneTyped DEF BeginPart
  <2> HIDE DEF p
  <2>3. OnlyOp(o)
    BY <1>0, <2>1, <2>2 DEF OnlyOp, OpRow
  <2>4. /\ op'[o].status = op[o].status /\ op'[o].request = op[o].request /\ op'[o].plan = op[o].plan
        /\ op'[o].committed = op[o].committed /\ op'[o].processed = op[o].processed
        /\ op'[o].done = op[o].done /\ op'[o].part = p
    BY <1>0, <2>1 DEF OpRow
  <2>5. GoesOn(o) /\ op'[o].done \subseteq op[o].done
    BY <1>0, <2>1, <2>2, <2>3, <2>4, GoesOnFrom
  <2> QED
    BY <1>2, <2>5 DEF BeginPart, localVars
<1>3. ASSUME NEW s \in Live, op' = [op EXCEPT ![o].status = s, ![o].part = None], op[o].status \in Live
      PROVE  GoesOn(o) /\ op'[o].done \subseteq op[o].done
  <2>3. OnlyOp(o)
    BY <1>0, <1>3 DEF OnlyOp, OpRow
  <2>4. /\ op'[o].status = s /\ op'[o].request = op[o].request /\ op'[o].plan = op[o].plan
        /\ op'[o].committed = op[o].committed /\ op'[o].processed = op[o].processed
        /\ op'[o].done = op[o].done /\ op'[o].part = None
    BY <1>0, <1>3 DEF OpRow
  <2> QED
    BY <1>0, <1>3, <2>3, <2>4, GoesOnFrom
<1>4. ASSUME NEW s \in Live, op' = [op EXCEPT ![o].status = s], op[o].status \in Live
      PROVE  GoesOn(o) /\ op'[o].done \subseteq op[o].done
  <2>3. OnlyOp(o)
    BY <1>0, <1>4 DEF OnlyOp, OpRow
  <2>4. /\ op'[o].status = s /\ op'[o].request = op[o].request /\ op'[o].plan = op[o].plan
        /\ op'[o].committed = op[o].committed /\ op'[o].processed = op[o].processed
        /\ op'[o].done = op[o].done /\ op'[o].part = op[o].part
    BY <1>0, <1>4 DEF OpRow
  <2> QED
    BY <1>0, <1>4, <2>3, <2>4, GoesOnFrom
<1>5. CASE Stop(o)
  <2>1. PICK s \in {"needs_action", "unknown"} : op' = [op EXCEPT ![o].status = s, ![o].part = None]
    BY <1>5 DEF Stop
  <2>2. op[o].status = "running" /\ s \in Live
    BY <1>5 DEF Stop, Running
  <2>3. GoesOn(o) /\ op'[o].done \subseteq op[o].done
    BY <2>1, <2>2, <1>3
  <2> QED
    BY <1>5, <2>3 DEF Stop, localVars
<1>6. CASE Mismatch(o)
  <2>1. PICK r \in DOMAIN PartOf(o).rules \ External :
          op' = [op EXCEPT ![o].part = None, ![o].status = IF remote[r] = {} THEN "needs_action" ELSE "unknown"]
    BY <1>6 DEF Mismatch
  <2> DEFINE s == IF remote[r] = {} THEN "needs_action" ELSE "unknown"
  <2>2. op[o].status = "running" /\ s \in Live
    BY <1>6 DEF Mismatch, ReadBack, Working, Running
  <2>3. op' = [op EXCEPT ![o].part = None, ![o].status = s]
    BY <2>1
  <2> HIDE DEF s
  <2>4. op' = [op EXCEPT ![o].status = s, ![o].part = None]
    BY <1>0, <2>3 DEF OpRow
  <2>5. GoesOn(o) /\ op'[o].done \subseteq op[o].done
    BY <2>2, <2>4, <1>3
  <2> QED
    BY <1>6, <2>5 DEF Mismatch, localVars
<1>7. CASE Conflict(o)
  <2>1. op' = [op EXCEPT ![o].status = "needs_action", ![o].part = None]
    BY <1>7 DEF Conflict
  <2>2. op[o].status = "running"
    BY <1>7 DEF Conflict, Uncommitted, Between, ReadBack, Working, AllDone, Running
  <2>3. GoesOn(o) /\ op'[o].done \subseteq op[o].done
    BY <2>1, <2>2, <1>3
  <2> QED
    BY <1>7, <2>3 DEF Conflict, localVars
<1>8. CASE Reconcile(o)
  <2> DEFINE s == IF \E r \in Rules : Outcome(o, r) = "creating" THEN op[o].status ELSE "needs_action"
  <2>1. op' = [op EXCEPT ![o].status = s] /\ op[o].status = "unknown"
    BY <1>8 DEF Reconcile
  <2>2. s \in Live
    BY <2>1
  <2> HIDE DEF s
  <2>3. GoesOn(o) /\ op'[o].done \subseteq op[o].done
    BY <2>1, <2>2, <1>4
  <2> QED
    BY <1>8, <2>3 DEF Reconcile, localVars
<1>9. CASE Retry(o)
  <2>1. op' = [op EXCEPT ![o].status = "queued"] /\ op[o].status = "needs_action"
    BY <1>9 DEF Retry
  <2>2. GoesOn(o) /\ op'[o].done \subseteq op[o].done
    BY <2>1, <1>4
  <2> QED
    BY <1>9, <2>2 DEF Retry, localVars
<1> QED
  BY <1>1, <1>2, <1>5, <1>6, <1>7, <1>8, <1>9 DEF Paces

-----------------------------------------------------------------------------
(* What the actions do to the row of an address. *)

RuleKinds    == {"alias", "group"}
OfGroup      == Groups \cup {0}
OfBox        == Mailboxes \cup {None}
Targets      == SUBSET Mailboxes
RuleStates   == {"pending", "synced", "error", "unknown"}
ResourceRows == SUBSET {"missing", "current", "stale"}

(* The type of an address in terms of named sets. *)
LEMMA RuleRowIs ==
  /\ RuleRow = [exists : BOOLEAN, kind : RuleKinds, group : OfGroup, box : OfBox, rev : Nat, desired : Targets,
                targets : Targets, observed : Targets, state : RuleStates, rows : ResourceRows]
  /\ {"pending", "synced", "error", "unknown"} \subseteq RuleStates /\ {} \in Targets /\ {} \in ResourceRows
  /\ "alias" \in RuleKinds /\ "group" \in RuleKinds /\ 0 \in OfGroup /\ None \in OfBox
  /\ Groups \subseteq OfGroup /\ Mailboxes \subseteq OfBox
BY DEF RuleRow, RuleKinds, OfGroup, OfBox, Targets, RuleStates, ResourceRows

\* What the properties of an address do not look at may change.
SameRule(new, old) == new.exists = old.exists /\ new.desired = old.desired /\ new.state = old.state

(* Resource rows stay resource rows when their rule goes. *)
LEMMA OutdatedTyped == ASSUME NEW w \in ResourceRows PROVE Outdated(w) \in ResourceRows
BY DEF Outdated, ResourceRows

(* Only the resource rows of an address change when its rule goes. *)
LEMMA OutdatedRule ==
  ASSUME LocalTypes, NEW r \in Rules, rule' = [rule EXCEPT ![r].rows = Outdated(@)]
  PROVE  rule' \in [Rules -> RuleRow] /\ \A s \in Rules : SameRule(rule'[s], rule[s])
<1> DEFINE row == rule[r]
           w == Outdated(row.rows)
<1>1. rule \in [Rules -> RuleRow] /\ row \in RuleRow
  BY DEF LocalTypes
<1>2. row.rows \in ResourceRows
  BY <1>1, RuleRowIs
<1>3. w \in ResourceRows
  BY <1>2, OutdatedTyped
<1>4. rule' = [rule EXCEPT ![r] = [row EXCEPT !.rows = w]]
  BY <1>1
<1>5. row = rule[r]
  OBVIOUS
<1> HIDE DEF row, w
<1>6. [row EXCEPT !.rows = w] \in RuleRow
  BY <1>1, <1>3, RuleRowIs
<1>7. SameRule([row EXCEPT !.rows = w], row)
  BY <1>1, RuleRowIs DEF SameRule
<1> DEFINE next == [row EXCEPT !.rows = w]
<1> HIDE DEF next
<1>8. rule' = [rule EXCEPT ![r] = next] /\ next \in RuleRow /\ SameRule(next, row)
  BY <1>4, <1>6, <1>7 DEF next
<1>9. \A s \in Rules : rule'[s] = IF s = r THEN next ELSE rule[s]
  BY <1>1, <1>8
<1>10. \A s \in Rules : SameRule(rule[s], rule[s])
  BY DEF SameRule
<1> QED
  BY <1>1, <1>5, <1>8, <1>9, <1>10

(* The part that is worked on. *)
LEMMA PartTyped ==
  ASSUME OpTypes, NEW o \in Ops, WellFormed, op[o].part # None
  PROVE  /\ PartOf(o) \in PartRow /\ DOMAIN PartOf(o).rules \subseteq Rules
         /\ \A r \in DOMAIN PartOf(o).rules : PartOf(o).rules[r] \in RuleWish
         /\ op[o].part \in DOMAIN op[o].plan.parts \ op[o].done
<1>1. op[o].part \in DOMAIN op[o].plan.parts \ op[o].done
  BY DEF WellFormed, Shaped
<1>2. op[o].plan.parts \in PFun(Indices, PartRow)
  BY OpRowFields
<1> QED
  BY <1>1, <1>2, RulesOfTyped DEF PartOf

(* What the end of a part makes of an address. *)
LEMMA RuleAfterTyped ==
  ASSUME LocalTypes, OpTypes, WellFormed, NEW o \in Ops, op[o].part # None, NEW r \in Rules
  PROVE  /\ RuleAfter(o, r) \in RuleRow
         /\ r \notin DOMAIN PartOf(o).rules => SameRule(RuleAfter(o, r), rule[r])
         /\ r \in DOMAIN PartOf(o).rules =>
              IF PartOf(o).rules[r].delete THEN ~RuleAfter(o, r).exists
              ELSE /\ RuleAfter(o, r).exists = rule[r].exists /\ RuleAfter(o, r).desired = rule[r].desired
                   /\ RuleAfter(o, r).state = IF r \in External THEN "unknown" ELSE "synced"
<1> DEFINE p == PartOf(o)
           R == DOMAIN p.rules
           wanted == p.rules[r]
           to == wanted.targets
           row == rule[r]
           box == IF op[o].request.kind \in {"address.create", "address.update"} THEN op[o].request.box ELSE rule[r].box
           rows == (IF row.rows = {} THEN {} ELSE {"missing"}) \cup (IF to = {} THEN {} ELSE {"current"})
           grp == IF op[o].request.kind = "group.delete" /\ row.group = p.group THEN 0 ELSE row.group
           a == NoRule(r)
           b == [row EXCEPT !.targets = to, !.box = box, !.state = "unknown"]
           c == [row EXCEPT !.targets = to, !.observed = to, !.box = box, !.state = "synced", !.rows = rows]
           d == [row EXCEPT !.group = grp]
<1>1. row \in RuleRow /\ row.rev \in Nat /\ row.rows \in ResourceRows /\ row.group \in OfGroup
  BY RuleRowIs DEF LocalTypes
<1>2. box \in OfBox
  <2>1. op[o].request.box \in OfBox
    BY OpRowFields DEF Request, OfBox
  <2>2. row.box \in OfBox
    BY <1>1, RuleRowIs
  <2> QED
    BY <2>1, <2>2
<1>3. rows \in ResourceRows
  BY DEF ResourceRows
<1>4. r \in R => wanted \in RuleWish /\ to \in Targets
  BY PartTyped DEF RuleWish, Targets
<1>5. grp \in OfGroup
  BY <1>1, RuleRowIs
<1>6. RuleAfter(o, r) = CASE r \in R /\ wanted.delete -> a
                          [] r \in R \cap External /\ ~wanted.delete -> b
                          [] r \in R \ External /\ ~wanted.delete -> c
                          [] r \notin R -> d
  BY DEF RuleAfter
<1>7. R = DOMAIN PartOf(o).rules /\ wanted = PartOf(o).rules[r] /\ row = rule[r]
  OBVIOUS
<1>8. a = [exists |-> FALSE, kind |-> "alias", group |-> 0, box |-> None, rev |-> row.rev, desired |-> {},
           targets |-> {}, observed |-> {}, state |-> "pending", rows |-> {}]
  BY DEF NoRule
<1> HIDE DEF p, R, wanted, to, row, box, rows, grp, a
<1>9. a \in RuleRow /\ ~a.exists
  BY <1>1, <1>8, RuleRowIs
<1>10. to \in Targets => /\ b \in RuleRow /\ b.exists = row.exists /\ b.desired = row.desired /\ b.state = "unknown"
  BY <1>1, <1>2, RuleRowIs
<1>11. to \in Targets => /\ c \in RuleRow /\ c.exists = row.exists /\ c.desired = row.desired /\ c.state = "synced"
  BY <1>1, <1>2, <1>3, RuleRowIs
<1>12. d \in RuleRow /\ SameRule(d, row)
  BY <1>1, <1>5, RuleRowIs DEF SameRule
<1> HIDE DEF b, c, d
<1>13. CASE r \in R /\ wanted.delete
  <2>1. RuleAfter(o, r) = a
    BY <1>6, <1>13
  <2> QED
    BY <1>7, <1>9, <1>13, <2>1
<1>14. CASE r \in R \cap External /\ ~wanted.delete
  <2>1. RuleAfter(o, r) = b
    BY <1>6, <1>14
  <2> QED
    BY <1>4, <1>7, <1>10, <1>14, <2>1
<1>15. CASE r \in R \ External /\ ~wanted.delete
  <2>1. RuleAfter(o, r) = c
    BY <1>6, <1>15
  <2> QED
    BY <1>4, <1>7, <1>11, <1>15, <2>1
<1>16. CASE r \notin R
  <2>1. RuleAfter(o, r) = d
    BY <1>6, <1>16
  <2> QED
    BY <1>7, <1>12, <1>16, <2>1
<1> QED
  BY <1>13, <1>14, <1>15, <1>16

(* What a synchronisation makes of an address. *)
LEMMA ComparedTyped ==
  ASSUME LocalTypes, RemoteTypes, NEW r \in Rules
  PROVE  /\ Compared(r) \in RuleRow /\ Compared(r).exists = rule[r].exists /\ Compared(r).desired = rule[r].desired
         /\ Compared(r).state = "synced" =>
              IF "current" \in rule[r].rows THEN remote[r] = rule[r].desired ELSE rule[r].state = "synced"
<1> DEFINE row == rule[r]
           there == remote[r]
           lost == IF "missing" \in row.rows THEN [row EXCEPT !.state = "unknown", !.rev = @ + 1] ELSE row
           next == IF there = row.desired THEN "synced" ELSE "error"
           new == [lost EXCEPT !.observed = there, !.state = next, !.rev = @ + 1]
<1>1. row \in RuleRow /\ row.rev \in Nat /\ row.rev + 1 \in Nat /\ there \in Targets
  BY RuleRowIs DEF LocalTypes, RemoteTypes, Targets
<1>2. Compared(r) = IF "current" \notin row.rows \/ (lost.observed = there /\ lost.state = next) THEN lost ELSE new
  BY DEF Compared
<1>3. row = rule[r] /\ there = remote[r]
  OBVIOUS
<1> HIDE DEF row, there
<1>4. /\ lost \in RuleRow /\ lost.exists = row.exists /\ lost.desired = row.desired
      /\ lost.state = "synced" => row.state = "synced"
  BY <1>1, RuleRowIs
<1>5. next \in RuleStates /\ (next = "synced" => there = row.desired)
  BY RuleRowIs
<1> HIDE DEF lost, next
<1>6. lost.rev \in Nat /\ lost.rev + 1 \in Nat
  BY <1>4, RuleRowIs
<1>7. new \in RuleRow /\ new.exists = lost.exists /\ new.desired = lost.desired /\ new.state = next
  BY <1>1, <1>4, <1>5, <1>6, RuleRowIs
<1> HIDE DEF new
<1> QED
  BY <1>2, <1>3, <1>4, <1>5, <1>7

(* What an import makes of an address. *)
LEMMA ImportedTyped ==
  ASSUME LocalTypes, RemoteTypes, NEW r \in Rules, snap[r].targets # {}
  PROVE  /\ Imported(r) \in RuleRow
         /\ Imported(r).state = "synced" => Imported(r).desired = snap[r].targets
         /\ rule[r].exists => Imported(r).desired = rule[r].desired
<1> DEFINE row == rule[r]
           seen == snap[r].targets
           rows == row.rows \cup {IF snap[r].live THEN "current" ELSE "stale"}
           state == IF row.desired = seen THEN "synced" ELSE "error"
           box == IF Cardinality(seen) = 1 THEN CHOOSE b \in seen : TRUE ELSE None
           old == [row EXCEPT !.observed = seen, !.rows = rows, !.state = state]
           new == [exists |-> TRUE, kind |-> "alias", group |-> 0, rev |-> row.rev + 1, desired |-> seen, targets |-> seen,
                   observed |-> seen, state |-> "synced", rows |-> rows \ {"missing"}, box |-> box]
<1>1. row \in RuleRow /\ row.rev \in Nat /\ row.rev + 1 \in Nat /\ row.rows \in ResourceRows /\ seen \in Targets /\ seen # {}
  BY RuleRowIs DEF LocalTypes, RemoteTypes, Targets
<1>2. rows \in ResourceRows /\ rows \ {"missing"} \in ResourceRows
  BY <1>1 DEF ResourceRows
<1>3. box \in OfBox
  <2>1. (CHOOSE b \in seen : TRUE) \in seen
    BY <1>1
  <2> QED
    BY <1>1, <2>1 DEF OfBox, Targets
<1>4. state \in RuleStates /\ (state = "synced" => row.desired = seen)
  BY RuleRowIs
<1>5. Imported(r) = IF row.exists THEN old ELSE new
  BY DEF Imported
<1>6. row = rule[r] /\ seen = snap[r].targets
  OBVIOUS
<1> HIDE DEF row, seen, rows, state, box
<1>7. old \in RuleRow /\ old.desired = row.desired /\ old.state = state
  BY <1>1, <1>2, <1>4, RuleRowIs
<1>8. new \in RuleRow /\ new.desired = seen /\ new.state = "synced"
  BY <1>1, <1>2, <1>3, RuleRowIs
<1> HIDE DEF old, new
<1> QED
  BY <1>4, <1>5, <1>6, <1>7, <1>8

(* What giving up an operation makes of an address. *)
LEMMA GivenUpRule ==
  ASSUME LocalTypes, NEW r \in Rules
  PROVE  [rule[r] EXCEPT !.state = "unknown"] \in RuleRow /\ [rule[r] EXCEPT !.state = "unknown"].state = "unknown"
         /\ [rule[r] EXCEPT !.state = "unknown"].desired = rule[r].desired
<1>1. rule[r] \in RuleRow
  BY DEF LocalTypes
<1> QED
  BY <1>1, RuleRowIs

-----------------------------------------------------------------------------
(* Every action keeps the types. *)

\* Nothing that the properties of addresses look at changes, or of members and mailboxes.
RulesStay == UNCHANGED <<rule, remote, touched>>
OwnersStay == UNCHANGED <<member, mailbox>>

(* A number below its bound may be counted up. *)
LEMMA Counted ==
  ASSUME NEW n, NEW M, n \in 0..M, M \in Nat, n < M
  PROVE  n + 1 \in 0..M
OBVIOUS

(* The bounds are numbers. *)
LEMMA BoundsTyped == MaxTrouble \in Nat /\ MaxForeign \in Nat /\ MaxReads \in Nat
BY BoundsAreNat

(* One operation records the outcome of its calls. *)
LEMMA StagesTyped ==
  ASSUME OpTypes, NEW o \in Ops, NEW f \in [Rules -> Stages], stage' = [stage EXCEPT ![o] = f]
  PROVE  stage' \in [Ops -> [Rules -> Stages]] /\ stage'[o] = f /\ \A p \in Ops \ {o} : stage'[p] = stage[p]
BY DEF OpTypes

(* No call was made. *)
LEMMA UntriedTyped == Untried \in [Rules -> Stages]
BY DEF Untried, Stages

(* The steps that move an execution on keep the types. *)
LEMMA PacesTypes ==
  ASSUME Types, WellFormed, NEW o \in Ops, Paces(o)
  PROVE  Types'
<1>1. GoesOn(o) /\ UNCHANGED <<member, mailbox, group, rule, remote, snap, history>>
  BY PacesGoesOn DEF Types
<1>2. LocalTypes' /\ RemoteTypes'
  BY <1>1 DEF Types, LocalTypes, RemoteTypes
<1>3. BoundTypes'
  <2>1. trouble' = trouble \/ (trouble < MaxTrouble /\ trouble' = trouble + 1)
    BY DEF Paces, Start, BeginPart, Stop, Mismatch, Conflict, Reconcile, Retry, bounds
  <2>2. UNCHANGED <<foreign, reads>>
    BY DEF Paces, Start, BeginPart, Stop, Mismatch, Conflict, Reconcile, Retry, bounds
  <2>3. trouble' \in 0..MaxTrouble
    BY <2>1, Counted, BoundsTyped DEF Types, BoundTypes
  <2> QED
    BY <1>1, <2>2, <2>3 DEF Types, BoundTypes, history
<1>4. stage' \in [Ops -> [Rules -> Stages]]
  <2>1. CASE Reconcile(o)
    <3> DEFINE f == [r \in Rules |-> Outcome(o, r)]
    <3>1. f \in [Rules -> Stages]
      <4>1. \A r \in Rules : stage[o][r] \in Stages
        BY DEF Types, OpTypes
      <4>2. \A r \in Rules : Outcome(o, r) \in {"deleted", "none", "created", "creating"} \/ Outcome(o, r) = stage[o][r]
        BY DEF Outcome
      <4> QED
        BY <4>1, <4>2 DEF Stages
    <3>2. stage' = [stage EXCEPT ![o] = f]
      BY <2>1 DEF Reconcile
    <3> HIDE DEF f
    <3> QED
      BY <3>1, <3>2, StagesTyped DEF Types
  <2>2. CASE ~Reconcile(o)
    <3>1. stage' = stage
      BY <2>2 DEF Paces, Start, BeginPart, Stop, Mismatch, Conflict, Retry
    <3> QED
      BY <3>1 DEF Types, OpTypes
  <2> QED
    BY <2>1, <2>2
<1> QED
  BY <1>1, <1>2, <1>3, <1>4 DEF Types, OpTypes, GoesOn, OnlyOp

RemoteCall(o) == RemoteDelete(o) \/ RemoteCreate(o)

(* The next address of a part is one of those that are not handled. *)
LEMMA NextRuleTyped ==
  ASSUME OpTypes, WellFormed, NEW o \in Ops, op[o].part # None, Unhandled(o) # {}
  PROVE  NextRule(o) \in Unhandled(o) /\ NextRule(o) \in Rules
<1> DEFINE gone == {r \in Unhandled(o) : PartOf(o).rules[r].delete}
           S == IF gone = {} THEN Unhandled(o) ELSE gone
<1>1. Unhandled(o) \subseteq Rules
  BY PartTyped DEF Unhandled
<1>2. S \subseteq Unhandled(o) /\ S # {}
  OBVIOUS
<1>3. NextRule(o) = Lowest(S)
  BY DEF NextRule
<1> HIDE DEF S
<1>4. Lowest(S) \in S
  BY <1>1, <1>2, IndicesAreNat, LowestChosen
<1> QED
  BY <1>1, <1>2, <1>3, <1>4

(* A call concerns one address, which is not handled yet. *)
LEMMA RemoteCallStep ==
  ASSUME Types, WellFormed, NEW o \in Ops, RemoteCall(o)
  PROVE  /\ Types' /\ GoesOn(o) /\ op[o].part # None /\ op'[o].done = op[o].done
         /\ UNCHANGED <<member, mailbox, group, history>>
         /\ \A s \in Rules : SameRule(rule'[s], rule[s])
         /\ \A p \in Ops \ {o} : stage'[p] = stage[p]
         /\ NextRule(o) \in Unhandled(o)
         /\ \A s \in Rules \ {NextRule(o)} : remote'[s] = remote[s] /\ stage'[o][s] = stage[o][s]
<1> DEFINE r == NextRule(o)
<1>1. Working(o) /\ Unhandled(o) # {} /\ op[o].part # None /\ op[o].status = "running"
  BY DEF RemoteCall, RemoteDelete, RemoteCreate, Working, Running
<1>2. r \in Unhandled(o) /\ r \in Rules
  BY <1>1, NextRuleTyped DEF Types
<1>3. UNCHANGED <<member, mailbox, group, history, foreign, reads>>
  BY DEF RemoteCall, RemoteDelete, RemoteCreate, localVars
<1>4. op' = op \/ op' = [op EXCEPT ![o].status = "unknown", ![o].part = None]
  BY DEF RemoteCall, RemoteDelete, RemoteCreate
<1>5. \E s \in Stages : stage' = [stage EXCEPT ![o][r] = s]
  <2>1. CASE RemoteDelete(o)
    <3>1. stage' = [stage EXCEPT ![o][r] = "deleted"] \/ stage' = [stage EXCEPT ![o][r] = "deleting"]
      BY <2>1 DEF RemoteDelete
    <3> HIDE DEF r
    <3> QED
      BY <3>1 DEF Stages
  <2>2. CASE RemoteCreate(o)
    <3>1. stage' = [stage EXCEPT ![o][r] = "created"] \/ stage' = [stage EXCEPT ![o][r] = "creating"]
      BY <2>2 DEF RemoteCreate
    <3> HIDE DEF r
    <3> QED
      BY <3>1 DEF Stages
  <2> QED
    BY <2>1, <2>2 DEF RemoteCall
<1>6. \E t \in SUBSET Mailboxes : remote' = [remote EXCEPT ![r] = t]
  <2>0. remote \in [Rules -> SUBSET Mailboxes] /\ remote = [remote EXCEPT ![r] = remote[r]]
    BY <1>2 DEF Types, RemoteTypes
  <2>1. CASE RemoteDelete(o)
    <3>1. remote' = remote \/ remote' = [remote EXCEPT ![r] = {}]
      BY <2>1 DEF RemoteDelete
    <3> HIDE DEF r
    <3> QED
      BY <2>0, <3>1, <1>2
  <2>2. CASE RemoteCreate(o)
    <3>1. remote' = remote \/ remote' = [remote EXCEPT ![r] = PartOf(o).rules[r].targets]
      BY <2>2 DEF RemoteCreate
    <3>2. PartOf(o).rules[r].targets \subseteq Mailboxes
      <4>1. r \in DOMAIN PartOf(o).rules
        BY <1>2 DEF Unhandled
      <4> QED
        BY <4>1, <1>1, PartTyped DEF Types, RuleWish
    <3> HIDE DEF r
    <3> QED
      BY <2>0, <3>1, <3>2, <1>2
  <2> QED
    BY <2>1, <2>2 DEF RemoteCall
<1>7. \/ rule' = rule /\ snap' = snap
      \/ rule' = [rule EXCEPT ![r].rows = Outdated(@)] /\ snap' = [snap EXCEPT ![r].live = FALSE]
  BY DEF RemoteCall, RemoteDelete, RemoteCreate, localVars
<1>8. trouble' = trouble \/ (trouble < MaxTrouble /\ trouble' = trouble + 1)
  BY DEF RemoteCall, RemoteDelete, RemoteCreate
<1> HIDE DEF r
<1>9. /\ stage' \in [Ops -> [Rules -> Stages]] /\ \A p \in Ops \ {o} : stage'[p] = stage[p]
      /\ \A s \in Rules \ {r} : stage'[o][s] = stage[o][s]
  BY <1>2, <1>5 DEF Types, OpTypes
<1>10. /\ remote' \in [Rules -> SUBSET Mailboxes]
       /\ \A s \in Rules \ {r} : remote'[s] = remote[s]
  BY <1>2, <1>6 DEF Types, RemoteTypes
<1>11. rule' \in [Rules -> RuleRow] /\ \A s \in Rules : SameRule(rule'[s], rule[s])
  <2>1. CASE rule' = rule
    BY <2>1 DEF Types, LocalTypes, SameRule
  <2>2. CASE rule' = [rule EXCEPT ![r].rows = Outdated(@)]
    BY <1>2, <2>2, OutdatedRule DEF Types
  <2> QED
    BY <1>7, <2>1, <2>2
<1>12. snap' \in [Rules -> [targets : SUBSET Mailboxes, live : BOOLEAN]]
  <2>1. snap \in [Rules -> [targets : SUBSET Mailboxes, live : BOOLEAN]]
    BY DEF Types, RemoteTypes
  <2> QED
    BY <1>2, <1>7, <2>1
<1>13. BoundTypes'
  <2>1. trouble' \in 0..MaxTrouble
    BY <1>8, Counted, BoundsTyped DEF Types, BoundTypes
  <2> QED
    BY <1>3, <2>1 DEF Types, BoundTypes, history
<1>14. GoesOn(o)
  <2>0. op \in [Ops -> OpRow] /\ op[o] \in OpRow /\ "unknown" \in Statuses /\ None \in Indices \cup {None}
    BY LiveFacts, OpRowFields DEF Types, OpTypes
  <2>1. CASE op' = op
    BY <1>1, <2>0, <2>1, LiveFacts DEF GoesOn, OnlyOp, WellFormed, Asked, Shaped
  <2>2. CASE op' = [op EXCEPT ![o].status = "unknown", ![o].part = None]
    <3>1. OnlyOp(o)
      BY <2>0, <2>2 DEF OnlyOp, OpRow
    <3>2. /\ op'[o].status = "unknown" /\ op'[o].request = op[o].request /\ op'[o].plan = op[o].plan
          /\ op'[o].committed = op[o].committed /\ op'[o].processed = op[o].processed
          /\ op'[o].done = op[o].done /\ op'[o].part = None
      BY <2>0, <2>2 DEF OpRow
    <3>3. /\ op[o].done \subseteq DOMAIN op[o].plan.parts /\ (op[o].processed => op[o].committed)
          /\ ~op[o].committed => op[o].done = {}
      BY DEF WellFormed, Asked, Shaped
    <3> QED
      BY <1>1, <3>1, <3>2, <3>3, LiveFacts, GoesOnFrom DEF Types
  <2> QED
    BY <1>4, <2>1, <2>2
<1>16. op'[o].done = op[o].done
  BY <1>4 DEF Types, OpTypes, OpRow
<1>15. Types'
  BY <1>3, <1>9, <1>10, <1>11, <1>12, <1>13, <1>14 DEF Types, LocalTypes, RemoteTypes, OpTypes, GoesOn, OnlyOp
<1> QED
  BY <1>1, <1>2, <1>3, <1>9, <1>10, <1>11, <1>14, <1>15, <1>16 DEF r

(* When an operation ends as Ends says. *)
LEMMA EndsFrom ==
  ASSUME OpTypes, NEW o \in Ops, NEW s \in {"rejected", "succeeded", "cancelled"},
         op' = [op EXCEPT ![o] = Settled(s)]
  PROVE  Ends(o) /\ Asked(op[o])' /\ Shaped(op[o])' /\ op'[o].status = s
<1>1. Settled(s) \in OpRow /\ Settled(s).status = s /\ Asked(Settled(s)) /\ Shaped(Settled(s))
  BY IdleTyped
<1>2. op \in [Ops -> OpRow]
  BY DEF OpTypes
<1> DEFINE x == Settled(s)
<1> HIDE DEF x
<1>3. op' = [op EXCEPT ![o] = x] /\ x \in OpRow /\ x.status = s /\ Asked(x) /\ Shaped(x)
  BY <1>1 DEF x
<1>4. OnlyOp(o) /\ op'[o] = x
  BY <1>2, <1>3 DEF OnlyOp
<1>5. Asked(op[o])' /\ Shaped(op[o])'
  BY <1>3, <1>4
<1> QED
  BY <1>3, <1>4, <1>5 DEF Ends, x

\* Actions that end an operation and leave every row alone, or those of members.
Closes(o) == Refuse(o) \/ Confirm(o) \/ Finish(o)

(* Requests that are refused, confirmed or finished. *)
LEMMA ClosesStep ==
  ASSUME Types, WellFormed, NEW o \in Ops, Closes(o)
  PROVE  /\ Types' /\ Ends(o) /\ Asked(op[o])' /\ Shaped(op[o])'
         /\ UNCHANGED <<mailbox, group, rule, remote, snap, history>>
         /\ \A p \in Ops \ {o} : stage'[p] = stage[p]
<1>1. UNCHANGED <<mailbox, group, rule, remote, snap, history, bounds>>
  BY DEF Closes, Refuse, Confirm, Finish, localVars
<1>2. op' = [op EXCEPT ![o] = Settled("rejected")] \/ op' = [op EXCEPT ![o] = Settled("succeeded")]
  BY DEF Closes, Refuse, Confirm, Finish
<1>3. Ends(o) /\ Asked(op[o])' /\ Shaped(op[o])'
  BY <1>2, EndsFrom DEF Types
<1>4. stage' = stage \/ stage' = [stage EXCEPT ![o] = Untried]
  BY DEF Closes, Refuse, Confirm, Finish
<1>5. stage' \in [Ops -> [Rules -> Stages]] /\ \A p \in Ops \ {o} : stage'[p] = stage[p]
  BY <1>4, StagesTyped, UntriedTyped DEF Types, OpTypes
<1>6. member' \in [Members -> MemberRow]
  <2>0. member \in [Members -> MemberRow]
    BY DEF Types, LocalTypes
  <2>1. CASE member' = member
    BY <2>0, <2>1
  <2>2. CASE member' # member
    <3> DEFINE m == op[o].request.member
    <3>1. Finish(o) /\ op[o].request.kind = "member.create" /\ member' = [member EXCEPT ![m] = [status |-> Enabled(m), rev |-> @.rev + 1]]
      BY <2>2 DEF Closes, Refuse, Confirm, Finish, localVars
    <3>2. op[o].status = "running"
      BY <3>1 DEF Finish, AllDone, Between, Running
    <3>3. m \in Members
      BY <3>1, <3>2, LiveFacts DEF WellFormed, Asked, Fits
    <3> HIDE DEF m
    <3>4. Enabled(m) \in {"invited", "active"} /\ member[m].rev + 1 \in Nat
      BY <2>0, <3>3 DEF Enabled, MemberRow
    <3>5. [status |-> Enabled(m), rev |-> member[m].rev + 1] \in MemberRow
      BY <3>4 DEF MemberRow
    <3> QED
      BY <2>0, <3>1, <3>5
  <2> QED
    BY <2>1, <2>2
<1>7. Types'
  BY <1>1, <1>3, <1>5, <1>6 DEF Types, LocalTypes, RemoteTypes, BoundTypes, OpTypes, Ends, OnlyOp, history, bounds
<1> QED
  BY <1>1, <1>3, <1>5, <1>7

(* The end of an offboarding, or its wait for reports. *)
LEMMA FinishOffboardStep ==
  ASSUME Types, WellFormed, NEW o \in Ops, FinishOffboard(o)
  PROVE  /\ Types' /\ Asked(op[o])' /\ Shaped(op[o])'
         /\ \/ GoesOn(o) /\ stage' = stage /\ op'[o].done = op[o].done
            \/ Ends(o) /\ op[o].committed /\ Offboards(o)
         /\ UNCHANGED <<localVars, remote, snap, history>>
         /\ \A p \in Ops \ {o} : stage'[p] = stage[p]
<1>1. UNCHANGED <<localVars, remote, snap, history, bounds>> /\ op[o].committed /\ op[o].status = "running" /\ Offboards(o)
  BY DEF FinishOffboard, AllDone, Between, Running
<1>2. CASE op' = [op EXCEPT ![o].processed = TRUE, ![o].status = "needs_action"] /\ UNCHANGED stage
  <2>0. /\ op \in [Ops -> OpRow] /\ op[o] \in OpRow /\ "needs_action" \in Statuses
        /\ op[o].done \subseteq DOMAIN op[o].plan.parts
        /\ op[o].part # None => op[o].part \in DOMAIN op[o].plan.parts \ op[o].done /\ op[o].committed
    BY LiveFacts, OpRowFields DEF Types, OpTypes, WellFormed, Shaped
  <2>1. OnlyOp(o)
    BY <1>2, <2>0 DEF OnlyOp, OpRow
  <2>2. /\ op'[o].status = "needs_action" /\ op'[o].request = op[o].request /\ op'[o].plan = op[o].plan
        /\ op'[o].committed = op[o].committed
        /\ op'[o].done = op[o].done /\ op'[o].part = op[o].part
    BY <1>2, <2>0 DEF OpRow
  <2>3. GoesOn(o)
    BY <1>1, <2>0, <2>1, <2>2, LiveFacts, GoesOnFrom DEF Types
  <2>4. Types'
    BY <1>1, <1>2, <2>1 DEF Types, LocalTypes, RemoteTypes, BoundTypes, OpTypes, OnlyOp, localVars, history, bounds
  <2> QED
    BY <1>1, <1>2, <2>2, <2>3, <2>4 DEF GoesOn
<1>3. CASE op' = [op EXCEPT ![o] = Settled("succeeded")] /\ stage' = [stage EXCEPT ![o] = Untried]
  <2>1. Ends(o) /\ Asked(op[o])' /\ Shaped(op[o])'
    BY <1>3, EndsFrom DEF Types
  <2>2. stage' \in [Ops -> [Rules -> Stages]] /\ \A p \in Ops \ {o} : stage'[p] = stage[p]
    BY <1>3, StagesTyped, UntriedTyped DEF Types
  <2>3. Types'
    BY <1>1, <2>1, <2>2 DEF Types, LocalTypes, RemoteTypes, BoundTypes, OpTypes, Ends, OnlyOp, localVars, history, bounds
  <2> QED
    BY <1>1, <2>1, <2>2, <2>3
<1> QED
  BY <1>2, <1>3 DEF FinishOffboard

(* An operation that is given up leaves its addresses, or shows that their *)
(* state is not known.                                                     *)
LEMMA CancelStep ==
  ASSUME Types, WellFormed, NEW o \in Ops, Cancel(o)
  PROVE  /\ Types' /\ Ends(o) /\ Asked(op[o])' /\ Shaped(op[o])' /\ op[o].status \in Live
         /\ op[o].request.kind = "member.offboard" => op[o].committed
         /\ UNCHANGED <<member, mailbox, group, remote, touched>>
         /\ op'[o].status = "cancelled"
         /\ \A p \in Ops \ {o} : stage'[p] = stage[p]
         /\ \A r \in Rules : /\ rule'[r].desired = rule[r].desired
                             /\ rule'[r] = rule[r] \/ rule'[r].state = "unknown"
<1>1. UNCHANGED <<member, mailbox, group, remote, snap, bounds, touched, missed>>
  BY DEF Cancel
<1>2. op' = [op EXCEPT ![o] = Settled("cancelled")] /\ stage' = [stage EXCEPT ![o] = Untried]
  BY DEF Cancel
<1>3. Ends(o) /\ Asked(op[o])' /\ Shaped(op[o])' /\ op'[o].status = "cancelled"
  BY <1>2, EndsFrom DEF Types
<1>4. stage' \in [Ops -> [Rules -> Stages]] /\ \A p \in Ops \ {o} : stage'[p] = stage[p]
  BY <1>2, StagesTyped, UntriedTyped DEF Types
<1>5. rule' = [r \in Rules |-> rule'[r]] /\ \A r \in Rules : rule'[r] = rule[r] \/ rule'[r] = [rule[r] EXCEPT !.state = "unknown"]
  BY DEF Cancel
<1>6. ASSUME NEW r \in Rules
      PROVE  rule'[r] \in RuleRow /\ rule'[r].desired = rule[r].desired /\ (rule'[r] = rule[r] \/ rule'[r].state = "unknown")
  <2>1. CASE rule'[r] = rule[r]
    BY <2>1 DEF Types, LocalTypes
  <2>2. CASE rule'[r] = [rule[r] EXCEPT !.state = "unknown"]
    BY <2>2, GivenUpRule DEF Types
  <2> QED
    BY <1>5, <2>1, <2>2
<1>7. rule' \in [Rules -> RuleRow]
  BY <1>5, <1>6
<1>8. abandoned' \subseteq Groups
  <2>1. \A k \in DOMAIN op[o].plan.parts : op[o].plan.parts[k].group \in Groups \cup {0}
    BY OpRowFields, RulesOfTyped DEF Types, PartRow
  <2>2. abandoned' = abandoned \cup ({op[o].plan.parts[k].group : k \in DOMAIN op[o].plan.parts \ op[o].done} \ {0})
    BY DEF Cancel
  <2>3. abandoned \subseteq Groups
    BY DEF Types, BoundTypes
  <2> QED
    BY <2>1, <2>2, <2>3
<1>9. Types'
  BY <1>1, <1>3, <1>4, <1>7, <1>8 DEF Types, LocalTypes, RemoteTypes, BoundTypes, OpTypes, Ends, OnlyOp, bounds
<1>10. op[o].status \in Live /\ (op[o].request.kind = "member.offboard" => op[o].committed)
  BY LiveFacts DEF Cancel, Offboards, WellFormed, Asked
<1> QED
  BY <1>1, <1>3, <1>4, <1>6, <1>9, <1>10

(* The commit of a part: the addresses are shown as in step. *)
LEMMA PartCommitStep ==
  ASSUME Types, WellFormed, NEW o \in Ops, PartCommit(o)
  PROVE  /\ Types' /\ Asked(op[o])' /\ Shaped(op[o])' /\ op[o].part # None /\ op[o].status = "running"
         /\ UNCHANGED <<member, mailbox, remote>> /\ AsPlanned(o) /\ Unhandled(o) = {}
         /\ touched' = touched \ DOMAIN PartOf(o).rules
         /\ \A r \in Rules : rule'[r] = RuleAfter(o, r)
         /\ \/ GoesOn(o) /\ op[o].request.kind \notin Routes /\ op'[o].done = op[o].done \cup {op[o].part} /\ stage' = stage
            \/ Ends(o) /\ op[o].request.kind \in Routes /\ \A p \in Ops \ {o} : stage'[p] = stage[p]
<1>1. /\ op[o].part # None /\ op[o].status = "running" /\ AsPlanned(o) /\ Unhandled(o) = {}
      /\ UNCHANGED <<member, mailbox, remote, snap, bounds>>
      /\ touched' = touched \ DOMAIN PartOf(o).rules
      /\ rule' = [r \in Rules |-> RuleAfter(o, r)] /\ group' = GroupsAfter(o)
      /\ missed' \subseteq missed /\ abandoned' \subseteq abandoned
  BY DEF PartCommit, ReadBack, Working, Running
<1>2. \A r \in Rules : RuleAfter(o, r) \in RuleRow
  BY <1>1, RuleAfterTyped DEF Types
<1>3. rule' \in [Rules -> RuleRow] /\ \A r \in Rules : rule'[r] = RuleAfter(o, r)
  BY <1>1, <1>2
<1>4. PartOf(o) \in PartRow /\ op[o].part \in DOMAIN op[o].plan.parts \ op[o].done
  BY <1>1, PartTyped DEF Types
<1>5. group' \in [Groups -> GroupRow]
  <2> DEFINE g == PartOf(o).group
             t == PartOf(o).team
  <2>1. g \in Groups \cup {0} /\ t \subseteq Members /\ group \in [Groups -> GroupRow]
    BY <1>4 DEF PartRow, Types, LocalTypes
  <2>2. \/ group' = group
        \/ g # 0 /\ group' = [group EXCEPT ![g].exists = FALSE, ![g].team = {}]
        \/ g # 0 /\ group' = [group EXCEPT ![g].rev = @ + 1, ![g].team = t]
    BY <1>1 DEF GroupsAfter
  <2> HIDE DEF g, t
  <2>3. CASE group' = group
    BY <2>1, <2>3
  <2>4. CASE g # 0 /\ group' = [group EXCEPT ![g].exists = FALSE, ![g].team = {}]
    BY <2>1, <2>4 DEF GroupRow
  <2>5. CASE g # 0 /\ group' = [group EXCEPT ![g].rev = @ + 1, ![g].team = t]
    BY <2>1, <2>5 DEF GroupRow
  <2> QED
    BY <2>2, <2>3, <2>4, <2>5
<1>6. CASE op[o].request.kind \in Routes
  <2>1. op' = [op EXCEPT ![o] = Settled("succeeded")] /\ stage' = [stage EXCEPT ![o] = Untried]
    BY <1>6 DEF PartCommit
  <2>2. Ends(o) /\ Asked(op[o])' /\ Shaped(op[o])'
    BY <2>1, EndsFrom DEF Types
  <2>3. stage' \in [Ops -> [Rules -> Stages]] /\ \A p \in Ops \ {o} : stage'[p] = stage[p]
    BY <2>1, StagesTyped, UntriedTyped DEF Types
  <2>4. Types'
    BY <1>1, <1>3, <1>5, <2>2, <2>3 DEF Types, LocalTypes, RemoteTypes, BoundTypes, OpTypes, Ends, OnlyOp, bounds
  <2> QED
    BY <1>1, <1>3, <1>6, <2>2, <2>3, <2>4
<1>7. CASE op[o].request.kind \notin Routes
  <2> DEFINE d == op[o].done \cup {op[o].part}
  <2>1. op' = [op EXCEPT ![o].part = None, ![o].done = d] /\ stage' = stage
    BY <1>7 DEF PartCommit
  <2>2. d \subseteq DOMAIN op[o].plan.parts /\ d \subseteq Indices
    BY <1>4, OpRowFields, PartialApplied DEF WellFormed, Shaped, Types
  <2>3. d = op[o].done \cup {op[o].part}
    OBVIOUS
  <2> HIDE DEF d
  <2>4. /\ op \in [Ops -> OpRow] /\ op[o] \in OpRow /\ None \in Indices \cup {None}
        /\ op[o].committed
    BY <1>1, OpRowFields DEF Types, OpTypes, WellFormed, Shaped
  <2>5. OnlyOp(o)
    BY <2>1, <2>2, <2>4 DEF OnlyOp, OpRow
  <2>6. /\ op'[o].status = op[o].status /\ op'[o].request = op[o].request /\ op'[o].plan = op[o].plan
        /\ op'[o].committed = op[o].committed /\ op'[o].processed = op[o].processed
        /\ op'[o].done = d /\ op'[o].part = None
    BY <2>1, <2>4 DEF OpRow
  <2>7. GoesOn(o)
    BY <1>1, <2>2, <2>4, <2>5, <2>6, LiveFacts, GoesOnFrom DEF Types
  <2>8. Types'
    BY <1>1, <1>3, <1>5, <2>1, <2>5 DEF Types, LocalTypes, RemoteTypes, BoundTypes, OpTypes, OnlyOp, bounds
  <2> QED
    BY <1>1, <1>3, <1>7, <2>1, <2>3, <2>6, <2>7, <2>8 DEF GoesOn
<1> QED
  BY <1>6, <1>7

(* The local change of a mailbox or a member. *)
LEMMA CommitChangeStep ==
  ASSUME Types, WellFormed, NEW o \in Ops, CommitChange(o)
  PROVE  /\ Types' /\ OnlyOp(o) /\ Asked(op[o])' /\ Shaped(op[o])'
         /\ op[o].status = "running" /\ op'[o].status = "running" /\ op[o].request.kind \in Composite
         /\ op'[o].request = op[o].request /\ op'[o].plan = op[o].plan /\ op'[o].committed
         /\ op'[o].done = op[o].done /\ ~op[o].committed
         /\ UNCHANGED <<group, rule, remote, snap, stage, history>>
<1>1. /\ op[o].status = "running" /\ op[o].request.kind \in Composite /\ ~op[o].committed
      /\ op' = [op EXCEPT ![o].committed = TRUE]
      /\ mailbox' = MailboxesAfter(op[o].request) /\ member' = MembersAfter(op[o].request)
      /\ UNCHANGED <<group, rule, remote, snap, stage, bounds, history>>
  BY DEF CommitChange, Uncommitted, Running
<1>2. op \in [Ops -> OpRow] /\ op[o] \in OpRow /\ op[o].request \in Request /\ Asked(op[o]) /\ Shaped(op[o])
  BY OpRowFields DEF Types, OpTypes, WellFormed
<1>3. Fits(op[o].request)
  BY <1>1, <1>2, LiveFacts DEF Asked
<1>4. mailbox' \in [Mailboxes -> MailboxRow] /\ member' \in [Members -> MemberRow]
  BY <1>1, <1>2, <1>3, RowsAfterTyped DEF Types
<1>5. OnlyOp(o)
  BY <1>1, <1>2 DEF OnlyOp, OpRow
<1>6. /\ op'[o].status = op[o].status /\ op'[o].request = op[o].request /\ op'[o].plan = op[o].plan
      /\ op'[o].committed /\ op'[o].processed = op[o].processed
      /\ op'[o].done = op[o].done /\ op'[o].part = op[o].part
  BY <1>1, <1>2 DEF OpRow
<1>7. Asked(op[o])'
  <2>1. op'[o].status = "running" /\ Fits(op'[o].request) /\ op'[o].request.kind \notin Routes /\ Keeping(op'[o].plan.parts)
    BY <1>1, <1>2, <1>3, <1>6 DEF Asked, Composite, Routes, Mutations
  <2> QED
    BY <1>6, <2>1, LiveFacts DEF Asked
<1>8. Shaped(op[o])'
  BY <1>2, <1>6 DEF Shaped
<1>9. Types'
  BY <1>1, <1>4, <1>5 DEF Types, LocalTypes, RemoteTypes, BoundTypes, OpTypes, OnlyOp, bounds, history
<1> QED
  BY <1>1, <1>5, <1>6, <1>7, <1>8, <1>9

(* A request is planned. *)
LEMMA PrepareStep ==
  ASSUME Types, WellFormed, NEW o \in Ops, Prepare(o)
  PROVE  /\ Types' /\ OnlyOp(o) /\ Asked(op[o])' /\ Shaped(op[o])'
         /\ op[o].status = "idle" /\ op'[o].status = "prepared"
         /\ UNCHANGED <<localVars, remote, snap, stage, history>>
         /\ op'[o].request \in RequestsOf[o] /\ Acceptable(op'[o].request)
         /\ op'[o].request \in Request /\ Fits(op'[o].request) /\ op'[o].request.kind \in Composite
         /\ op'[o].plan = ChangePlan(op'[o].request)
<1>1. PICK q \in RequestsOf[o] :
        /\ q.kind \in Composite /\ Acceptable(q)
        /\ op' = [op EXCEPT ![o].status = "prepared", ![o].request = q, ![o].plan = ChangePlan(q)]
  BY DEF Prepare
<1>2. op[o].status = "idle" /\ UNCHANGED <<localVars, remote, snap, stage, bounds, history>>
  BY DEF Prepare
<1>3. q \in Request /\ Fits(q)
  BY RequestsFit
<1> DEFINE plan == ChangePlan(q)
<1>4. /\ plan \in PlanRow /\ Apart(plan.parts) /\ Keeping(plan.parts)
      /\ DOMAIN plan.new.members = DOMAIN plan.old.members
  BY <1>1, <1>3, ChangePlanTyped DEF Types
<1>5. op \in [Ops -> OpRow] /\ op[o] \in OpRow /\ "prepared" \in Statuses /\ op[o] = Idle
  BY <1>2, OpRowFields DEF Types, OpTypes, Statuses, WellFormed, Asked
<1>6. op[o].committed = FALSE /\ op[o].processed = FALSE /\ op[o].part = None /\ op[o].done = {}
  BY <1>5 DEF Idle
<1>7. plan = ChangePlan(q)
  OBVIOUS
<1> HIDE DEF plan
<1>8. op' = [op EXCEPT ![o].status = "prepared", ![o].request = q, ![o].plan = plan]
  BY <1>1, <1>7
<1>9. OnlyOp(o)
  BY <1>3, <1>4, <1>5, <1>8 DEF OnlyOp, OpRow
<1>10. /\ op'[o].status = "prepared" /\ op'[o].request = q /\ op'[o].plan = plan
       /\ op'[o].committed = FALSE /\ op'[o].processed = FALSE /\ op'[o].part = None /\ op'[o].done = {}
  BY <1>5, <1>6, <1>8 DEF OpRow
<1>11. Asked(op[o])' /\ Shaped(op[o])'
  BY <1>1, <1>3, <1>4, <1>10, LiveFacts DEF Asked, Shaped
<1>12. Types'
  BY <1>2, <1>9 DEF Types, LocalTypes, RemoteTypes, BoundTypes, OpTypes, OnlyOp, localVars, bounds, history
<1> QED
  BY <1>1, <1>2, <1>3, <1>7, <1>9, <1>10, <1>11, <1>12

(* What is read from the provider, and what others do there. *)
LEMMA ReadsBounds ==
  ASSUME Types, NEW c, Reads(c), UNCHANGED snap \/ snap' \in [Rules -> [targets : SUBSET Mailboxes, live : BOOLEAN]],
         touched' \subseteq Rules
  PROVE  RemoteTypes' /\ BoundTypes' /\ OpTypes' /\ UNCHANGED <<member, group, remote, op, stage>>
<1>1. UNCHANGED <<member, group, remote, op, stage, trouble, foreign, missed, abandoned>> /\ reads < MaxReads /\ reads' = reads + 1
  BY DEF Reads
<1>2. reads' \in 0..MaxReads
  BY <1>1, Counted, BoundsTyped DEF Types, BoundTypes
<1> QED
  BY <1>1, <1>2 DEF Types, RemoteTypes, BoundTypes, OpTypes

(* A synchronisation. *)
LEMMA SyncStep ==
  ASSUME Types, NEW c \in Connections, Sync(c)
  PROVE  /\ Types' /\ UNCHANGED <<member, mailbox, group, remote, op, stage>> /\ Free({<<"connection", c>>})
         /\ \A r \in Rules : rule'[r] = IF ConnectionOf[r] = c THEN Compared(r) ELSE rule[r]
         /\ touched' = touched \ {r \in Rules : ConnectionOf[r] = c /\ "current" \in rule[r].rows}
<1>1. /\ Reads(c) /\ UNCHANGED <<mailbox, snap>>
      /\ rule' = [r \in Rules |-> IF ConnectionOf[r] = c THEN Compared(r) ELSE rule[r]]
      /\ touched' = touched \ {r \in Rules : ConnectionOf[r] = c /\ "current" \in rule[r].rows}
  BY DEF Sync
<1>2. \A r \in Rules : Compared(r) \in RuleRow /\ rule[r] \in RuleRow
  BY ComparedTyped DEF Types, LocalTypes
<1>3. rule' \in [Rules -> RuleRow]
  BY <1>1, <1>2
<1>4. touched' \subseteq Rules
  BY <1>1 DEF Types, BoundTypes
<1>5. RemoteTypes' /\ BoundTypes' /\ OpTypes' /\ UNCHANGED <<member, group, remote, op, stage>>
  BY <1>1, <1>4, ReadsBounds
<1>6. Types'
  BY <1>1, <1>3, <1>5 DEF Types, LocalTypes
<1> QED
  BY <1>1, <1>5, <1>6 DEF Reads

(* A discovery. *)
LEMMA DiscoverStep ==
  ASSUME Types, NEW c \in Connections, Discover(c)
  PROVE  Types' /\ UNCHANGED <<localVars, remote, op, stage, touched>>
<1>1. /\ Reads(c) /\ UNCHANGED <<mailbox, rule, touched>>
      /\ snap' = [r \in Rules |-> IF ConnectionOf[r] = c THEN [targets |-> remote[r], live |-> TRUE] ELSE snap[r]]
  BY DEF Discover
<1>2. snap' \in [Rules -> [targets : SUBSET Mailboxes, live : BOOLEAN]]
  <2>1. \A r \in Rules : /\ [targets |-> remote[r], live |-> TRUE] \in [targets : SUBSET Mailboxes, live : BOOLEAN]
                         /\ snap[r] \in [targets : SUBSET Mailboxes, live : BOOLEAN]
    BY DEF Types, RemoteTypes
  <2> QED
    BY <1>1, <2>1
<1>3. RemoteTypes' /\ BoundTypes' /\ OpTypes' /\ UNCHANGED <<member, group, remote, op, stage>>
  BY <1>1, <1>2, ReadsBounds DEF Types, BoundTypes
<1> QED
  BY <1>1, <1>3 DEF Types, LocalTypes, localVars

(* The import of an address. *)
LEMMA ImportStep ==
  ASSUME Types, NEW r \in Rules, Import(r)
  PROVE  /\ Types' /\ UNCHANGED <<member, mailbox, group, remote, op, stage>> /\ Free({<<"connection", ConnectionOf[r]>>})
         /\ rule'[r] = Imported(r) /\ \A s \in Rules \ {r} : rule'[s] = rule[s]
         /\ snap[r].targets # {}
         /\ touched' = IF snap[r].targets = remote[r] THEN touched ELSE touched \cup {r}
<1>1. /\ Reads(ConnectionOf[r]) /\ UNCHANGED <<mailbox, snap>> /\ snap[r].targets # {}
      /\ rule' = [rule EXCEPT ![r] = Imported(r)]
      /\ touched' = IF snap[r].targets = remote[r] THEN touched ELSE touched \cup {r}
  BY DEF Import
<1>2. Imported(r) \in RuleRow /\ rule \in [Rules -> RuleRow]
  BY <1>1, ImportedTyped DEF Types, LocalTypes
<1>3. rule' \in [Rules -> RuleRow] /\ rule'[r] = Imported(r) /\ \A s \in Rules \ {r} : rule'[s] = rule[s]
  BY <1>1, <1>2
<1>4. touched' \subseteq Rules
  BY <1>1 DEF Types, BoundTypes
<1>5. RemoteTypes' /\ BoundTypes' /\ OpTypes' /\ UNCHANGED <<member, group, remote, op, stage>>
  BY <1>1, <1>4, ReadsBounds
<1>6. Types'
  BY <1>1, <1>3, <1>5 DEF Types, LocalTypes
<1> QED
  BY <1>1, <1>3, <1>5, <1>6 DEF Reads

(* The import of a mailbox. *)
LEMMA ImportMailboxStep ==
  ASSUME Types, NEW b \in Mailboxes, ImportMailbox(b)
  PROVE  /\ Types' /\ UNCHANGED <<member, group, rule, remote, op, stage, touched>>
         /\ mailbox'[b].owner = None /\ mailbox'[b].rev = mailbox[b].rev + 1
         /\ \A x \in Mailboxes \ {b} : mailbox'[x] = mailbox[x]
<1> DEFINE new == [status |-> "active", kind |-> "personal", owner |-> None, rev |-> mailbox[b].rev + 1]
<1>1. /\ Reads(ConnectionOf[b]) /\ UNCHANGED <<rule, snap, touched>>
      /\ mailbox' = [mailbox EXCEPT ![b] = new]
  BY DEF ImportMailbox
<1>2. new \in MailboxRow /\ mailbox \in [Mailboxes -> MailboxRow]
  BY DEF Types, LocalTypes, MailboxRow, Present
<1>3. new.owner = None /\ new.rev = mailbox[b].rev + 1
  OBVIOUS
<1> HIDE DEF new
<1>4. mailbox' \in [Mailboxes -> MailboxRow] /\ mailbox'[b] = new /\ \A x \in Mailboxes \ {b} : mailbox'[x] = mailbox[x]
  BY <1>1, <1>2
<1>5. RemoteTypes' /\ BoundTypes' /\ OpTypes' /\ UNCHANGED <<member, group, remote, op, stage>>
  BY <1>1, ReadsBounds DEF Types, BoundTypes
<1> QED
  BY <1>1, <1>3, <1>4, <1>5 DEF Types, LocalTypes

(* The end of a set-up gives a mailbox to an administrator. *)
LEMMA SetupStep ==
  ASSUME Types, NEW b \in Mailboxes, NEW m \in Members, CompleteConnectionSetup(b, m)
  PROVE  /\ Types' /\ UNCHANGED <<member, group, rule, remote, op, stage, touched, abandoned>>
         /\ member[m].status = "active" /\ mailbox[b].owner \in {None, m}
         /\ mailbox'[b].owner = m /\ mailbox'[b].rev > mailbox[b].rev
         /\ mailbox'[b].status = mailbox[b].status /\ mailbox'[b].kind = mailbox[b].kind
         /\ \A x \in Mailboxes \ {b} : mailbox'[x] = mailbox[x]
         /\ missed \subseteq missed'
         /\ mailbox[b].owner = None => \A g \in Groups \ missed' : m \notin group[g].team
<1> DEFINE row == mailbox[b]
           new == [row EXCEPT !.owner = m, !.rev = @ + 1]
           told == {g \in Groups : mailbox[b].owner = None /\ m \in group[g].team}
<1>1. /\ member[m].status = "active" /\ row.owner \in {None, m}
      /\ reads < MaxReads /\ reads' = reads + 1
      /\ missed' = missed \cup told
      /\ UNCHANGED <<member, group, rule, remote, snap, op, stage, trouble, foreign, touched, abandoned>>
  BY DEF CompleteConnectionSetup
<1>2. mailbox' = [mailbox EXCEPT ![b] = new]
  BY DEF CompleteConnectionSetup
<1>3. row \in MailboxRow /\ row.rev \in Nat /\ mailbox \in [Mailboxes -> MailboxRow]
  BY DEF Types, LocalTypes, MailboxRow
<1>4. row.rev + 1 > row.rev /\ row.rev + 1 \in Nat
  BY <1>3
<1>5. DOMAIN row = {"status", "kind", "owner", "rev"}
  BY <1>3 DEF MailboxRow
<1>6. row = mailbox[b]
  OBVIOUS
<1> HIDE DEF row
<1>7. new \in MailboxRow
  BY <1>3, <1>4 DEF MailboxRow
<1>8. new.owner = m /\ new.rev = row.rev + 1 /\ new.status = row.status /\ new.kind = row.kind
  BY <1>5
<1> HIDE DEF new
<1>9. mailbox' \in [Mailboxes -> MailboxRow] /\ mailbox'[b] = new /\ \A x \in Mailboxes \ {b} : mailbox'[x] = mailbox[x]
  BY <1>2, <1>3, <1>7
<1>10. reads' \in 0..MaxReads
  BY <1>1, Counted, BoundsTyped DEF Types, BoundTypes
<1>11. missed' \subseteq Groups
  BY <1>1 DEF Types, BoundTypes
<1>12. Types'
  BY <1>1, <1>9, <1>10, <1>11 DEF Types, LocalTypes, RemoteTypes, BoundTypes, OpTypes
<1> QED
  BY <1>1, <1>4, <1>6, <1>8, <1>9, <1>12

(* A rule is changed at the provider by others. *)
LEMMA ForeignStep ==
  ASSUME Types, NEW r \in Rules, Foreign(r)
  PROVE  /\ Types' /\ UNCHANGED <<member, mailbox, group, op, stage>>
         /\ \A s \in Rules : SameRule(rule'[s], rule[s])
         /\ \A s \in Rules \ {r} : remote'[s] = remote[s]
         /\ touched' = touched \cup {r}
<1>1. PICK to \in SUBSET Mailboxes :
        /\ remote' = [remote EXCEPT ![r] = to]
        /\ \/ UNCHANGED <<rule, snap>>
           \/ rule' = [rule EXCEPT ![r].rows = Outdated(@)] /\ snap' = [snap EXCEPT ![r].live = FALSE]
  BY DEF Foreign
<1>2. /\ foreign < MaxForeign /\ foreign' = foreign + 1 /\ touched' = touched \cup {r}
      /\ UNCHANGED <<member, mailbox, group, op, stage, trouble, reads, missed, abandoned>>
  BY DEF Foreign
<1>3. rule' \in [Rules -> RuleRow] /\ \A s \in Rules : SameRule(rule'[s], rule[s])
  <2>1. CASE rule' = rule
    BY <2>1 DEF Types, LocalTypes, SameRule
  <2>2. CASE rule' = [rule EXCEPT ![r].rows = Outdated(@)]
    BY <2>2, OutdatedRule DEF Types
  <2> QED
    BY <1>1, <2>1, <2>2
<1>4. remote' \in [Rules -> SUBSET Mailboxes] /\ \A s \in Rules \ {r} : remote'[s] = remote[s]
  BY <1>1 DEF Types, RemoteTypes
<1>5. snap' \in [Rules -> [targets : SUBSET Mailboxes, live : BOOLEAN]]
  <2>1. snap \in [Rules -> [targets : SUBSET Mailboxes, live : BOOLEAN]]
    BY DEF Types, RemoteTypes
  <2> QED
    BY <1>1, <2>1
<1>6. foreign' \in 0..MaxForeign
  BY <1>2, Counted, BoundsTyped DEF Types, BoundTypes
<1>7. Types'
  BY <1>2, <1>3, <1>4, <1>5, <1>6 DEF Types, LocalTypes, RemoteTypes, BoundTypes, OpTypes
<1> QED
  BY <1>2, <1>3, <1>4, <1>7

-----------------------------------------------------------------------------
(* Locks. *)

(* The locks of a part do not depend on revisions or targets. *)
LEMMA PartKeysSame ==
  ASSUME NEW p, NEW q, p.group = q.group, DOMAIN p.rules = DOMAIN q.rules,
         DOMAIN p.versions.members = DOMAIN q.versions.members, DOMAIN p.versions.boxes = DOMAIN q.versions.boxes
  PROVE  PartKeys(p) = PartKeys(q)
BY DEF PartKeys

(* So a plan that is counted up locks the same. *)
LEMMA BumpedKeys ==
  ASSUME NEW parts \in PFun(Indices, PartRow)
  PROVE  KeysOf(Bumped(parts)) = KeysOf(parts)
<1>1. \A k \in DOMAIN parts : PartKeys(Bumped(parts)[k]) = PartKeys(parts[k])
  BY BumpedTyped, PartKeysSame
<1>2. DOMAIN Bumped(parts) = DOMAIN parts
  BY BumpedTyped
<1> QED
  BY <1>1, <1>2 DEF KeysOf

(* Nor do the locks of the rows a plan was made from. *)
LEMMA OldKeysSame ==
  ASSUME NEW q, NEW old, NEW new, DOMAIN old.members = DOMAIN new.members, DOMAIN old.boxes = DOMAIN new.boxes
  PROVE  OldKeys(q, old) = OldKeys(q, new)
BY DEF OldKeys

(* A plan locks its addresses and their connections. *)
LEMMA KeyOfAddress ==
  ASSUME NEW q, NEW plan, NEW k \in DOMAIN plan.parts, NEW r \in DOMAIN plan.parts[k].rules
  PROVE  <<"address", r>> \in Keys(q, plan) /\ <<"connection", ConnectionOf[r]>> \in Keys(q, plan)
<1>1. <<"address", r>> \in PartKeys(plan.parts[k]) /\ <<"connection", ConnectionOf[r]>> \in PartKeys(plan.parts[k])
  BY DEF PartKeys
<1>2. PartKeys(plan.parts[k]) \subseteq Keys(q, plan)
  <2>1. PartKeys(plan.parts[k]) \subseteq KeysOf(plan.parts)
    BY DEF KeysOf
  <2> QED
    BY <2>1 DEF Keys
<1> QED
  BY <1>1, <1>2

(* A plan locks the members it was made from. *)
LEMMA KeyOfMember ==
  ASSUME NEW q, NEW plan, NEW m \in DOMAIN plan.old.members
  PROVE  <<"member", m>> \in Keys(q, plan)
<1>1. <<"member", m>> \in OldKeys(q, plan.old)
  BY DEF OldKeys
<1> QED
  BY <1>1 DEF Keys

(* What an operation holds. *)
LEMMA HeldIs ==
  ASSUME NEW o \in Ops
  PROVE  /\ Held(o) = IF op[o].status \in Live THEN Keys(op[o].request, op[o].plan) ELSE {}
         /\ Held(o)' = IF op'[o].status \in Live THEN Keys(op'[o].request, op'[o].plan) ELSE {}
BY DEF Held

(* New locks are taken only when nobody has them. *)
LEMMA ExclusiveKept ==
  ASSUME Exclusive, NEW o \in Ops, OnlyOp(o), NEW K, Free(K), Held(o)' \subseteq Held(o) \cup K
  PROVE  Exclusive'
<1>1. \A p \in Ops \ {o} : Held(p)' = Held(p)
  BY HeldIs DEF OnlyOp
<1>2. \A p \in Ops : Held(p) \cap K = {}
  BY DEF Free
<1>3. ASSUME NEW p \in Ops, NEW q \in Ops, p # q PROVE Held(p)' \cap Held(q)' = {}
  <2>1. Held(p) \cap Held(q) = {}
    BY <1>3 DEF Exclusive
  <2> QED
    BY <1>1, <1>2, <1>3, <2>1
<1> QED
  BY <1>3 DEF Exclusive

(* Nobody takes a lock. *)
LEMMA ExclusiveStays ==
  ASSUME Exclusive, NEW o \in Ops, OnlyOp(o), Held(o)' \subseteq Held(o)
  PROVE  Exclusive'
<1>1. Free({})
  BY DEF Free
<1> QED
  BY <1>1, ExclusiveKept

\* Live operations with the same address, connection of an address or member are the same.
LEMMA SameHolder ==
  ASSUME Exclusive, NEW o \in Ops, NEW p \in Ops, op[o].status \in Live, op[p].status \in Live, NEW key,
         key \in Keys(op[o].request, op[o].plan), key \in Keys(op[p].request, op[p].plan)
  PROVE  o = p
<1>1. key \in Held(o) /\ key \in Held(p)
  BY HeldIs
<1> QED
  BY <1>1 DEF Exclusive

(* Whose plan an address is in, nobody else changes it. *)
LEMMA NotFree ==
  ASSUME NEW o \in Ops, op[o].status \in Live, NEW k \in DOMAIN op[o].plan.parts,
         NEW r \in DOMAIN op[o].plan.parts[k].rules, NEW K, Free(K)
  PROVE  <<"address", r>> \notin K /\ <<"connection", ConnectionOf[r]>> \notin K
<1>1. <<"address", r>> \in Held(o) /\ <<"connection", ConnectionOf[r]>> \in Held(o)
  BY KeyOfAddress, HeldIs
<1> QED
  BY <1>1 DEF Free

-----------------------------------------------------------------------------
(* The reservations. *)

\* Operation o takes addresses that nobody has: they wait for its calls, with the targets to come.
Renews(o) ==
  /\ OnlyOp(o) /\ op'[o].status \in Live /\ op'[o].done = {} /\ UNCHANGED <<remote, stage, touched>>
  /\ \A r \in Rules :
       \/ rule'[r] = rule[r] /\ r \notin RulesOf(op'[o].plan.parts)
       \/ /\ rule'[r].state = "pending" /\ \A p \in Ops \ {o} : <<"address", r>> \notin Held(p)
          /\ \A k \in DOMAIN op'[o].plan.parts :
               r \in DOMAIN op'[o].plan.parts[k].rules => rule'[r].desired = op'[o].plan.parts[k].rules[r].targets

(* What a bumped plan asks for is what the addresses are reserved for. *)
LEMMA RenewsReserved ==
  ASSUME LocalTypes, NEW o \in Ops, NEW plan, plan.parts \in PFun(Indices, PartRow), Apart(plan.parts),
         OnlyOp(o), op'[o].status \in Live, op'[o].done = {}, UNCHANGED <<remote, stage, touched>>,
         op'[o].plan.parts = Bumped(plan.parts), rule' = Reserved(plan),
         \A r \in RulesOf(plan.parts) : \A p \in Ops \ {o} : <<"address", r>> \notin Held(p)
  PROVE  Renews(o)
<1> DEFINE parts == plan.parts
           new == op'[o].plan.parts
<1>1. /\ DOMAIN new = DOMAIN parts
      /\ \A k \in DOMAIN parts :
           /\ DOMAIN new[k].rules = DOMAIN parts[k].rules
           /\ \A r \in DOMAIN parts[k].rules : new[k].rules[r].targets = parts[k].rules[r].targets
  BY BumpedTyped
<1>2. RulesOf(new) = RulesOf(parts)
  BY <1>1 DEF RulesOf
<1>3. \A k \in DOMAIN parts : \A r \in DOMAIN parts[k].rules : rule'[r].desired = parts[k].rules[r].targets
  BY ReservedTyped
<1>4. \A r \in Rules : r \notin RulesOf(parts) => rule'[r] = rule[r]
  BY ReservedRow
<1>5. \A r \in RulesOf(parts) : rule'[r].state = "pending"
  BY ReservedTyped
<1>6. \A r \in RulesOf(parts) : \A p \in Ops \ {o} : <<"address", r>> \notin Held(p)
  OBVIOUS
<1>7. new = op'[o].plan.parts
  OBVIOUS
<1> HIDE DEF parts, new
<1>8. \A k \in DOMAIN new : \A r \in DOMAIN new[k].rules : rule'[r].desired = new[k].rules[r].targets
  BY <1>1, <1>3
<1>9. ASSUME NEW r \in Rules
      PROVE  \/ rule'[r] = rule[r] /\ r \notin RulesOf(new)
             \/ /\ rule'[r].state = "pending" /\ \A p \in Ops \ {o} : <<"address", r>> \notin Held(p)
                /\ \A k \in DOMAIN new : r \in DOMAIN new[k].rules => rule'[r].desired = new[k].rules[r].targets
  BY <1>2, <1>4, <1>5, <1>6, <1>8, Zenon
<1> QED
  BY <1>7, <1>9 DEF Renews

(* The addresses of a plan are free if its locks are. *)
LEMMA AddressesFree ==
  ASSUME NEW q, NEW plan, Free(Keys(q, plan)), NEW r \in RulesOf(plan.parts), NEW p \in Ops
  PROVE  <<"address", r>> \notin Held(p)
<1>1. PICK k \in DOMAIN plan.parts : r \in DOMAIN plan.parts[k].rules
  BY DEF RulesOf
<1>2. <<"address", r>> \in Keys(q, plan)
  BY <1>1, KeyOfAddress
<1> QED
  BY <1>2 DEF Free

(* The reservation of a change. *)
LEMMA ReserveStep ==
  ASSUME Types, WellFormed, Exclusive, NEW o \in Ops, Reserve(o)
  PROVE  /\ Types' /\ OnlyOp(o) /\ Asked(op[o])' /\ Shaped(op[o])' /\ Exclusive'
         /\ op[o].status = "prepared" /\ op'[o].status = "queued"
         /\ op'[o].request = op[o].request /\ op'[o].done = {} /\ op[o].request.kind \in Composite
         /\ Renews(o)
         /\ DOMAIN op'[o].plan.old.members = DOMAIN op[o].plan.old.members
         /\ Free(Keys(op[o].request, op[o].plan)) /\ Current(op[o].plan.old)
         /\ op'[o].committed <=> (op[o].request.kind \in Immediate
                                  \/ (op[o].request.kind = "member.create" /\ op[o].request.as = "none"))
         /\ UNCHANGED <<remote, touched>>
         /\ mailbox' = IF op[o].request.kind \in Immediate THEN MailboxesAfter(op[o].request) ELSE mailbox
         /\ member' = IF op[o].request.kind \in Immediate THEN MembersAfter(op[o].request) ELSE Invited(op[o].request)
<1> DEFINE q == op[o].request
           plan == op[o].plan
           create == q.kind = "member.create"
           bef == Bumped(plan.before)
           parts == Bumped(plan.parts)
           old == IF create THEN [plan.old EXCEPT !.members = plan.new.members] ELSE plan.old
           next == [plan EXCEPT !.before = bef, !.parts = parts, !.old = old]
           com == q.kind \in Immediate \/ (q.kind = "member.create" /\ q.as = "none")
<1>1. /\ op[o].status = "prepared" /\ Free(Keys(q, plan)) /\ Current(plan.old)
      /\ rule' = Reserved(plan)
      /\ mailbox' = IF q.kind \in Immediate THEN MailboxesAfter(q) ELSE mailbox
      /\ member' = IF q.kind \in Immediate THEN MembersAfter(q) ELSE Invited(q)
      /\ missed' = missed \cup (ConcernedGroups(q) \ DOMAIN plan.parts)
      /\ UNCHANGED <<group, remote, snap, stage, bounds, touched, abandoned>>
  BY DEF Reserve, Reservable
<1>2. op' = [op EXCEPT ![o].status = "queued", ![o].plan = next, ![o].committed = com]
  BY DEF Reserve
<1>3. /\ op \in [Ops -> OpRow] /\ op[o] \in OpRow /\ q \in Request /\ plan \in PlanRow
      /\ plan.old \in Versions /\ plan.new \in Versions
      /\ plan.before \in PFun(Indices, PartRow) /\ plan.parts \in PFun(Indices, PartRow)
      /\ op[o].done \subseteq DOMAIN plan.parts /\ Asked(op[o]) /\ Shaped(op[o])
  BY OpRowFields DEF Types, OpTypes, WellFormed, Shaped
<1>4. /\ Fits(q) /\ q.kind \in Composite /\ ~op[o].committed /\ ~op[o].processed
      /\ DOMAIN plan.new.members = DOMAIN plan.old.members
      /\ Apart(plan.parts) /\ op[o].part = None /\ op[o].done = {}
  BY <1>1, <1>3 DEF Asked, Shaped
<1>5. /\ bef \in PFun(Indices, PartRow) /\ parts \in PFun(Indices, PartRow)
      /\ DOMAIN parts = DOMAIN plan.parts
      /\ \A k \in DOMAIN parts : DOMAIN parts[k].rules = DOMAIN plan.parts[k].rules
      /\ KeysOf(bef) = KeysOf(plan.before) /\ KeysOf(parts) = KeysOf(plan.parts)
  BY <1>3, BumpedTyped, BumpedKeys
<1>6. old \in Versions /\ DOMAIN old.members = DOMAIN plan.old.members /\ DOMAIN old.boxes = DOMAIN plan.old.boxes
  BY <1>3, <1>4 DEF Versions
<1>7. Keeping(plan.parts) => Keeping(parts)
  BY <1>3, BumpedTyped DEF Keeping
<1>8. Keeping(plan.parts)
  BY <1>3, <1>4 DEF Asked, Composite, Routes, Mutations
<1>9. com \in BOOLEAN
  OBVIOUS
<1>10. Reserved(plan) \in [Rules -> RuleRow]
  BY <1>3, ReservedTyped DEF Types
<1>11. mailbox' \in [Mailboxes -> MailboxRow] /\ member' \in [Members -> MemberRow]
  BY <1>1, <1>3, <1>4, RowsAfterTyped DEF Types, LocalTypes
<1>12. missed' \subseteq Groups
  BY <1>1, <1>3, <1>4, ConcernedTyped DEF Types, BoundTypes
<1>13. q = op[o].request /\ plan = op[o].plan
  OBVIOUS
<1> HIDE DEF bef, parts, old
<1>14. /\ next \in PlanRow /\ next.parts = parts /\ next.old = old /\ next.before = bef
  BY <1>3, <1>5, <1>6 DEF PlanRow
<1> HIDE DEF next, com, q, plan
<1>15. OnlyOp(o)
  BY <1>2, <1>3, <1>9, <1>14, LiveFacts DEF OnlyOp, OpRow
<1>16. /\ op'[o].status = "queued" /\ op'[o].request = q /\ op'[o].plan = next /\ op'[o].committed = com
       /\ op'[o].processed = op[o].processed /\ op'[o].done = op[o].done /\ op'[o].part = op[o].part
  BY <1>2, <1>3, <1>13 DEF OpRow
<1>17. Asked(op[o])'
  <2>1. q.kind \notin Routes
    BY <1>4 DEF Composite, Routes, Mutations
  <2> QED
    BY <1>4, <1>7, <1>8, <1>14, <1>16, <2>1, LiveFacts DEF Asked
<1>18. Apart(parts)
  BY <1>4, <1>5 DEF Apart
<1>19. Shaped(op[o])'
  BY <1>4, <1>5, <1>14, <1>16, <1>18 DEF Shaped
<1>20. Exclusive'
  <2>1. Held(o)' = Keys(q, next)
    BY <1>16, HeldIs, LiveFacts
  <2>2. OldKeys(q, old) = OldKeys(q, plan.old)
    BY <1>6, OldKeysSame
  <2>3. Keys(q, next) = Keys(q, plan)
    BY <1>5, <1>14, <2>2 DEF Keys
  <2> QED
    BY <1>1, <1>15, <2>1, <2>3, ExclusiveKept
<1>21. Types'
  BY <1>1, <1>10, <1>11, <1>12, <1>15 DEF Types, LocalTypes, RemoteTypes, BoundTypes, OpTypes, OnlyOp, bounds
<1>22. op'[o].done = {}
  BY <1>4, <1>16
<1>23. Renews(o)
  <2>1. op'[o].plan.parts = Bumped(plan.parts) /\ op'[o].status \in Live
    BY <1>14, <1>16, LiveFacts DEF parts
  <2>2. \A r \in RulesOf(plan.parts) : \A p \in Ops \ {o} : <<"address", r>> \notin Held(p)
    BY <1>1, AddressesFree
  <2> QED
    BY <1>1, <1>3, <1>4, <1>15, <1>22, <2>1, <2>2, RenewsReserved DEF Types
<1>24. com <=> q.kind \in Immediate \/ (q.kind = "member.create" /\ q.as = "none")
  BY DEF com
<1>25. DOMAIN op'[o].plan.old.members = DOMAIN plan.old.members /\ op'[o].status = "queued" /\ op'[o].request = q
  BY <1>6, <1>14, <1>16
<1>26. op'[o].committed <=> q.kind \in Immediate \/ (q.kind = "member.create" /\ q.as = "none")
  BY <1>16, <1>24, Zenon
<1> QED
  <2>1. /\ op[o].status = "prepared" /\ Free(Keys(q, plan)) /\ Current(plan.old) /\ q.kind \in Composite
        /\ UNCHANGED <<remote, touched>>
        /\ mailbox' = IF q.kind \in Immediate THEN MailboxesAfter(q) ELSE mailbox
        /\ member' = IF q.kind \in Immediate THEN MembersAfter(q) ELSE Invited(q)
    BY <1>1, <1>4
  <2>2. /\ Free(Keys(op[o].request, op[o].plan)) /\ Current(op[o].plan.old) /\ op[o].request.kind \in Composite
        /\ mailbox' = IF op[o].request.kind \in Immediate THEN MailboxesAfter(op[o].request) ELSE mailbox
        /\ member' = IF op[o].request.kind \in Immediate THEN MembersAfter(op[o].request) ELSE Invited(op[o].request)
    BY <2>1 DEF q, plan
  <2>3. /\ op'[o].request = op[o].request /\ DOMAIN op'[o].plan.old.members = DOMAIN op[o].plan.old.members
        /\ op'[o].committed <=> (op[o].request.kind \in Immediate
                                 \/ (op[o].request.kind = "member.create" /\ op[o].request.as = "none"))
    BY <1>25, <1>26 DEF q, plan
  <2> QED
    BY <1>15, <1>17, <1>19, <1>20, <1>21, <1>22, <1>23, <1>25, <2>1, <2>2, <2>3, Zenon

(* Somebody leaves: the mailboxes and the groups that are to follow are    *)
(* locked.                                                                 *)
LEMMA DepartStep ==
  ASSUME Types, WellFormed, Exclusive, NEW o \in Ops, Depart(o)
  PROVE  /\ Types' /\ OnlyOp(o) /\ Asked(op[o])' /\ Shaped(op[o])' /\ Exclusive'
         /\ op[o].status = "idle" /\ op'[o].status \in Live /\ op'[o].done = {} /\ ~op'[o].committed
         /\ op'[o].request.kind = "member.offboard"
         /\ UNCHANGED <<mailbox, group, rule, remote, stage, touched>>
         /\ LET m == op'[o].request.member IN
              /\ m \in Members /\ member[m].status \notin {"absent", "departed"} /\ Free({<<"member", m>>})
              /\ member'[m].status = "departed" /\ member'[m].rev = member[m].rev + 1
              /\ \A x \in Members \ {m} : member'[x] = member[x]
              /\ m \in DOMAIN op'[o].plan.old.members /\ DOMAIN op'[o].plan.old.boxes = Owned(m)
              /\ op'[o].request.as = "handover" /\ Owned(m) # {} => op'[o].request.owner \in DOMAIN op'[o].plan.old.members
              /\ \A r \in Follows(m) : r \in DOMAIN op'[o].plan.parts /\ op'[o].plan.parts[r].group = rule[r].group
<1>1. PICK q \in RequestsOf[o] :
        LET plan == OffboardKeys(OffboardPlan(q))
        IN  /\ q.kind = "member.offboard" /\ member[q.member].status \notin {"absent", "departed"}
            /\ Free(Keys(q, [plan EXCEPT !.before = plan.parts]))
            /\ member' = [member EXCEPT ![q.member] = [status |-> "departed", rev |-> @.rev + 1]]
            /\ op' = [op EXCEPT ![o] = [Idle EXCEPT !.status = "queued", !.request = q,
                                                    !.plan = [plan EXCEPT !.before = plan.parts]]]
  BY DEF Depart
<1>2. op[o].status = "idle" /\ UNCHANGED <<mailbox, group, rule, remote, snap, stage, bounds, history>>
  BY DEF Depart
<1>3. q \in Request /\ Fits(q)
  BY RequestsFit
<1> DEFINE small == OffboardKeys(OffboardPlan(q))
           plan == [small EXCEPT !.before = small.parts]
           row == [Idle EXCEPT !.status = "queued", !.request = q, !.plan = plan]
           m == q.member
           gone == [status |-> "departed", rev |-> member[m].rev + 1]
<1>4. /\ q.kind = "member.offboard" /\ member[m].status \notin {"absent", "departed"} /\ Free(Keys(q, plan))
      /\ member' = [member EXCEPT ![m] = gone] /\ op' = [op EXCEPT ![o] = row]
  BY <1>1
<1>5. /\ small \in PlanRow /\ Apart(small.parts) /\ Keeping(small.parts) /\ plan \in PlanRow
      /\ m \in DOMAIN small.old.members /\ small.old.boxes = [b \in Owned(m) |-> mailbox[b].rev]
      /\ q.as = "handover" /\ Owned(m) # {} => q.owner \in DOMAIN small.old.members
  BY <1>3, <1>4, OffboardPlanTyped DEF Types
<1>24. \A r \in Follows(m) : r \in DOMAIN small.parts /\ small.parts[r].group = rule[r].group
  BY <1>3, <1>4, OffboardPlanTyped DEF Types, Follows
<1>6. m \in Members
  BY <1>3, <1>4 DEF Fits
<1> HIDE DEF small
<1>7. plan.parts = small.parts /\ plan.old = small.old
  BY <1>5 DEF PlanRow
<1> HIDE DEF plan
<1>8. Idle \in OpRow /\ Idle.committed = FALSE /\ Idle.processed = FALSE /\ Idle.part = None /\ Idle.done = {}
  BY IdleTyped DEF Idle
<1>9. /\ row \in OpRow /\ row.status = "queued" /\ row.request = q /\ row.plan = plan /\ row.done = {}
      /\ row.committed = FALSE /\ row.processed = FALSE /\ row.part = None
  <2>1. "queued" \in Statuses
    BY LiveFacts
  <2> QED
    BY <1>3, <1>5, <1>8, <2>1 DEF OpRow
<1> HIDE DEF row
<1>10. member \in [Members -> MemberRow] /\ op \in [Ops -> OpRow]
  BY DEF Types, LocalTypes, OpTypes
<1>11. gone \in MemberRow /\ gone.status = "departed" /\ gone.rev = member[m].rev + 1
  BY <1>6, <1>10 DEF MemberRow
<1> HIDE DEF gone
<1>12. member' \in [Members -> MemberRow] /\ member'[m] = gone /\ \A x \in Members \ {m} : member'[x] = member[x]
  BY <1>4, <1>6, <1>10, <1>11
<1>13. OnlyOp(o) /\ op'[o] = row
  BY <1>4, <1>9, <1>10 DEF OnlyOp
<1>14. Asked(row) /\ Shaped(row)
  BY <1>3, <1>4, <1>5, <1>7, <1>9, LiveFacts DEF Asked, Shaped, Routes
<1>15. Asked(op[o])' /\ Shaped(op[o])'
  BY <1>13, <1>14
<1>16. Exclusive'
  <2>1. Held(o)' = Keys(q, plan)
    BY <1>9, <1>13, HeldIs, LiveFacts
  <2> QED
    BY <1>4, <1>13, <2>1, ExclusiveKept
<1>17. Types'
  BY <1>2, <1>12, <1>13 DEF Types, LocalTypes, RemoteTypes, BoundTypes, OpTypes, OnlyOp, bounds, history
<1>18. Free({<<"member", m>>})
  <2>1. <<"member", m>> \in Keys(q, plan)
    BY <1>5, <1>7, KeyOfMember
  <2> QED
    BY <1>4, <2>1 DEF Free
<1>19. DOMAIN plan.old.boxes = Owned(m)
  BY <1>5, <1>7
<1>20. op'[o].request = q /\ op'[o].plan = plan /\ op'[o].status \in Live /\ op'[o].done = {} /\ ~op'[o].committed
  BY <1>9, <1>13, LiveFacts
<1>21. /\ m \in DOMAIN plan.old.members
       /\ q.as = "handover" /\ Owned(m) # {} => q.owner \in DOMAIN plan.old.members
  BY <1>5, <1>7
<1>22. UNCHANGED <<mailbox, group, rule, remote, stage, touched>>
  BY <1>2 DEF history
<1>23. /\ op'[o].request.kind = "member.offboard"
       /\ LET n == op'[o].request.member IN
              /\ n \in Members /\ member[n].status \notin {"absent", "departed"} /\ Free({<<"member", n>>})
              /\ member'[n].status = "departed" /\ member'[n].rev = member[n].rev + 1
              /\ \A x \in Members \ {n} : member'[x] = member[x]
              /\ n \in DOMAIN op'[o].plan.old.members /\ DOMAIN op'[o].plan.old.boxes = Owned(n)
              /\ op'[o].request.as = "handover" /\ Owned(n) # {} => op'[o].request.owner \in DOMAIN op'[o].plan.old.members
              /\ \A r \in Follows(n) : r \in DOMAIN op'[o].plan.parts /\ op'[o].plan.parts[r].group = rule[r].group
  BY <1>4, <1>6, <1>7, <1>11, <1>12, <1>18, <1>19, <1>20, <1>21, <1>24
<1> QED
  BY <1>2, <1>13, <1>15, <1>16, <1>17, <1>20, <1>22, <1>23

(* The mailboxes and the groups of somebody who left follow. *)
LEMMA HandOverStep ==
  ASSUME Types, WellFormed, Exclusive, NEW o \in Ops, HandOver(o)
  PROVE  /\ Types' /\ OnlyOp(o) /\ Asked(op[o])' /\ Shaped(op[o])' /\ Exclusive' /\ Renews(o)
         /\ op[o].status \in Live /\ op'[o].status \in Live /\ op'[o].committed /\ ~op[o].committed
         /\ op'[o].request = op[o].request /\ op'[o].plan.old = op[o].plan.old /\ Offboards(o)
         /\ UNCHANGED <<member, remote, touched>>
         /\ LET q == op[o].request
                given == DOMAIN op[o].plan.old.boxes
            IN  /\ \A b \in Mailboxes \ given : mailbox'[b] = mailbox[b]
                /\ \A b \in Mailboxes \cap given :
                     /\ mailbox'[b].owner = IF q.as = "handover" THEN q.owner ELSE None
                     /\ mailbox'[b].rev = mailbox[b].rev + 1
                     /\ mailbox[b].owner = q.member
                /\ q.as = "handover" /\ given # {} => member[q.owner].status = "active"
<1> DEFINE q == op[o].request
           plan == op[o].plan
           given == DOMAIN plan.old.boxes
           parts == Bumped(plan.parts)
           next == [plan EXCEPT !.parts = parts]
           listed == {plan.parts[r].group : r \in DOMAIN plan.parts}
           left == {g \in Groups : q.leave /\ q.member \in group[g].team}
<1>1. /\ op[o].status = "running" /\ q.kind = "member.offboard" /\ ~op[o].committed /\ HandoverCurrent(o)
      /\ mailbox' = [b \in Mailboxes |->
                       IF b \notin given THEN mailbox[b]
                       ELSE [owner |-> IF q.as = "handover" THEN q.owner ELSE None,
                             kind |-> IF q.as = "shared" THEN "shared" ELSE "personal",
                             status |-> IF mailbox[b].status = "archived" THEN "archived"
                                        ELSE IF q.as = "suspend" THEN "suspended" ELSE "active",
                             rev |-> mailbox[b].rev + 1]]
      /\ group' = [g \in Groups |-> [group[g] EXCEPT !.rev = IF g \in listed \cup left THEN @ + 1 ELSE @,
                                                     !.team = IF g \in left THEN @ \ {q.member} ELSE @]]
      /\ rule' = Reserved(plan)
      /\ missed' \subseteq missed \cup Groups
      /\ UNCHANGED <<member, remote, snap, stage, bounds, touched, abandoned>>
  BY DEF HandOver
<1>2. op' = [op EXCEPT ![o].committed = TRUE, ![o].plan = next]
  <2>1. op \in [Ops -> OpRow] /\ plan \in PlanRow
    BY OpRowFields DEF Types, OpTypes
  <2>2. op' = [op EXCEPT ![o].committed = TRUE, ![o].plan.parts = parts]
    BY DEF HandOver
  <2> HIDE DEF parts
  <2> QED
    BY <2>1, <2>2 DEF OpRow
<1>3. /\ op \in [Ops -> OpRow] /\ op[o] \in OpRow /\ q \in Request /\ plan \in PlanRow
      /\ plan.parts \in PFun(Indices, PartRow) /\ plan.old \in Versions
      /\ Asked(op[o]) /\ Shaped(op[o]) /\ op[o].status \in Live
  BY <1>1, OpRowFields, LiveFacts DEF Types, OpTypes, WellFormed
<1>4. /\ Fits(q) /\ ~op[o].processed /\ Apart(plan.parts) /\ op[o].part = None /\ op[o].done = {}
      /\ q.kind \notin Routes /\ Keeping(plan.parts)
  BY <1>1, <1>3 DEF Asked, Shaped, Routes
<1>5. /\ parts \in PFun(Indices, PartRow) /\ KeysOf(parts) = KeysOf(plan.parts) /\ DOMAIN parts = DOMAIN plan.parts
      /\ \A k \in DOMAIN parts : /\ DOMAIN parts[k].rules = DOMAIN plan.parts[k].rules
                                 /\ \A r \in DOMAIN parts[k].rules : parts[k].rules[r].delete = plan.parts[k].rules[r].delete
  BY <1>3, BumpedTyped, BumpedKeys
<1>6. Apart(parts) /\ Keeping(parts)
  BY <1>4, <1>5 DEF Apart, Keeping
<1>7. member \in [Members -> MemberRow] /\ mailbox \in [Mailboxes -> MailboxRow] /\ group \in [Groups -> GroupRow]
  BY DEF Types, LocalTypes
<1>8. mailbox' \in [Mailboxes -> MailboxRow]
  <2> DEFINE heir == IF q.as = "handover" THEN q.owner ELSE None
             kind == IF q.as = "shared" THEN "shared" ELSE "personal"
             status(b) == IF mailbox[b].status = "archived" THEN "archived"
                          ELSE IF q.as = "suspend" THEN "suspended" ELSE "active"
  <2>1. heir \in Members \cup {None} /\ kind \in {"personal", "shared"}
    BY <1>3 DEF Request
  <2>2. mailbox' = [b \in Mailboxes |-> IF b \notin given THEN mailbox[b]
                       ELSE [owner |-> heir, kind |-> kind, status |-> status(b), rev |-> mailbox[b].rev + 1]]
    BY <1>1
  <2>3. \A b \in Mailboxes : status(b) \in {"absent"} \cup Present
    BY DEF Present
  <2> HIDE DEF heir, kind, status
  <2>4. ASSUME NEW b \in Mailboxes
        PROVE  [owner |-> heir, kind |-> kind, status |-> status(b), rev |-> mailbox[b].rev + 1] \in MailboxRow
    BY <1>7, <2>1, <2>3 DEF MailboxRow
  <2> HIDE DEF given
  <2> QED
    BY <1>7, <2>2, <2>4
<1>9. group' \in [Groups -> GroupRow]
  <2> DEFINE rev(g) == IF g \in listed \cup left THEN group[g].rev + 1 ELSE group[g].rev
             team(g) == IF g \in left THEN group[g].team \ {q.member} ELSE group[g].team
             new(g) == [group[g] EXCEPT !.rev = rev(g), !.team = team(g)]
  <2>1. group' = [g \in Groups |-> new(g)]
    BY <1>1
  <2> HIDE DEF listed, left, q
  <2>2. \A g \in Groups : rev(g) \in Nat /\ team(g) \subseteq Members
    BY <1>7 DEF GroupRow
  <2> HIDE DEF rev, team
  <2>3. \A g \in Groups : new(g) \in GroupRow
    BY <1>7, <2>2 DEF GroupRow
  <2> HIDE DEF new
  <2> QED
    BY <2>1, <2>3
<1>10. Reserved(plan) \in [Rules -> RuleRow]
  BY <1>3, ReservedTyped DEF Types
<1>11. missed' \subseteq Groups
  BY <1>1 DEF Types, BoundTypes
<1>12. /\ q.as = "handover" /\ given # {} => member[q.owner].status = "active"
       /\ \A b \in given : mailbox[b].owner = q.member
  BY <1>1 DEF HandoverCurrent
<1>13. q = op[o].request /\ plan = op[o].plan /\ given = DOMAIN op[o].plan.old.boxes
  OBVIOUS
<1> HIDE DEF parts, q, plan, given
<1>14. next \in PlanRow /\ next.parts = parts /\ next.old = plan.old /\ next.before = plan.before
  BY <1>3, <1>5 DEF PlanRow
<1>15. next.parts = Bumped(plan.parts)
  BY <1>14 DEF parts
<1> HIDE DEF next
<1>16. OnlyOp(o)
  BY <1>2, <1>3, <1>14 DEF OnlyOp, OpRow
<1>17. /\ op'[o].status = "running" /\ op'[o].request = q /\ op'[o].plan = next /\ op'[o].committed = TRUE
       /\ op'[o].processed = op[o].processed /\ op'[o].done = {} /\ op'[o].part = None
  BY <1>1, <1>2, <1>3, <1>4, <1>13 DEF OpRow
<1>18. Asked(op[o])' /\ Shaped(op[o])'
  BY <1>4, <1>6, <1>14, <1>17, LiveFacts DEF Asked, Shaped
<1>19. Keys(q, next) = Keys(q, plan)
  BY <1>5, <1>14 DEF Keys
<1>20. Held(o) = Keys(q, plan)
  BY <1>3, <1>13, HeldIs
<1>21. Exclusive'
  <2>1. Held(o)' = Keys(q, next)
    BY <1>17, HeldIs, LiveFacts
  <2> QED
    BY <1>16, <1>19, <1>20, <2>1, ExclusiveStays
<1>22. Renews(o)
  <2>1. op'[o].plan.parts = Bumped(plan.parts) /\ op'[o].status \in Live /\ op'[o].done = {}
    BY <1>15, <1>17, LiveFacts
  <2>2. \A r \in RulesOf(plan.parts) : \A p \in Ops \ {o} : <<"address", r>> \notin Held(p)
    <3> SUFFICES ASSUME NEW r \in RulesOf(plan.parts), NEW p \in Ops \ {o} PROVE <<"address", r>> \notin Held(p)
      OBVIOUS
    <3>1. PICK k \in DOMAIN plan.parts : r \in DOMAIN plan.parts[k].rules
      BY DEF RulesOf
    <3>2. <<"address", r>> \in Held(o)
      BY <1>20, <3>1, KeyOfAddress
    <3> QED
      BY <3>2 DEF Exclusive
  <2> QED
    BY <1>1, <1>3, <1>4, <1>16, <2>1, <2>2, RenewsReserved DEF Types
<1>23. Types'
  BY <1>1, <1>8, <1>9, <1>10, <1>11, <1>16 DEF Types, LocalTypes, RemoteTypes, BoundTypes, OpTypes, OnlyOp, bounds
<1>24. \A b \in Mailboxes : /\ b \notin given => mailbox'[b] = mailbox[b]
                            /\ b \in given => /\ mailbox'[b].owner = IF q.as = "handover" THEN q.owner ELSE None
                                              /\ mailbox'[b].rev = mailbox[b].rev + 1
  BY <1>1
<1>25. /\ op[o].status \in Live /\ op'[o].status \in Live /\ op'[o].committed /\ ~op[o].committed
       /\ op'[o].request = op[o].request /\ op'[o].plan.old = op[o].plan.old /\ Offboards(o)
       /\ UNCHANGED <<member, remote, touched>>
  BY <1>1, <1>3, <1>13, <1>14, <1>17, LiveFacts DEF Offboards
<1> QED
  BY <1>12, <1>13, <1>16, <1>18, <1>21, <1>22, <1>23, <1>24, <1>25

\* The plan of a request for a group or an address, its row, and the row of a new address.
SubmitPlan(q) == [NoPlan EXCEPT !.parts = [k \in {q.group} |-> RoutePlan(q)], !.before = [k \in {q.group} |-> RoutePlan(q)]]
CountedUp(q, part) == [part EXCEPT !.rev = IF q.kind = "group.create" THEN @ + 1 ELSE @]
SubmitRow(q) ==
  [Idle EXCEPT !.status = "queued", !.request = q, !.committed = TRUE,
               !.plan = [NoPlan EXCEPT !.parts = [k \in {q.group} |-> CountedUp(q, Bumped(SubmitPlan(q).parts)[k])]]]
NewRow(q, row) ==
  [row EXCEPT !.group = q.group, !.targets = {}, !.observed = {}, !.rows = {},
              !.kind = IF q.group = 0 THEN "alias" ELSE "group",
              !.box = IF q.group = 0 THEN q.box ELSE None]

\* A part is planned as it was asked for.
AsAsked(new, part) ==
  /\ DOMAIN new.rules = DOMAIN part.rules
  /\ \A r \in DOMAIN part.rules :
       new.rules[r].targets = part.rules[r].targets /\ new.rules[r].delete = part.rules[r].delete
  /\ new.group = part.group /\ new.team = part.team /\ new.versions = part.versions

(* The row of a new address keeps what it was reserved for. *)
LEMMA NewRowTyped ==
  ASSUME NEW q \in Request, NEW row \in RuleRow
  PROVE  NewRow(q, row) \in RuleRow /\ NewRow(q, row).desired = row.desired /\ NewRow(q, row).state = row.state
<1> DEFINE g == q.group
           kind == IF q.group = 0 THEN "alias" ELSE "group"
           box == IF q.group = 0 THEN q.box ELSE None
<1>1. g \in OfGroup /\ kind \in RuleKinds /\ box \in OfBox
  BY RuleRowIs DEF Request, OfGroup, OfBox
<1>2. NewRow(q, row) = [row EXCEPT !.group = g, !.targets = {}, !.observed = {}, !.rows = {}, !.kind = kind, !.box = box]
  BY DEF NewRow
<1> HIDE DEF g, kind, box
<1> QED
  BY <1>1, <1>2, RuleRowIs

(* The plan of such a request has one part. *)
LEMMA SubmitPlanTyped ==
  ASSUME LocalTypes, NEW q \in Request, Fits(q), q.kind \in Routes
  PROVE  /\ SubmitPlan(q) \in PlanRow /\ SubmitPlan(q).old = NoRows
         /\ SubmitPlan(q).parts = [k \in {q.group} |-> RoutePlan(q)]
         /\ SubmitPlan(q).before = [k \in {q.group} |-> RoutePlan(q)]
         /\ q.group \in Indices /\ Apart(SubmitPlan(q).parts)
<1> DEFINE ps == [k \in {q.group} |-> RoutePlan(q)]
<1>1. RoutePlan(q) \in PartRow /\ q.group \in Indices
  BY RoutePlanTyped DEF Request, Indices
<1>2. ps \in PFun(Indices, PartRow)
  <2>1. \A k \in {q.group} : ps[k] \in PartRow
    BY <1>1
  <2> QED
    BY <1>1, <2>1, PartialFunction
<1>3. DOMAIN ps = {q.group}
  OBVIOUS
<1>4. SubmitPlan(q) = [NoPlan EXCEPT !.parts = ps, !.before = ps]
  BY DEF SubmitPlan
<1> HIDE DEF ps
<1>5. SubmitPlan(q) \in PlanRow /\ SubmitPlan(q).parts = ps /\ SubmitPlan(q).before = ps /\ SubmitPlan(q).old = NoPlan.old
  BY <1>2, <1>4, NothingTyped DEF PlanRow
<1>6. Apart(ps)
  BY <1>3 DEF Apart
<1> QED
  BY <1>1, <1>5, <1>6 DEF ps, NoPlan

(* Its row asks for the reserved targets, and for no other locks. *)
LEMMA SubmitRowTyped ==
  ASSUME LocalTypes, NEW q \in Request, Fits(q), q.kind \in Routes
  PROVE  LET row == SubmitRow(q)
             parts == SubmitPlan(q).parts
         IN  /\ row \in OpRow /\ row.status = "queued" /\ row.request = q /\ row.committed = TRUE /\ row.done = {}
             /\ Asked(row) /\ Shaped(row) /\ Keys(q, row.plan) \subseteq Keys(q, SubmitPlan(q))
             /\ DOMAIN row.plan.parts = DOMAIN parts
             /\ \A k \in DOMAIN parts : AsAsked(row.plan.parts[k], parts[k])
<1> DEFINE g == q.group
           part == RoutePlan(q)
           plan == SubmitPlan(q)
           parts == plan.parts
           bumped == Bumped(parts)
           last == CountedUp(q, bumped[g])
           ps == [k \in {g} |-> last]
           next == [NoPlan EXCEPT !.parts = ps]
           row == SubmitRow(q)
<1>1. plan \in PlanRow /\ plan.old = NoRows /\ parts = [k \in {g} |-> part] /\ plan.before = [k \in {g} |-> part] /\ g \in Indices
  BY SubmitPlanTyped
<1>2. parts \in PFun(Indices, PartRow) /\ DOMAIN parts = {g} /\ parts[g] = part
  BY <1>1 DEF PlanRow
<1>3. row = [Idle EXCEPT !.status = "queued", !.request = q, !.committed = TRUE, !.plan = next]
  <2>1. [k \in {g} |-> CountedUp(q, bumped[k])] = ps
    OBVIOUS
  <2> QED
    BY <2>1 DEF SubmitRow
<1>4. row = SubmitRow(q) /\ plan = SubmitPlan(q) /\ parts = SubmitPlan(q).parts /\ parts = plan.parts
  OBVIOUS
<1> HIDE DEF plan, parts
<1>5. /\ bumped \in PFun(Indices, PartRow) /\ g \in DOMAIN bumped /\ bumped[g] \in PartRow
      /\ DOMAIN bumped[g].rules = DOMAIN part.rules
      /\ bumped[g].group = part.group /\ bumped[g].versions = part.versions /\ bumped[g].team = part.team
      /\ \A r \in DOMAIN part.rules : /\ bumped[g].rules[r].targets = part.rules[r].targets
                                      /\ bumped[g].rules[r].delete = part.rules[r].delete
  <2>1. bumped \in PFun(Indices, PartRow) /\ DOMAIN bumped = DOMAIN parts /\ g \in DOMAIN parts
    BY <1>2, BumpedTyped
  <2>2. bumped[g] \in PartRow
    BY <2>1, PartialApplied
  <2> QED
    BY <1>2, <2>1, <2>2, BumpedTyped
<1> HIDE DEF bumped, part
<1>6. /\ last \in PartRow /\ last.rules = bumped[g].rules /\ last.group = bumped[g].group /\ last.versions = bumped[g].versions
      /\ last.team = bumped[g].team
  <2> DEFINE n == IF q.kind = "group.create" THEN bumped[g].rev + 1 ELSE bumped[g].rev
  <2>1. n \in Nat
    BY <1>5 DEF PartRow
  <2>2. last = [bumped[g] EXCEPT !.rev = n]
    BY DEF CountedUp
  <2> HIDE DEF n, last
  <2> QED
    BY <1>5, <2>1, <2>2 DEF PartRow
<1> HIDE DEF last, g
<1>7. ps \in PFun(Indices, PartRow)
  <2>1. \A k \in {g} : ps[k] \in PartRow
    BY <1>6
  <2> QED
    BY <1>1, <2>1, PartialFunction
<1>8. DOMAIN ps = {g} /\ ps[g] = last
  OBVIOUS
<1> HIDE DEF ps
<1>9. next \in PlanRow /\ next.parts = ps /\ next.before = NoPlan.before /\ next.old = NoPlan.old
  BY <1>7, NothingTyped DEF PlanRow
<1>10. NoPlan.before = Empty /\ NoPlan.old = NoRows /\ Idle \in OpRow /\ "queued" \in Statuses
  BY IdleTyped, LiveFacts DEF NoPlan
<1>11. Idle.processed = FALSE /\ Idle.part = None /\ Idle.done = {}
  BY DEF Idle
<1> HIDE DEF next, row
<1>12. /\ row \in OpRow /\ row.status = "queued" /\ row.request = q /\ row.plan = next /\ row.committed = TRUE
       /\ row.processed = FALSE /\ row.part = None /\ row.done = {}
  BY <1>3, <1>9, <1>10, <1>11 DEF OpRow
<1>13. Asked(row) /\ Shaped(row)
  <2>1. Apart(ps)
    BY <1>8 DEF Apart
  <2>2. g = q.group
    BY DEF g
  <2>3. q.kind \notin Composite
    BY DEF Routes, Composite, Mutations
  <2> QED
    BY <1>8, <1>9, <1>12, <2>1, <2>2, <2>3, LiveFacts DEF Asked, Shaped
<1>14. Keys(q, next) \subseteq Keys(q, plan)
  <2>1. KeysOf(next.before) = {}
    BY <1>9, <1>10 DEF KeysOf, Empty
  <2>2. PartKeys(last) = PartKeys(part)
    BY <1>5, <1>6, PartKeysSame
  <2>3. KeysOf(next.parts) = KeysOf(parts)
    BY <1>2, <1>8, <1>9, <2>2 DEF KeysOf
  <2>4. OldKeys(q, next.old) = OldKeys(q, plan.old)
    BY <1>1, <1>9, <1>10
  <2> QED
    BY <1>4, <2>1, <2>3, <2>4 DEF Keys
<1>15. /\ DOMAIN ps = DOMAIN parts
       /\ \A k \in DOMAIN parts : AsAsked(ps[k], parts[k])
  BY <1>2, <1>5, <1>6, <1>8 DEF AsAsked
<1> QED
  BY <1>4, <1>9, <1>12, <1>13, <1>14, <1>15

(* A request for a group or an address. *)
LEMMA SubmitStep ==
  ASSUME Types, WellFormed, Exclusive, NEW o \in Ops, Submit(o)
  PROVE  /\ Types' /\ OnlyOp(o) /\ Asked(op[o])' /\ Shaped(op[o])' /\ Exclusive' /\ Renews(o)
         /\ op[o].status = "idle" /\ op'[o].status \in Live /\ op'[o].committed
         /\ op'[o].request.kind \in Routes
         /\ UNCHANGED <<member, mailbox, remote, touched>>
<1>1. PICK q \in RequestsOf[o] :
        /\ q.kind \in Routes /\ Free(Keys(q, SubmitPlan(q)))
        /\ rule' = [r \in Rules |-> IF r \notin {s \in DOMAIN RoutePlan(q).rules : ~rule[s].exists}
                                    THEN Reserved(SubmitPlan(q))[r] ELSE NewRow(q, Reserved(SubmitPlan(q))[r])]
        /\ group' = IF q.kind = "group.create"
                    THEN [group EXCEPT ![q.group] = [exists |-> TRUE, rev |-> @.rev + 1, team |-> {}]] ELSE group
        /\ op' = [op EXCEPT ![o] = SubmitRow(q)]
  BY Zenon DEF Submit, SubmitPlan, SubmitRow, NewRow, CountedUp
<1>2. op[o].status = "idle" /\ UNCHANGED <<member, mailbox, remote, snap, stage, bounds, history>>
  BY DEF Submit
<1>3. q \in Request /\ Fits(q)
  BY RequestsFit
<1> DEFINE plan == SubmitPlan(q)
           row == SubmitRow(q)
           r1 == Reserved(plan)
           new == {s \in DOMAIN RoutePlan(q).rules : ~rule[s].exists}
<1>4. plan \in PlanRow /\ Apart(plan.parts) /\ plan.parts = [k \in {q.group} |-> RoutePlan(q)] /\ q.group \in Groups \cup {0}
  BY <1>1, <1>3, SubmitPlanTyped DEF Types, Request
<1>5. /\ row \in OpRow /\ row.status = "queued" /\ row.request = q /\ row.committed = TRUE /\ row.done = {}
      /\ Asked(row) /\ Shaped(row) /\ Keys(q, row.plan) \subseteq Keys(q, plan)
      /\ DOMAIN row.plan.parts = DOMAIN plan.parts
      /\ \A k \in DOMAIN plan.parts : AsAsked(row.plan.parts[k], plan.parts[k])
  BY <1>1, <1>3, SubmitRowTyped DEF Types
<1>6. new \subseteq RulesOf(plan.parts)
  BY <1>4 DEF RulesOf
<1>7. plan.parts \in PFun(Indices, PartRow)
  BY <1>4 DEF PlanRow
<1>8. /\ r1 \in [Rules -> RuleRow]
      /\ \A r \in RulesOf(plan.parts) : r1[r].state = "pending"
      /\ \A r \in Rules \ RulesOf(plan.parts) : r1[r] = rule[r]
      /\ \A k \in DOMAIN plan.parts : \A r \in DOMAIN plan.parts[k].rules : r1[r].desired = plan.parts[k].rules[r].targets
  BY <1>4, <1>7, ReservedTyped, ReservedRow DEF Types
<1>9. rule' = [r \in Rules |-> IF r \notin new THEN r1[r] ELSE NewRow(q, r1[r])]
  BY <1>1
<1>10. Free(Keys(q, plan)) /\ op' = [op EXCEPT ![o] = row]
  BY <1>1
<1> HIDE DEF plan, row, r1, new
<1>11. ASSUME NEW r \in Rules
       PROVE  /\ rule'[r] \in RuleRow /\ rule'[r].desired = r1[r].desired /\ rule'[r].state = r1[r].state
              /\ r \notin RulesOf(plan.parts) => rule'[r] = rule[r]
  <2>1. r1[r] \in RuleRow
    BY <1>8
  <2>2. NewRow(q, r1[r]) \in RuleRow /\ NewRow(q, r1[r]).desired = r1[r].desired /\ NewRow(q, r1[r]).state = r1[r].state
    BY <1>3, <2>1, NewRowTyped
  <2>3. rule'[r] = IF r \notin new THEN r1[r] ELSE NewRow(q, r1[r])
    BY <1>9
  <2> QED
    BY <1>6, <1>8, <2>1, <2>2, <2>3
<1>12. rule' \in [Rules -> RuleRow]
  <2>1. rule' = [r \in Rules |-> rule'[r]]
    BY <1>9
  <2> QED
    BY <1>11, <2>1
<1>13. op \in [Ops -> OpRow] /\ group \in [Groups -> GroupRow]
  BY DEF Types, OpTypes, LocalTypes
<1>14. group' \in [Groups -> GroupRow]
  <2>1. [exists |-> TRUE, rev |-> group[q.group].rev + 1, team |-> {}] \in GroupRow \/ q.kind # "group.create"
    <3>1. q.kind = "group.create" => q.group \in Groups
      BY <1>3 DEF Fits
    <3> QED
      BY <1>13, <3>1 DEF GroupRow
  <2> QED
    BY <1>1, <1>13, <2>1
<1>15. OnlyOp(o) /\ op'[o] = row
  BY <1>5, <1>10, <1>13 DEF OnlyOp
<1>16. Asked(op[o])' /\ Shaped(op[o])'
  BY <1>5, <1>15
<1>17. Exclusive'
  <2>1. Held(o)' = Keys(q, row.plan)
    BY <1>5, <1>15, HeldIs, LiveFacts
  <2> QED
    BY <1>5, <1>10, <1>15, <2>1, ExclusiveKept
<1>18. Types'
  BY <1>2, <1>12, <1>14, <1>15 DEF Types, LocalTypes, RemoteTypes, BoundTypes, OpTypes, OnlyOp, bounds, history
<1>19. op'[o].status \in Live /\ op'[o].done = {} /\ op'[o].committed /\ op'[o].request.kind \in Routes /\ op'[o].plan = row.plan
  BY <1>1, <1>5, <1>15, LiveFacts
<1>20. Renews(o)
  <2>1. RulesOf(row.plan.parts) = RulesOf(plan.parts)
    BY <1>5 DEF RulesOf, AsAsked
  <2>2. \A r \in RulesOf(plan.parts) : \A p \in Ops \ {o} : <<"address", r>> \notin Held(p)
    BY <1>10, AddressesFree
  <2>3. ASSUME NEW r \in Rules, r \in RulesOf(plan.parts), NEW k \in DOMAIN row.plan.parts, r \in DOMAIN row.plan.parts[k].rules
        PROVE  rule'[r].desired = row.plan.parts[k].rules[r].targets
    BY <1>5, <1>8, <1>11, <2>3 DEF AsAsked
  <2>4. ASSUME NEW r \in Rules, r \in RulesOf(plan.parts) PROVE rule'[r].state = "pending"
    BY <1>8, <1>11, <2>4
  <2>5. ASSUME NEW r \in Rules
        PROVE  \/ rule'[r] = rule[r] /\ r \notin RulesOf(op'[o].plan.parts)
               \/ /\ rule'[r].state = "pending" /\ \A p \in Ops \ {o} : <<"address", r>> \notin Held(p)
                  /\ \A k \in DOMAIN op'[o].plan.parts :
                       r \in DOMAIN op'[o].plan.parts[k].rules => rule'[r].desired = op'[o].plan.parts[k].rules[r].targets
    <3>1. CASE r \in RulesOf(plan.parts)
      BY <1>19, <2>2, <2>3, <2>4, <3>1
    <3>2. CASE r \notin RulesOf(plan.parts)
      BY <1>11, <1>19, <2>1, <3>2
    <3> QED
      BY <3>1, <3>2
  <2> QED
    BY <1>2, <1>15, <1>19, <2>5, Zenon DEF Renews, history
<1> QED
  BY <1>2, <1>15, <1>16, <1>17, <1>18, <1>19, <1>20 DEF history

-----------------------------------------------------------------------------
(* The addresses of operations and what they deliver to. *)

\* An address shown as in step delivers to what is wanted, or was changed by others.
InStep(r) == r \notin External \cup touched /\ rule[r].exists /\ rule[r].state = "synced" => remote[r] = rule[r].desired

\* A step leaves the addresses of p to p.
Spared(p) ==
  \A r \in RulesOf(op[p].plan.parts) :
    /\ rule'[r].desired = rule[r].desired /\ (rule'[r].state = "synced" => rule[r].state = "synced")
    /\ remote'[r] = remote[r] \/ r \in touched'
    /\ r \in touched => r \in touched'

(* Whoever has an address in a plan holds it and its connection. *)
LEMMA HolderOf ==
  ASSUME NEW p \in Ops, op[p].status \in Live, NEW r \in RulesOf(op[p].plan.parts)
  PROVE  <<"address", r>> \in Held(p) /\ <<"connection", ConnectionOf[r]>> \in Held(p)
<1>1. PICK k \in DOMAIN op[p].plan.parts : r \in DOMAIN op[p].plan.parts[k].rules
  BY DEF RulesOf
<1> QED
  BY <1>1, KeyOfAddress, HeldIs

(* No address is in the plans of two operations. *)
LEMMA OneHolder ==
  ASSUME Exclusive, NEW o \in Ops, NEW p \in Ops, op[o].status \in Live, op[p].status \in Live,
         NEW r \in RulesOf(op[o].plan.parts), r \in RulesOf(op[p].plan.parts)
  PROVE  o = p
<1>1. <<"address", r>> \in Held(o)
  BY HolderOf
<1>2. <<"address", r>> \in Held(p)
  BY HolderOf
<1> QED
  BY <1>1, <1>2 DEF Exclusive

(* What was so of a plan stays so while its addresses are left alone. *)
LEMMA SparedKept ==
  ASSUME Types, NEW p \in Ops, PlannedOf(p), DoneOf(p), Shaped(op[p]), op[p].status \in Live,
         Reserving(p)' => Reserving(p), op'[p].plan = op[p].plan, op'[p].done \subseteq op[p].done, Spared(p),
         \A r \in Rules : stage[p][r] \in {"created", "deleted"} => stage'[p][r] = stage[p][r]
  PROVE  PlannedOf(p)' /\ DoneOf(p)'
<1> DEFINE parts == op[p].plan.parts
<1>1. \A k \in DOMAIN parts : \A r \in DOMAIN parts[k].rules : r \in RulesOf(parts) /\ r \in Rules
  BY OpRowFields, RulesOfTyped DEF Types, RulesOf
<1>2. PlannedOf(p)'
  <2> SUFFICES ASSUME Reserving(p), NEW k \in DOMAIN parts, NEW r \in DOMAIN parts[k].rules
               PROVE  /\ rule'[r].desired = parts[k].rules[r].targets
                      /\ r \notin External /\ rule'[r].state = "synced" => HandledAs(p, k, r)'
    BY DEF PlannedOf
  <2>1. /\ rule[r].desired = parts[k].rules[r].targets
        /\ r \notin External /\ rule[r].state = "synced" => HandledAs(p, k, r)
    BY DEF PlannedOf
  <2>2. rule'[r].desired = rule[r].desired /\ (rule'[r].state = "synced" => rule[r].state = "synced") /\ r \in Rules
    BY <1>1 DEF Spared
  <2>3. HandledAs(p, k, r) => HandledAs(p, k, r)'
    BY <2>2 DEF HandledAs
  <2> QED
    BY <2>1, <2>2, <2>3
<1>3. DoneOf(p)'
  <2> SUFFICES ASSUME NEW k \in op'[p].done, NEW r \in DOMAIN parts[k].rules, r \notin External \cup touched'
               PROVE  remote'[r] = parts[k].rules[r].targets
    BY DEF DoneOf
  <2>1. k \in op[p].done /\ k \in DOMAIN parts
    BY DEF Shaped
  <2>2. remote'[r] = remote[r] /\ r \notin touched
    BY <1>1, <2>1 DEF Spared
  <2> QED
    BY <2>1, <2>2 DEF DoneOf
<1> QED
  BY <1>2, <1>3

(* Nothing is asked of an operation that is not live. *)
LEMMA NotLive ==
  ASSUME NEW p \in Ops, op'[p].status \notin Live
  PROVE  PlannedOf(p)' /\ DoneOf(p)'
BY DEF PlannedOf, DoneOf, Reserving

(* The operations that a step is not about. *)
LEMMA BystanderKept ==
  ASSUME Types, WellFormed, Planned, DoneIsApplied, NEW p \in Ops, op'[p] = op[p], stage'[p] = stage[p],
         op[p].status \in Live => Spared(p)
  PROVE  PlannedOf(p)' /\ DoneOf(p)'
<1>1. CASE op[p].status \in Live
  <2>1. PlannedOf(p) /\ DoneOf(p) /\ Shaped(op[p])
    BY DEF Planned, DoneIsApplied, WellFormed
  <2>2. Reserving(p)' => Reserving(p)
    BY DEF Reserving, Offboards
  <2> QED
    BY <1>1, <2>1, <2>2, SparedKept
<1>2. CASE op[p].status \notin Live
  BY <1>2, NotLive
<1> QED
  BY <1>1, <1>2

(* A step that leaves addresses alone spares everybody. *)
LEMMA AllSpared ==
  ASSUME UNCHANGED <<rule, remote, touched>>, NEW p
  PROVE  Spared(p)
BY DEF Spared

(* And so does an action that changes only the rows of what the provider has. *)
LEMMA InStepKept ==
  ASSUME SyncedAsDesired, NEW r \in Rules,
         rule'[r].state = "synced" =>
            /\ rule[r].state = "synced" /\ (rule'[r].exists => rule[r].exists) /\ rule'[r].desired = rule[r].desired
            /\ r \in External \cup touched' \/ (remote'[r] = remote[r] /\ r \notin touched)
  PROVE  InStep(r)'
BY DEF InStep, SyncedAsDesired

(* The property, address by address. *)
LEMMA InStepAll ==
  ASSUME \A r \in Rules : InStep(r)'
  PROVE  SyncedAsDesired'
BY DEF InStep, SyncedAsDesired

\* The part of the invariant about addresses.
AddressInv == Types /\ WellFormed /\ Exclusive /\ Planned /\ DoneIsApplied /\ SyncedAsDesired

(* Locks and plans are kept by what goes on or ends. *)
LEMMA ControlKept ==
  ASSUME WellFormed, Exclusive, NEW o \in Ops, OnlyOp(o), Asked(op[o])', Shaped(op[o])', Held(o)' \subseteq Held(o)
  PROVE  WellFormed' /\ Exclusive'
<1>1. Exclusive'
  BY ExclusiveStays
<1>2. \A p \in Ops : Asked(op'[p]) /\ Shaped(op'[p])
  BY DEF OnlyOp, WellFormed
<1> QED
  BY <1>1, <1>2 DEF WellFormed

(* The row of one operation changes. *)
LEMMA WellFormedKept ==
  ASSUME WellFormed, NEW o \in Ops, OnlyOp(o), Asked(op[o])', Shaped(op[o])'
  PROVE  WellFormed'
<1>2. \A p \in Ops : Asked(op'[p]) /\ Shaped(op'[p])
  BY DEF OnlyOp, WellFormed
<1> QED
  BY <1>2 DEF WellFormed

(* Who goes on holds what was held. *)
LEMMA HeldOn ==
  ASSUME NEW o \in Ops, op[o].status \in Live, op'[o].request = op[o].request, op'[o].plan = op[o].plan
  PROVE  Held(o)' \subseteq Held(o)
BY HeldIs

(* Who has ended holds nothing. *)
LEMMA HeldNoMore ==
  ASSUME NEW o \in Ops, op'[o].status \notin Live
  PROVE  Held(o)' \subseteq Held(o)
BY HeldIs

(* An operation that ended is not live. *)
LEMMA EndsNotLive ==
  ASSUME NEW o \in Ops, Ends(o)
  PROVE  op'[o].status \notin Live
BY IdleTyped, LiveFacts DEF Ends

(* An operation that goes on, ends or is prepared while no address changes. *)
LEMMA QuietAddresses ==
  ASSUME AddressInv, NEW o \in Ops, Types', OnlyOp(o), Asked(op[o])', Shaped(op[o])', UNCHANGED <<rule, remote, touched>>,
         \A p \in Ops \ {o} : stage'[p] = stage[p],
         \/ op'[o].status \notin Live
         \/ /\ op[o].status \in Live /\ op'[o].request = op[o].request /\ op'[o].plan = op[o].plan
            /\ op'[o].done \subseteq op[o].done /\ (Reserving(o)' => Reserving(o))
            /\ \A r \in Rules : stage[o][r] \in {"created", "deleted"} => stage'[o][r] = stage[o][r]
  PROVE  AddressInv'
<1> USE DEF AddressInv
<1>1. WellFormed' /\ Exclusive'
  <2>1. Held(o)' \subseteq Held(o)
    BY HeldOn, HeldNoMore
  <2> QED
    BY <2>1, ControlKept
<1>2. \A p \in Ops \ {o} : PlannedOf(p)' /\ DoneOf(p)'
  BY AllSpared, BystanderKept DEF OnlyOp
<1>3. PlannedOf(o)' /\ DoneOf(o)'
  <2>1. CASE op'[o].status \notin Live
    BY <2>1, NotLive
  <2>2. CASE op'[o].status \in Live
    <3>1. PlannedOf(o) /\ DoneOf(o) /\ Shaped(op[o])
      BY DEF Planned, DoneIsApplied, WellFormed
    <3> QED
      BY <2>2, <3>1, AllSpared, SparedKept
  <2> QED
    BY <2>1, <2>2
<1>4. Planned' /\ DoneIsApplied'
  BY <1>2, <1>3 DEF Planned, DoneIsApplied
<1>5. SyncedAsDesired'
  BY DEF SyncedAsDesired
<1> QED
  BY <1>1, <1>4, <1>5

(* The steps that move an execution on. *)
LEMMA PacesAddresses ==
  ASSUME AddressInv, NEW o \in Ops, Paces(o)
  PROVE  AddressInv'
<1>1. Types' /\ GoesOn(o) /\ UNCHANGED <<rule, remote, touched>> /\ op'[o].done \subseteq op[o].done
  BY PacesTypes, PacesGoesOn DEF AddressInv, Types, history
<1>2. /\ \A p \in Ops \ {o} : stage'[p] = stage[p]
      /\ \A r \in Rules : stage[o][r] \in {"created", "deleted"} => stage'[o][r] = stage[o][r]
  <2>1. CASE Reconcile(o)
    <3>1. stage' = [stage EXCEPT ![o] = [r \in Rules |-> Outcome(o, r)]] /\ stage \in [Ops -> [Rules -> Stages]]
      BY <2>1 DEF Reconcile, AddressInv, Types, OpTypes
    <3>2. \A r \in Rules : stage[o][r] \in {"created", "deleted"} => Outcome(o, r) = stage[o][r]
      BY DEF Outcome
    <3>3. stage'[o] = [r \in Rules |-> Outcome(o, r)] /\ \A p \in Ops \ {o} : stage'[p] = stage[p]
      BY <3>1
    <3> QED
      BY <3>2, <3>3
  <2>2. CASE ~Reconcile(o)
    <3>1. stage' = stage
      BY <2>2 DEF Paces, Start, BeginPart, Stop, Mismatch, Conflict, Retry
    <3> QED
      BY <3>1
  <2> QED
    BY <2>1, <2>2
<1>3. /\ OnlyOp(o) /\ Asked(op[o])' /\ Shaped(op[o])' /\ op[o].status \in Live
      /\ op'[o].request = op[o].request /\ op'[o].plan = op[o].plan /\ op'[o].committed = op[o].committed
  BY <1>1 DEF GoesOn
<1>4. Reserving(o)' => Reserving(o)
  BY <1>3 DEF Reserving, Offboards
<1> QED
  BY <1>1, <1>2, <1>3, <1>4, QuietAddresses

(* The steps that end an operation. *)
LEMMA ClosesAddresses ==
  ASSUME AddressInv, NEW o \in Ops, Closes(o)
  PROVE  AddressInv'
<1>1. /\ Types' /\ Ends(o) /\ Asked(op[o])' /\ Shaped(op[o])' /\ UNCHANGED <<rule, remote, touched>>
      /\ \A p \in Ops \ {o} : stage'[p] = stage[p]
  BY ClosesStep DEF AddressInv, history
<1>2. op'[o].status \notin Live /\ OnlyOp(o)
  BY <1>1, EndsNotLive DEF Ends
<1> QED
  BY <1>1, <1>2, QuietAddresses

(* The end of an offboarding. *)
LEMMA FinishOffboardAddresses ==
  ASSUME AddressInv, NEW o \in Ops, FinishOffboard(o)
  PROVE  AddressInv'
<1>1. /\ Types' /\ Asked(op[o])' /\ Shaped(op[o])' /\ UNCHANGED <<rule, remote, touched>>
      /\ \A p \in Ops \ {o} : stage'[p] = stage[p]
      /\ \/ GoesOn(o) /\ stage' = stage /\ op'[o].done = op[o].done
         \/ Ends(o)
  BY FinishOffboardStep DEF AddressInv, history, localVars
<1>2. CASE Ends(o)
  <2>1. op'[o].status \notin Live /\ OnlyOp(o)
    BY <1>2, EndsNotLive DEF Ends
  <2> QED
    BY <1>1, <2>1, QuietAddresses
<1>3. CASE GoesOn(o) /\ stage' = stage /\ op'[o].done = op[o].done
  <2>1. /\ OnlyOp(o) /\ op[o].status \in Live
        /\ op'[o].request = op[o].request /\ op'[o].plan = op[o].plan /\ op'[o].committed = op[o].committed
    BY <1>3 DEF GoesOn
  <2>2. Reserving(o)' => Reserving(o)
    BY <2>1 DEF Reserving, Offboards
  <2> QED
    BY <1>1, <1>3, <2>1, <2>2, QuietAddresses
<1> QED
  BY <1>1, <1>2, <1>3

(* The local change. *)
LEMMA CommitChangeAddresses ==
  ASSUME AddressInv, NEW o \in Ops, CommitChange(o)
  PROVE  AddressInv'
<1>1. /\ Types' /\ OnlyOp(o) /\ Asked(op[o])' /\ Shaped(op[o])' /\ UNCHANGED <<rule, remote, touched, stage>>
      /\ op[o].status \in Live /\ op'[o].request = op[o].request /\ op'[o].plan = op[o].plan
      /\ op'[o].done = op[o].done /\ op[o].request.kind \in Composite
  BY CommitChangeStep, LiveFacts DEF AddressInv, history
<1>2. Reserving(o)
  BY <1>1 DEF Reserving, Offboards, Composite, Mutations
<1> QED
  BY <1>1, <1>2, QuietAddresses

(* The plan. *)
LEMMA PrepareAddresses ==
  ASSUME AddressInv, NEW o \in Ops, Prepare(o)
  PROVE  AddressInv'
<1>1. /\ Types' /\ OnlyOp(o) /\ Asked(op[o])' /\ Shaped(op[o])' /\ UNCHANGED <<rule, remote, touched, stage>>
      /\ op'[o].status = "prepared"
  BY PrepareStep DEF AddressInv, history, localVars
<1>2. op'[o].status \notin Live
  BY <1>1, LiveFacts
<1> QED
  BY <1>1, <1>2, QuietAddresses

(* The departure of a member. *)
LEMMA DepartAddresses ==
  ASSUME AddressInv, NEW o \in Ops, Depart(o)
  PROVE  AddressInv'
<1> USE DEF AddressInv
<1>1. /\ Types' /\ OnlyOp(o) /\ Asked(op[o])' /\ Shaped(op[o])' /\ Exclusive' /\ UNCHANGED <<rule, remote, touched, stage>>
      /\ op'[o].done = {} /\ ~op'[o].committed /\ op'[o].request.kind = "member.offboard"
  BY DepartStep
<1>2. WellFormed'
  BY <1>1, WellFormedKept
<1>3. \A p \in Ops \ {o} : PlannedOf(p)' /\ DoneOf(p)'
  BY <1>1, AllSpared, BystanderKept DEF OnlyOp
<1>4. PlannedOf(o)' /\ DoneOf(o)'
  BY <1>1 DEF PlannedOf, DoneOf, Reserving, Offboards
<1>5. Planned' /\ DoneIsApplied'
  BY <1>3, <1>4 DEF Planned, DoneIsApplied
<1>6. SyncedAsDesired'
  BY <1>1 DEF SyncedAsDesired
<1> QED
  BY <1>1, <1>2, <1>5, <1>6

(* A reservation makes its addresses wait, and nobody else has them. *)
LEMMA RenewsAddresses ==
  ASSUME AddressInv, NEW o \in Ops, Renews(o), Types', Asked(op[o])', Shaped(op[o])', Exclusive'
  PROVE  AddressInv'
<1> USE DEF AddressInv
<1>1. /\ OnlyOp(o) /\ op'[o].status \in Live /\ op'[o].done = {} /\ UNCHANGED <<remote, stage, touched>>
      /\ \A r \in Rules :
           \/ rule'[r] = rule[r] /\ r \notin RulesOf(op'[o].plan.parts)
           \/ /\ rule'[r].state = "pending" /\ \A p \in Ops \ {o} : <<"address", r>> \notin Held(p)
              /\ \A k \in DOMAIN op'[o].plan.parts :
                   r \in DOMAIN op'[o].plan.parts[k].rules => rule'[r].desired = op'[o].plan.parts[k].rules[r].targets
  BY DEF Renews
<1>2. WellFormed'
  BY <1>1, WellFormedKept
<1>3. ASSUME NEW p \in Ops \ {o} PROVE PlannedOf(p)' /\ DoneOf(p)'
  <2>1. ASSUME op[p].status \in Live PROVE Spared(p)
    <3> SUFFICES ASSUME NEW r \in RulesOf(op[p].plan.parts) PROVE rule'[r] = rule[r]
      BY <1>1 DEF Spared
    <3>1. <<"address", r>> \in Held(p)
      BY <2>1, HolderOf
    <3>2. r \in Rules
      BY OpRowFields, RulesOfTyped DEF Types
    <3> QED
      BY <1>1, <3>1, <3>2
  <2> QED
    BY <1>1, <2>1, BystanderKept DEF OnlyOp
<1>4. PlannedOf(o)'
  <2> DEFINE parts == op'[o].plan.parts
  <2>1. \A k \in DOMAIN parts : \A r \in DOMAIN parts[k].rules : r \in RulesOf(parts) /\ r \in Rules
    <3>1. op'[o] \in OpRow
      BY DEF Types, OpTypes
    <3>2. parts \in PFun(Indices, PartRow)
      BY <3>1 DEF OpRow, PlanRow
    <3> QED
      BY <3>2, RulesOfTyped DEF RulesOf
  <2>2. ASSUME NEW k \in DOMAIN parts, NEW r \in DOMAIN parts[k].rules
        PROVE  rule'[r].desired = parts[k].rules[r].targets /\ rule'[r].state = "pending"
    BY <1>1, <2>1
  <2> QED
    BY <2>2 DEF PlannedOf
<1>5. DoneOf(o)'
  BY <1>1 DEF DoneOf
<1>6. Planned' /\ DoneIsApplied'
  BY <1>3, <1>4, <1>5 DEF Planned, DoneIsApplied
<1>7. SyncedAsDesired'
  BY <1>1 DEF SyncedAsDesired
<1> QED
  BY <1>1, <1>2, <1>6, <1>7

(* The three steps that reserve addresses. *)
LEMMA RequestAddresses ==
  ASSUME AddressInv, NEW o \in Ops, Reserve(o) \/ Submit(o) \/ HandOver(o)
  PROVE  AddressInv'
<1>1. Renews(o) /\ Types' /\ Asked(op[o])' /\ Shaped(op[o])' /\ Exclusive'
  BY ReserveStep, SubmitStep, HandOverStep DEF AddressInv
<1> QED
  BY <1>1, RenewsAddresses

(* An operation is given up: what it wanted is not shown as in step. *)
LEMMA CancelAddresses ==
  ASSUME AddressInv, NEW o \in Ops, Cancel(o)
  PROVE  AddressInv'
<1> USE DEF AddressInv
<1>1. /\ Types' /\ Ends(o) /\ Asked(op[o])' /\ Shaped(op[o])' /\ UNCHANGED <<remote, touched>>
      /\ \A p \in Ops \ {o} : stage'[p] = stage[p]
      /\ \A r \in Rules : /\ rule'[r].desired = rule[r].desired
                          /\ rule'[r] = rule[r] \/ rule'[r].state = "unknown"
  BY CancelStep
<1>2. OnlyOp(o) /\ op'[o].status \notin Live
  BY <1>1, EndsNotLive DEF Ends
<1>3. WellFormed' /\ Exclusive'
  BY <1>1, <1>2, HeldNoMore, ControlKept
<1>4. ASSUME NEW p \in Ops \ {o} PROVE PlannedOf(p)' /\ DoneOf(p)'
  <2>1. Spared(p)
    <3>1. RulesOf(op[p].plan.parts) \subseteq Rules
      BY OpRowFields, RulesOfTyped DEF Types
    <3> QED
      BY <1>1, <3>1 DEF Spared
  <2> QED
    BY <1>1, <1>2, <2>1, BystanderKept DEF OnlyOp
<1>5. Planned' /\ DoneIsApplied'
  BY <1>2, <1>4, NotLive DEF Planned, DoneIsApplied
<1>6. SyncedAsDesired'
  BY <1>1 DEF SyncedAsDesired
<1> QED
  BY <1>1, <1>3, <1>5, <1>6

(* The part that is worked on, of a live operation. *)
LEMMA PartOfLive ==
  ASSUME AddressInv, NEW o \in Ops, op[o].part # None, op[o].status \in Live
  PROVE  /\ op[o].part \in DOMAIN op[o].plan.parts \ op[o].done /\ PartOf(o) = op[o].plan.parts[op[o].part]
         /\ op[o].committed /\ Reserving(o) /\ Shaped(op[o]) /\ PlannedOf(o) /\ DoneOf(o)
         /\ \A r \in DOMAIN PartOf(o).rules : r \in RulesOf(op[o].plan.parts) /\ r \in Rules
         /\ \A k \in DOMAIN op[o].plan.parts \ {op[o].part} : DOMAIN op[o].plan.parts[k].rules \cap DOMAIN PartOf(o).rules = {}
         /\ \A p \in Ops \ {o} : op[p].status \in Live => RulesOf(op[p].plan.parts) \cap DOMAIN PartOf(o).rules = {}
<1> USE DEF AddressInv
<1>1. /\ op[o].part \in DOMAIN op[o].plan.parts \ op[o].done /\ PartOf(o) = op[o].plan.parts[op[o].part]
      /\ op[o].committed /\ Reserving(o) /\ Shaped(op[o]) /\ PlannedOf(o) /\ DoneOf(o) /\ Apart(op[o].plan.parts)
  BY DEF WellFormed, Shaped, PartOf, Planned, DoneIsApplied, Reserving
<1>2. \A r \in DOMAIN PartOf(o).rules : r \in RulesOf(op[o].plan.parts) /\ r \in Rules
  BY <1>1, PartTyped, RulesOfPart DEF Types
<1>3. \A k \in DOMAIN op[o].plan.parts \ {op[o].part} : DOMAIN op[o].plan.parts[k].rules \cap DOMAIN PartOf(o).rules = {}
  BY <1>1 DEF Apart
<1>4. ASSUME NEW p \in Ops \ {o}, op[p].status \in Live, NEW r \in RulesOf(op[p].plan.parts), r \in DOMAIN PartOf(o).rules
      PROVE  FALSE
  BY <1>2, <1>4, OneHolder
<1> QED
  BY <1>1, <1>2, <1>3, <1>4

(* A call for an address that is not handled: it is not shown as in step. *)
LEMMA RemoteCallAddresses ==
  ASSUME AddressInv, NEW o \in Ops, RemoteCall(o)
  PROVE  AddressInv'
<1> DEFINE r == NextRule(o)
<1> USE DEF AddressInv
<1>1. /\ Types' /\ GoesOn(o) /\ op[o].part # None /\ op'[o].done = op[o].done /\ touched' = touched
      /\ \A s \in Rules : SameRule(rule'[s], rule[s])
      /\ \A p \in Ops \ {o} : stage'[p] = stage[p]
      /\ r \in Unhandled(o)
      /\ \A s \in Rules \ {r} : remote'[s] = remote[s] /\ stage'[o][s] = stage[o][s]
  BY RemoteCallStep DEF history
<1>2. /\ OnlyOp(o) /\ Asked(op[o])' /\ Shaped(op[o])' /\ op[o].status \in Live /\ op'[o].status \in Live
      /\ op'[o].request = op[o].request /\ op'[o].plan = op[o].plan /\ op'[o].committed = op[o].committed
  BY <1>1 DEF GoesOn
<1>3. WellFormed' /\ Exclusive'
  BY <1>2, HeldOn, ControlKept
<1> DEFINE k0 == op[o].part
           parts == op[o].plan.parts
<1>4. /\ k0 \in DOMAIN parts \ op[o].done /\ PartOf(o) = parts[k0] /\ Reserving(o) /\ PlannedOf(o) /\ DoneOf(o) /\ Shaped(op[o])
      /\ \A k \in DOMAIN parts \ {k0} : DOMAIN parts[k].rules \cap DOMAIN PartOf(o).rules = {}
      /\ \A p \in Ops \ {o} : op[p].status \in Live => RulesOf(op[p].plan.parts) \cap DOMAIN PartOf(o).rules = {}
  BY <1>1, <1>2, PartOfLive
<1>5. r \in DOMAIN PartOf(o).rules /\ r \notin External /\ ~HandledAs(o, k0, r) /\ r \in Rules
  <2>1. r \in DOMAIN PartOf(o).rules \ External /\ ~Handled(o, r)
    BY <1>1 DEF Unhandled
  <2>2. HandledAs(o, k0, r) => Handled(o, r)
    BY <1>4 DEF Handled, HandledAs
  <2> QED
    BY <1>1, <2>1, <2>2, PartTyped DEF Types
<1>6. rule[r].state # "synced"
  BY <1>4, <1>5 DEF PlannedOf
<1> HIDE DEF r, k0, parts
<1>7. ASSUME NEW p \in Ops \ {o} PROVE PlannedOf(p)' /\ DoneOf(p)'
  <2>1. ASSUME op[p].status \in Live PROVE Spared(p)
    <3> SUFFICES ASSUME NEW s \in RulesOf(op[p].plan.parts)
                 PROVE  SameRule(rule'[s], rule[s]) /\ remote'[s] = remote[s]
      BY <1>1 DEF Spared, SameRule
    <3>1. s # r /\ s \in Rules
      BY <1>4, <1>5, <2>1, OpRowFields, RulesOfTyped DEF Types
    <3> QED
      BY <1>1, <3>1
  <2> QED
    BY <1>1, <1>2, <2>1, BystanderKept DEF OnlyOp
<1>8. \A k \in DOMAIN parts : \A s \in DOMAIN parts[k].rules : s \in Rules
  <2>1. parts \in PFun(Indices, PartRow)
    BY OpRowFields DEF Types, parts
  <2> QED
    BY <2>1, RulesOfTyped
<1>9. op'[o].plan.parts = parts /\ op[o].plan.parts = parts
  BY <1>2 DEF parts
<1>10. PlannedOf(o)'
  <2>1. ASSUME NEW k \in DOMAIN parts, NEW s \in DOMAIN parts[k].rules
        PROVE  /\ rule'[s].desired = parts[k].rules[s].targets
               /\ s \notin External /\ rule'[s].state = "synced" => HandledAs(o, k, s)'
    <3>1. /\ rule[s].desired = parts[k].rules[s].targets
          /\ s \notin External /\ rule[s].state = "synced" => HandledAs(o, k, s)
      BY <1>4, <1>9 DEF PlannedOf
    <3>2. SameRule(rule'[s], rule[s])
      BY <1>1, <1>8
    <3>3. CASE s = r
      BY <1>6, <3>1, <3>2, <3>3 DEF SameRule
    <3>4. CASE s # r
      <4>1. stage'[o][s] = stage[o][s]
        BY <1>1, <1>8, <3>4
      <4>2. HandledAs(o, k, s) => HandledAs(o, k, s)'
        BY <1>9, <4>1 DEF HandledAs
      <4> QED
        BY <3>1, <3>2, <4>2 DEF SameRule
    <3> QED
      BY <3>3, <3>4
  <2> QED
    BY <1>9, <2>1 DEF PlannedOf
<1>11. DoneOf(o)'
  <2>1. ASSUME NEW k \in op[o].done, NEW s \in DOMAIN parts[k].rules, s \notin External \cup touched
        PROVE  remote'[s] = parts[k].rules[s].targets
    <3>1. k \in DOMAIN parts \ {k0}
      BY <1>4, <1>9 DEF Shaped
    <3>2. s # r /\ s \in Rules
      BY <1>4, <1>5, <1>8, <3>1
    <3> QED
      BY <1>1, <1>2, <1>4, <1>9, <2>1, <3>2 DEF DoneOf
  <2> QED
    BY <1>1, <1>9, <2>1 DEF DoneOf
<1>12. Planned' /\ DoneIsApplied'
  BY <1>7, <1>10, <1>11 DEF Planned, DoneIsApplied
<1>13. SyncedAsDesired'
  <2>1. ASSUME NEW s \in Rules PROVE InStep(s)'
    <3>1. SameRule(rule'[s], rule[s]) /\ (rule[s].state = "synced" => remote'[s] = remote[s])
      BY <1>1, <1>6
    <3> QED
      BY <1>1, <3>1, InStepKept DEF SameRule
  <2> QED
    BY <2>1, InStepAll
<1> QED
  BY <1>1, <1>3, <1>12, <1>13

(* The commit of a part shows only addresses as in step that are. *)
LEMMA PartCommitAddresses ==
  ASSUME AddressInv, NEW o \in Ops, PartCommit(o)
  PROVE  AddressInv'
<1> DEFINE k0 == op[o].part
           parts == op[o].plan.parts
           p0 == PartOf(o)
<1> USE DEF AddressInv
<1>1. /\ Types' /\ Asked(op[o])' /\ Shaped(op[o])' /\ op[o].part # None /\ op[o].status \in Live
      /\ UNCHANGED remote /\ AsPlanned(o) /\ Unhandled(o) = {}
      /\ touched' = touched \ DOMAIN p0.rules
      /\ \A r \in Rules : rule'[r] = RuleAfter(o, r)
      /\ \/ GoesOn(o) /\ op[o].request.kind \notin Routes /\ op'[o].done = op[o].done \cup {op[o].part} /\ stage' = stage
         \/ Ends(o) /\ op[o].request.kind \in Routes /\ \A p \in Ops \ {o} : stage'[p] = stage[p]
  BY PartCommitStep, LiveFacts
<1>2. OnlyOp(o) /\ \A p \in Ops \ {o} : stage'[p] = stage[p]
  BY <1>1 DEF GoesOn, Ends
<1>3. Held(o)' \subseteq Held(o)
  BY <1>1, HeldOn, HeldNoMore, EndsNotLive DEF GoesOn
<1>4. WellFormed' /\ Exclusive'
  BY <1>1, <1>2, <1>3, ControlKept
<1>5. /\ k0 \in DOMAIN parts \ op[o].done /\ p0 = parts[k0] /\ Reserving(o) /\ PlannedOf(o) /\ DoneOf(o) /\ Shaped(op[o])
      /\ \A r \in DOMAIN p0.rules : r \in Rules
      /\ \A k \in DOMAIN parts \ {k0} : DOMAIN parts[k].rules \cap DOMAIN p0.rules = {}
      /\ \A p \in Ops \ {o} : op[p].status \in Live => RulesOf(op[p].plan.parts) \cap DOMAIN p0.rules = {}
  BY <1>1, PartOfLive
<1>6. ASSUME NEW r \in Rules
      PROVE  /\ r \notin DOMAIN p0.rules => SameRule(rule'[r], rule[r])
             /\ r \in DOMAIN p0.rules =>
                  IF p0.rules[r].delete THEN ~rule'[r].exists
                  ELSE /\ rule'[r].exists = rule[r].exists /\ rule'[r].desired = rule[r].desired
                       /\ rule'[r].state = IF r \in External THEN "unknown" ELSE "synced"
  BY <1>1, RuleAfterTyped DEF Types
<1>7. \A r \in DOMAIN p0.rules \ External : remote[r] = p0.rules[r].targets /\ HandledAs(o, k0, r)
  BY <1>1, <1>5 DEF AsPlanned, Applied, Unhandled, Handled, HandledAs
<1>8. \A r \in DOMAIN p0.rules : rule[r].desired = p0.rules[r].targets
  BY <1>5 DEF PlannedOf
<1>9. parts = op[o].plan.parts /\ k0 = op[o].part
  OBVIOUS
<1> HIDE DEF k0, parts, p0
<1>10. ASSUME NEW p \in Ops \ {o} PROVE PlannedOf(p)' /\ DoneOf(p)'
  <2>1. ASSUME op[p].status \in Live PROVE Spared(p)
    <3> SUFFICES ASSUME NEW s \in RulesOf(op[p].plan.parts)
                 PROVE  SameRule(rule'[s], rule[s]) /\ s \notin DOMAIN p0.rules
      BY <1>1 DEF Spared, SameRule
    <3>1. s \notin DOMAIN p0.rules /\ s \in Rules
      BY <1>5, <2>1, OpRowFields, RulesOfTyped DEF Types
    <3> QED
      BY <1>6, <3>1
  <2> QED
    BY <1>2, <2>1, BystanderKept DEF OnlyOp
<1>11. PlannedOf(o)' /\ DoneOf(o)'
  <2>1. CASE Ends(o)
    BY <2>1, EndsNotLive, NotLive
  <2>2. CASE GoesOn(o) /\ op[o].request.kind \notin Routes /\ op'[o].done = op[o].done \cup {op[o].part} /\ stage' = stage
    <3>1. op'[o].plan.parts = parts /\ op'[o].status \in Live /\ op'[o].done = op[o].done \cup {k0}
      BY <1>9, <2>2 DEF GoesOn
    <3>2. \A r \in DOMAIN p0.rules : ~p0.rules[r].delete
      BY <1>5, <1>9, <2>2 DEF WellFormed, Asked, Keeping
    <3>3. \A k \in DOMAIN parts : \A s \in DOMAIN parts[k].rules : s \in Rules
      <4>1. parts \in PFun(Indices, PartRow)
        BY <1>9, OpRowFields DEF Types
      <4> QED
        BY <4>1, RulesOfTyped
    <3>4. ASSUME NEW k \in DOMAIN parts, NEW s \in DOMAIN parts[k].rules
          PROVE  /\ rule'[s].desired = parts[k].rules[s].targets
                 /\ s \notin External /\ rule'[s].state = "synced" => HandledAs(o, k, s)'
      <4>0. HandledAs(o, k, s)' <=> HandledAs(o, k, s)
        BY <1>9, <2>2, <3>1 DEF HandledAs
      <4>1. CASE k = k0
        <5>1. s \in DOMAIN p0.rules /\ s \in Rules /\ parts[k] = p0
          BY <1>5, <4>1
        <5>2. rule'[s].desired = rule[s].desired
          BY <1>6, <3>2, <5>1
        <5>3. s \notin External => HandledAs(o, k, s)
          BY <1>7, <4>1, <5>1
        <5> QED
          BY <1>8, <4>0, <5>1, <5>2, <5>3
      <4>2. CASE k # k0
        <5>1. SameRule(rule'[s], rule[s])
          BY <1>5, <1>6, <3>3, <4>2
        <5>2. /\ rule[s].desired = parts[k].rules[s].targets
              /\ s \notin External /\ rule[s].state = "synced" => HandledAs(o, k, s)
          BY <1>5, <1>9 DEF PlannedOf
        <5> QED
          BY <4>0, <5>1, <5>2 DEF SameRule
      <4> QED
        BY <4>1, <4>2
    <3>5. ASSUME NEW k \in op[o].done \cup {k0}, NEW s \in DOMAIN parts[k].rules, s \notin External \cup touched'
          PROVE  remote'[s] = parts[k].rules[s].targets
      <4>1. CASE k = k0
        BY <1>1, <1>5, <1>7, <3>5, <4>1
      <4>2. CASE k \in op[o].done
        <5>1. k \in DOMAIN parts \ {k0}
          BY <1>5, <1>9, <4>2 DEF Shaped
        <5>2. s \notin DOMAIN p0.rules
          BY <1>5, <5>1
        <5>3. s \notin touched
          BY <1>1, <3>5, <5>2
        <5> QED
          BY <1>1, <1>5, <1>9, <3>5, <4>2, <5>3 DEF DoneOf
      <4> QED
        BY <4>1, <4>2
    <3>6. PlannedOf(o)'
      BY <3>1, <3>4 DEF PlannedOf
    <3>7. DoneOf(o)'
      BY <3>1, <3>5 DEF DoneOf
    <3> QED
      BY <3>6, <3>7
  <2> QED
    BY <1>1, <2>1, <2>2
<1>12. Planned' /\ DoneIsApplied'
  BY <1>10, <1>11 DEF Planned, DoneIsApplied
<1>13. SyncedAsDesired'
  <2>1. ASSUME NEW r \in Rules PROVE InStep(r)'
    <3>1. CASE r \notin DOMAIN p0.rules
      <4>1. SameRule(rule'[r], rule[r]) /\ (r \in touched <=> r \in touched')
        BY <1>1, <1>6, <3>1
      <4> QED
        BY <1>1, <4>1 DEF SameRule, InStep, SyncedAsDesired
    <3>2. CASE r \in DOMAIN p0.rules /\ r \notin External
      <4>1. ~rule'[r].exists \/ rule'[r].desired = rule[r].desired
        BY <1>6, <3>2
      <4>2. remote'[r] = rule[r].desired
        BY <1>1, <1>7, <1>8, <3>2
      <4> QED
        BY <4>1, <4>2 DEF InStep
    <3>3. CASE r \in External
      BY <3>3 DEF InStep
    <3> QED
      BY <3>1, <3>2, <3>3
  <2> QED
    BY <2>1, InStepAll
<1> QED
  BY <1>1, <1>4, <1>12, <1>13

(* Others change a rule, which then counts as touched. *)
LEMMA ForeignAddresses ==
  ASSUME AddressInv, NEW r \in Rules, Foreign(r)
  PROVE  AddressInv'
<1> USE DEF AddressInv
<1>1. /\ Types' /\ UNCHANGED <<op, stage>>
      /\ \A s \in Rules : SameRule(rule'[s], rule[s])
      /\ \A s \in Rules \ {r} : remote'[s] = remote[s]
      /\ touched' = touched \cup {r}
  BY ForeignStep
<1>2. WellFormed' /\ Exclusive'
  BY <1>1 DEF WellFormed, Exclusive, Held
<1>3. \A s \in Rules : remote'[s] = remote[s] \/ s \in touched'
  BY <1>1
<1>4. ASSUME NEW p \in Ops PROVE PlannedOf(p)' /\ DoneOf(p)'
  <2>1. Spared(p)
    <3>1. RulesOf(op[p].plan.parts) \subseteq Rules
      BY OpRowFields, RulesOfTyped DEF Types
    <3> QED
      BY <1>1, <1>3, <3>1 DEF Spared, SameRule
  <2> QED
    BY <1>1, <2>1, BystanderKept
<1>5. Planned' /\ DoneIsApplied'
  BY <1>4 DEF Planned, DoneIsApplied
<1>6. ASSUME NEW s \in Rules PROVE InStep(s)'
  BY <1>1, <1>3, InStepKept DEF SameRule
<1> QED
  BY <1>1, <1>2, <1>5, <1>6, InStepAll

(* What is read concerns addresses that nobody is at work on. *)
LEMMA ReadAddresses ==
  ASSUME AddressInv, Types', UNCHANGED <<remote, op, stage>>, NEW here \in SUBSET Rules,
         \A r \in here : Free({<<"connection", ConnectionOf[r]>>}),
         \A r \in Rules \ here : rule'[r] = rule[r] /\ (r \in touched' <=> r \in touched),
         \A r \in here : InStep(r)'
  PROVE  AddressInv'
<1> USE DEF AddressInv
<1>1. WellFormed' /\ Exclusive'
  BY DEF WellFormed, Exclusive, Held
<1>2. ASSUME NEW p \in Ops PROVE PlannedOf(p)' /\ DoneOf(p)'
  <2>1. ASSUME op[p].status \in Live PROVE Spared(p)
    <3> SUFFICES ASSUME NEW s \in RulesOf(op[p].plan.parts)
                 PROVE  s \in Rules \ here
      BY DEF Spared
    <3>1. s \in Rules
      BY OpRowFields, RulesOfTyped DEF Types
    <3>2. <<"connection", ConnectionOf[s]>> \in Held(p)
      BY <2>1, HolderOf
    <3> QED
      BY <3>1, <3>2 DEF Free
  <2> QED
    BY <2>1, BystanderKept
<1>3. Planned' /\ DoneIsApplied'
  BY <1>2 DEF Planned, DoneIsApplied
<1>4. ASSUME NEW s \in Rules PROVE InStep(s)'
  <2>1. CASE s \in here
    BY <2>1
  <2>2. CASE s \notin here
    BY <2>2 DEF InStep, SyncedAsDesired
  <2> QED
    BY <2>1, <2>2
<1> QED
  BY <1>1, <1>3, <1>4, InStepAll

(* A synchronisation compares what no operation is at work on. *)
LEMMA SyncAddresses ==
  ASSUME AddressInv, NEW c \in Connections, Sync(c)
  PROVE  AddressInv'
<1> DEFINE here == {r \in Rules : ConnectionOf[r] = c}
<1>1. /\ Types' /\ UNCHANGED <<remote, op, stage>> /\ Free({<<"connection", c>>})
      /\ \A r \in Rules : rule'[r] = IF ConnectionOf[r] = c THEN Compared(r) ELSE rule[r]
      /\ touched' = touched \ {r \in Rules : ConnectionOf[r] = c /\ "current" \in rule[r].rows}
  BY SyncStep DEF AddressInv
<1>2. ASSUME NEW r \in here PROVE InStep(r)'
  <2>1. /\ Compared(r).exists = rule[r].exists /\ Compared(r).desired = rule[r].desired
        /\ Compared(r).state = "synced" =>
              IF "current" \in rule[r].rows THEN remote[r] = rule[r].desired ELSE rule[r].state = "synced"
    BY ComparedTyped DEF AddressInv, Types
  <2>2. rule'[r] = Compared(r)
    BY <1>1
  <2>3. CASE "current" \in rule[r].rows
    BY <1>1, <2>1, <2>2, <2>3 DEF InStep
  <2>4. CASE "current" \notin rule[r].rows
    <3>1. r \in touched <=> r \in touched'
      BY <1>1, <2>4
    <3> QED
      BY <1>1, <2>1, <2>2, <2>4, <3>1 DEF InStep, AddressInv, SyncedAsDesired
  <2> QED
    BY <2>3, <2>4
<1>3. \A r \in here : Free({<<"connection", ConnectionOf[r]>>})
  BY <1>1
<1>4. \A r \in Rules \ here : rule'[r] = rule[r] /\ (r \in touched' <=> r \in touched)
  BY <1>1
<1> QED
  BY <1>1, <1>2, <1>3, <1>4, ReadAddresses

(* An import shows an address as in step with what was discovered. *)
LEMMA ImportAddresses ==
  ASSUME AddressInv, NEW r \in Rules, Import(r)
  PROVE  AddressInv'
<1>1. /\ Types' /\ UNCHANGED <<remote, op, stage>> /\ Free({<<"connection", ConnectionOf[r]>>})
      /\ rule'[r] = Imported(r) /\ \A s \in Rules \ {r} : rule'[s] = rule[s]
      /\ snap[r].targets # {}
      /\ touched' = IF snap[r].targets = remote[r] THEN touched ELSE touched \cup {r}
  BY ImportStep DEF AddressInv
<1>2. InStep(r)'
  <2>1. Imported(r).state = "synced" => Imported(r).desired = snap[r].targets
    BY <1>1, ImportedTyped DEF AddressInv, Types
  <2> QED
    BY <1>1, <2>1 DEF InStep
<1>3. \A s \in Rules \ {r} : rule'[s] = rule[s] /\ (s \in touched' <=> s \in touched)
  BY <1>1
<1>4. \A s \in {r} : InStep(s)' /\ Free({<<"connection", ConnectionOf[s]>>})
  BY <1>1, <1>2
<1>5. {r} \in SUBSET Rules
  OBVIOUS
<1> HIDE DEF InStep
<1> QED
  BY <1>1, <1>3, <1>4, <1>5, ReadAddresses

(* Nothing of this changes when nothing of it is written. *)
LEMMA IdleAddresses ==
  ASSUME AddressInv, Types', UNCHANGED <<rule, remote, op, stage, touched>>
  PROVE  AddressInv'
<1> USE DEF AddressInv
<1>1. WellFormed' /\ Exclusive'
  BY DEF WellFormed, Exclusive, Held
<1>2. Planned' /\ DoneIsApplied'
  <2>1. \A p \in Ops : PlannedOf(p)' /\ DoneOf(p)'
    BY AllSpared, BystanderKept
  <2> QED
    BY <2>1 DEF Planned, DoneIsApplied
<1>3. SyncedAsDesired'
  BY DEF SyncedAsDesired
<1> QED
  BY <1>1, <1>2, <1>3

\* The steps of the service that concern an operation.
OpStep(o) ==
  \/ Paces(o) \/ RemoteCall(o) \/ Closes(o) \/ FinishOffboard(o) \/ Cancel(o) \/ PartCommit(o)
  \/ CommitChange(o) \/ Prepare(o) \/ Reserve(o) \/ Submit(o) \/ HandOver(o) \/ Depart(o)

(* The steps of the specification. *)
LEMMA NextCases ==
  ASSUME Next
  PROVE  \/ \E o \in Ops : OpStep(o)
         \/ \E c \in Connections : Sync(c) \/ Discover(c)
         \/ \E r \in Rules : Import(r) \/ Foreign(r)
         \/ \E b \in Mailboxes : ImportMailbox(b)
         \/ \E b \in Mailboxes, m \in Members : CompleteConnectionSetup(b, m)
BY DEF Next, OpStep, Paces, RemoteCall, Closes

(* Every step keeps the part of the invariant about addresses. *)
LEMMA AddressNext ==
  ASSUME AddressInv, Next
  PROVE  AddressInv'
<1>1. CASE \E o \in Ops : OpStep(o)
  BY <1>1, PacesAddresses, RemoteCallAddresses, ClosesAddresses, FinishOffboardAddresses, CancelAddresses,
     PartCommitAddresses, CommitChangeAddresses, PrepareAddresses, RequestAddresses, DepartAddresses DEF OpStep
<1>2. CASE \E c \in Connections : Sync(c) \/ Discover(c)
  <2>1. ASSUME NEW c \in Connections, Discover(c) PROVE AddressInv'
    <3>1. Types' /\ UNCHANGED <<rule, remote, op, stage, touched>>
      BY <2>1, DiscoverStep DEF AddressInv, localVars
    <3> QED
      BY <3>1, IdleAddresses
  <2> QED
    BY <1>2, <2>1, SyncAddresses
<1>3. CASE \E r \in Rules : Import(r) \/ Foreign(r)
  BY <1>3, ImportAddresses, ForeignAddresses
<1>4. CASE \E b \in Mailboxes : ImportMailbox(b)
  <2>1. ASSUME NEW b \in Mailboxes, ImportMailbox(b) PROVE AddressInv'
    <3>1. Types' /\ UNCHANGED <<rule, remote, op, stage, touched>>
      BY <2>1, ImportMailboxStep DEF AddressInv
    <3> QED
      BY <3>1, IdleAddresses
  <2> QED
    BY <1>4, <2>1
<1>5. CASE \E b \in Mailboxes, m \in Members : CompleteConnectionSetup(b, m)
  <2>1. ASSUME NEW b \in Mailboxes, NEW m \in Members, CompleteConnectionSetup(b, m) PROVE AddressInv'
    <3>1. Types' /\ UNCHANGED <<rule, remote, op, stage, touched>>
      BY <2>1, SetupStep DEF AddressInv
    <3> QED
      BY <3>1, IdleAddresses
  <2> QED
    BY <1>5, <2>1
<1> QED
  BY <1>1, <1>2, <1>3, <1>4, <1>5, NextCases

(* So does a step that changes nothing. *)
LEMMA AddressStutter ==
  ASSUME AddressInv, UNCHANGED vars
  PROVE  AddressInv'
<1>1. Types' /\ UNCHANGED <<rule, remote, op, stage, touched>>
  BY DEF AddressInv, vars, localVars, bounds, history, Types, LocalTypes, RemoteTypes, BoundTypes, OpTypes
<1> QED
  BY <1>1, IdleAddresses

(* It holds at the beginning. *)
LEMMA AddressInit ==
  ASSUME Init
  PROVE  AddressInv
<1>1. PICK i \in Initially :
        /\ member = i.member /\ mailbox = i.mailbox /\ group = i.group
        /\ rule = i.rule /\ remote = i.remote
        /\ op = [o \in Ops |-> IF o \in i.asking THEN Idle ELSE Settled("rejected")]
        /\ foreign = i.foreign /\ reads = i.reads
  BY DEF Init
<1>2. /\ snap = [r \in Rules |-> [targets |-> {}, live |-> FALSE]]
      /\ stage = [o \in Ops |-> Untried] /\ trouble = 0
      /\ touched = {} /\ missed = {} /\ abandoned = {}
  BY DEF Init
<1>3. Consistent(i)
  BY InitiallyConsistent
<1>4. LocalTypes
  BY <1>1, <1>3 DEF Consistent, LocalTypes
<1>5. RemoteTypes
  BY <1>1, <1>2, <1>3 DEF Consistent, RemoteTypes
<1>6. BoundTypes
  <2>1. trouble \in 0..MaxTrouble
    BY <1>2, BoundsTyped
  <2>2. foreign \in 0..MaxForeign /\ reads \in 0..MaxReads
    BY <1>1, <1>3 DEF Consistent
  <2> QED
    BY <1>2, <2>1, <2>2 DEF BoundTypes
<1>7. \A o \in Ops : /\ op[o] \in OpRow /\ op[o].status \notin Live
                     /\ Asked(op[o]) /\ Shaped(op[o])
  <2>1. Settled("rejected") \in OpRow /\ Asked(Settled("rejected")) /\ Shaped(Settled("rejected")) /\ Settled("rejected").status = "rejected"
    BY IdleTyped
  <2> QED
    BY <1>1, <2>1, IdleTyped, LiveFacts
<1>8. OpTypes
  <2>1. op \in [Ops -> OpRow]
    BY <1>1, <1>7
  <2>2. stage \in [Ops -> [Rules -> Stages]]
    BY <1>2, UntriedTyped
  <2> QED
    BY <2>1, <2>2 DEF OpTypes
<1>9. WellFormed
  BY <1>7 DEF WellFormed
<1>10. Exclusive
  BY <1>7, HeldIs DEF Exclusive
<1>11. Planned /\ DoneIsApplied
  BY <1>7 DEF Planned, PlannedOf, DoneIsApplied, DoneOf, Reserving
<1>12. SyncedAsDesired
  BY <1>1, <1>3 DEF SyncedAsDesired, Consistent
<1> QED
  BY <1>4, <1>5, <1>6, <1>8, <1>9, <1>10, <1>11, <1>12 DEF AddressInv, Types

(* The stronger types of the proof imply those that a run checks. *)
LEMMA TypesGive ==
  ASSUME Types, WellFormed
  PROVE  TypeOK
<1>1. ASSUME NEW o \in Ops, NEW v \in {op[o].plan.old, op[o].plan.new} PROVE IsVersions(v)
  <2>1. v \in Versions
    BY OpRowFields DEF Types
  <2>2. v.members \in PFun(Members, Nat) /\ v.boxes \in PFun(Mailboxes, Nat)
    BY <2>1 DEF Versions
  <2> QED
    BY <2>2, PartialApplied DEF IsVersions
<1>2. ASSUME NEW p \in PartRow PROVE IsPart(p)
  <2>1. /\ p.group \in Groups \cup {0} /\ p.rev \in Nat /\ p.team \subseteq Members
        /\ p.versions \in Versions /\ p.rules \in PFun(Rules, RuleWish)
    BY DEF PartRow
  <2>2. p.versions.members \in PFun(Members, Nat) /\ p.versions.boxes \in PFun(Mailboxes, Nat)
    BY <2>1 DEF Versions
  <2>3. DOMAIN p.rules \subseteq Rules /\ \A r \in DOMAIN p.rules : p.rules[r] \in RuleWish
    BY <2>1, PartialApplied
  <2>4. IsVersions(p.versions)
    BY <2>2, PartialApplied DEF IsVersions
  <2> QED
    BY <2>1, <2>3, <2>4 DEF IsPart, RuleWish
<1>3. ASSUME NEW o \in Ops, NEW P \in {op[o].plan.before, op[o].plan.parts}
      PROVE  DOMAIN P \subseteq Groups \cup Rules \cup {0} /\ \A k \in DOMAIN P : IsPart(P[k])
  <2>1. P \in PFun(Indices, PartRow)
    BY OpRowFields DEF Types
  <2> QED
    BY <1>2, <2>1, PartialApplied DEF Indices
<1>4. ASSUME NEW o \in Ops
      PROVE  /\ op[o].status \in {"idle", "prepared", "rejected", "succeeded", "cancelled"} \cup Live
             /\ op[o].request \in Request
             /\ op[o].part \in DOMAIN op[o].plan.parts \cup {None}
             /\ op[o].done \subseteq DOMAIN op[o].plan.parts
  BY OpRowFields DEF Types, WellFormed, Shaped, Statuses
<1> QED
  BY <1>1, <1>3, <1>4 DEF TypeOK, Types, LocalTypes, RemoteTypes, BoundTypes, OpTypes, Stages

-----------------------------------------------------------------------------
(* What the invariant shows of addresses. *)

(* A step of an operation changes the row of no other one. *)
LEMMA OpStepOnly ==
  ASSUME AddressInv, NEW o \in Ops, OpStep(o)
  PROVE  OnlyOp(o)
<1> USE DEF AddressInv
<1>1. CASE Paces(o)
  BY <1>1, PacesGoesOn DEF GoesOn, Types
<1>2. CASE RemoteCall(o)
  BY <1>2, RemoteCallStep DEF GoesOn
<1>3. CASE Closes(o)
  BY <1>3, ClosesStep DEF Ends
<1>4. CASE FinishOffboard(o)
  BY <1>4, FinishOffboardStep DEF GoesOn, Ends
<1>5. CASE Cancel(o)
  BY <1>5, CancelStep DEF Ends
<1>6. CASE PartCommit(o)
  BY <1>6, PartCommitStep DEF GoesOn, Ends
<1>7. CASE CommitChange(o) \/ Prepare(o)
  BY <1>7, CommitChangeStep, PrepareStep
<1>8. CASE Reserve(o) \/ Submit(o) \/ HandOver(o) \/ Depart(o)
  BY <1>8, ReserveStep, SubmitStep, HandOverStep, DepartStep
<1> QED
  BY <1>1, <1>2, <1>3, <1>4, <1>5, <1>6, <1>7, <1>8 DEF OpStep

\* Every rule of the plan of o is at the provider, unless it is kept by hand or others changed it.
AppliedAll(o) ==
  \A k \in DOMAIN op[o].plan.parts : \A r \in DOMAIN op[o].plan.parts[k].rules \ (External \cup touched') :
    remote'[r] = op[o].plan.parts[k].rules[r].targets

(* The two transactions that end a request with success. *)
LEMMA FinishApplied ==
  ASSUME AddressInv, NEW o \in Ops, Finish(o)
  PROVE  AppliedAll(o)
<1>1. UNCHANGED <<remote, touched>> /\ AllDone(o) /\ ~Offboards(o)
  BY DEF Finish, history
<1>2. DOMAIN op[o].plan.parts \subseteq op[o].done /\ op[o].status \in Live
  BY <1>1, LiveFacts DEF AllDone, Undone, Between, Running
<1>3. DoneOf(o)
  BY DEF AddressInv, DoneIsApplied
<1> QED
  BY <1>1, <1>2, <1>3 DEF DoneOf, AppliedAll

(* The transaction that ends a part, when it ends the operation. *)
LEMMA PartCommitApplied ==
  ASSUME AddressInv, NEW o \in Ops, PartCommit(o), op'[o].status \notin Live
  PROVE  AppliedAll(o)
<1> USE DEF AddressInv
<1>1. /\ op[o].part # None /\ op[o].status \in Live /\ UNCHANGED remote /\ AsPlanned(o)
      /\ GoesOn(o) \/ op[o].request.kind \in Routes
  BY PartCommitStep, LiveFacts
<1>2. op[o].request.kind \in Routes
  BY <1>1 DEF GoesOn
<1>3. DOMAIN op[o].plan.parts = {op[o].request.group}
  BY <1>1, <1>2 DEF WellFormed, Asked
<1>4. op[o].part \in DOMAIN op[o].plan.parts /\ PartOf(o) = op[o].plan.parts[op[o].part]
  BY <1>1, PartOfLive
<1>5. \A k \in DOMAIN op[o].plan.parts : op[o].plan.parts[k] = PartOf(o)
  BY <1>3, <1>4
<1> QED
  BY <1>1, <1>5 DEF AppliedAll, AsPlanned, Applied

(* Every step that reports success has applied the plan. *)
LEMMA CompletedStep ==
  ASSUME AddressInv, Next, NEW o \in Ops, op[o].status \in Live, op'[o].status = "succeeded", ~Offboards(o)
  PROVE  AppliedAll(o)
<1> USE DEF AddressInv
<1>1. op'[o] # op[o] /\ op' # op /\ op'[o].status \notin Live
  BY LiveFacts
<1>2. PICK p \in Ops : OpStep(p)
  <2>1. ASSUME NEW c \in Connections, Sync(c) \/ Discover(c) PROVE op' = op
    BY <2>1 DEF Sync, Discover, Reads
  <2>2. ASSUME NEW r \in Rules, Import(r) \/ Foreign(r) PROVE op' = op
    BY <2>2 DEF Import, Foreign, Reads
  <2>3. ASSUME NEW b \in Mailboxes, ImportMailbox(b) PROVE op' = op
    BY <2>3 DEF ImportMailbox, Reads
  <2>4. ASSUME NEW b \in Mailboxes, NEW m \in Members, CompleteConnectionSetup(b, m) PROVE op' = op
    BY <2>4 DEF CompleteConnectionSetup
  <2> QED
    BY <1>1, <2>1, <2>2, <2>3, <2>4, NextCases
<1>3. p = o
  BY <1>1, <1>2, OpStepOnly DEF OnlyOp
<1>4. CASE Paces(o) \/ RemoteCall(o)
  <2>1. GoesOn(o)
    BY <1>4, PacesGoesOn, RemoteCallStep DEF Types
  <2> QED
    BY <1>1, <2>1 DEF GoesOn
<1>5. CASE Closes(o)
  <2>1. CASE Refuse(o)
    BY <2>1, LiveFacts DEF Refuse
  <2>2. CASE Confirm(o)
    BY <2>2 DEF Confirm
  <2>3. CASE Finish(o)
    BY <2>3, FinishApplied
  <2> QED
    BY <1>5, <2>1, <2>2, <2>3 DEF Closes
<1>6. CASE FinishOffboard(o)
  BY <1>6 DEF FinishOffboard
<1>7. CASE Cancel(o)
  BY <1>7, CancelStep
<1>8. CASE PartCommit(o)
  BY <1>1, <1>8, PartCommitApplied
<1>9. CASE CommitChange(o) \/ Prepare(o)
  <2>1. op'[o].status \in {"running", "prepared"}
    BY <1>9, CommitChangeStep, PrepareStep
  <2> QED
    BY <2>1
<1>10. CASE Reserve(o) \/ Submit(o) \/ HandOver(o) \/ Depart(o)
  <2>1. op'[o].status \in Live
    BY <1>10, ReserveStep, SubmitStep, HandOverStep, DepartStep, LiveFacts
  <2> QED
    BY <1>1, <2>1
<1> QED
  BY <1>2, <1>3, <1>4, <1>5, <1>6, <1>7, <1>8, <1>9, <1>10 DEF OpStep

(* The part of the invariant about addresses holds always. *)
LEMMA AddressesAlways == Spec => []AddressInv
<1>1. AddressInv /\ [Next]_vars => AddressInv'
  BY AddressNext, AddressStutter
<1> QED
  BY AddressInit, <1>1, PTL DEF Spec

(* Members, mailboxes, groups, addresses, plans and operations keep their  *)
(* types.                                                                  *)
THEOREM RowsTyped == Spec => []TypeOK
<1>1. AddressInv => TypeOK
  BY TypesGive DEF AddressInv
<1> QED
  BY AddressesAlways, <1>1, PTL

(* An address shown as in step delivers at the provider to what is wanted, *)
(* unless somebody else changed the rule since it was compared             *)
(* (core/routing_operations.go, core/connection_sync.go).                  *)
THEOREM InStepDelivers == Spec => []SyncedAsDesired
<1>1. AddressInv => SyncedAsDesired
  BY DEF AddressInv
<1> QED
  BY AddressesAlways, <1>1, PTL

(* An operation that reports success has applied every rule of its plan at *)
(* the provider (executeRouting and the ends of the composite operations). *)
THEOREM SuccessIsApplied == Spec => CompletedIsApplied
<1> DEFINE A == \A o \in Ops :
       /\ op[o].status \in Live /\ op'[o].status = "succeeded" /\ ~Offboards(o)
       => \A k \in DOMAIN op[o].plan.parts : \A r \in DOMAIN op[o].plan.parts[k].rules \ (External \cup touched') :
            remote'[r] = op[o].plan.parts[k].rules[r].targets
<1>1. AddressInv /\ [Next]_vars => [A]_vars
  <2>1. ASSUME AddressInv, Next PROVE A
    BY <2>1, CompletedStep DEF AppliedAll
  <2> HIDE DEF A
  <2> QED
    BY <2>1
<1>2. CompletedIsApplied <=> [][A]_vars
  BY DEF CompletedIsApplied
<1> HIDE DEF A
<1> QED
  BY AddressesAlways, <1>1, <1>2, PTL DEF Spec

-----------------------------------------------------------------------------
(* Members and the mailboxes they own. *)

\* The part of the invariant about owners.
OwnerInv == Unborn /\ Prospective /\ Receiving /\ Leaving /\ NoMailboxLeftBehind

\* What a step of o may do to members: who leaves is locked by nobody else, and goes on leaving.
MembersMove(o) ==
  \A m \in Members :
    \/ member'[m] = member[m]
    \/ /\ member'[m].rev > member[m].rev /\ member'[m].status # "absent"
       /\ member'[m].status = "departed" =>
            /\ \A p \in Ops \ {o} : <<"member", m>> \notin Held(p)
            /\ op'[o].status \in Live /\ Offboards(o)' /\ ~op'[o].committed /\ op'[o].request.member = m

\* And to mailboxes: who gets one is locked and stays.
BoxesMove(o) ==
  \A b \in Mailboxes :
    \/ mailbox'[b] = mailbox[b]
    \/ /\ mailbox'[b].rev > mailbox[b].rev
       /\ mailbox'[b].owner \notin {None, mailbox[b].owner} =>
            <<"member", mailbox'[b].owner>> \in Held(o) /\ member'[mailbox'[b].owner].status # "departed"

\* Whatever changes is counted up.
RowsForward ==
  /\ \A m \in Members : member'[m] = member[m] \/ member'[m].rev > member[m].rev
  /\ \A b \in Mailboxes : mailbox'[b] = mailbox[b] \/ mailbox'[b].rev > mailbox[b].rev

\* An offboarding goes on, or its member has no mailbox anymore.
Remains(o) ==
  op[o].status \in Live /\ Offboards(o) /\ ~op[o].committed =>
    \/ op'[o].status \in Live /\ op'[o].request = op[o].request /\ ~op'[o].committed
    \/ \A b \in Mailboxes : mailbox'[b].owner = op[o].request.member => member'[mailbox'[b].owner].status # "departed"

(* The members of a plan are members, with the revisions it was made from. *)
LEMMA OldTyped ==
  ASSUME OpTypes, NEW o \in Ops
  PROVE  /\ DOMAIN op[o].plan.old.members \subseteq Members /\ DOMAIN op[o].plan.old.boxes \subseteq Mailboxes
         /\ \A m \in DOMAIN op[o].plan.old.members : op[o].plan.old.members[m] \in Nat
         /\ \A b \in DOMAIN op[o].plan.old.boxes : op[o].plan.old.boxes[b] \in Nat
<1>1. op[o].plan.old.members \in PFun(Members, Nat) /\ op[o].plan.old.boxes \in PFun(Mailboxes, Nat)
  BY OpRowFields DEF Versions
<1> QED
  BY <1>1, PartialApplied

(* A live operation locks the members its plan was made from. *)
LEMMA MemberHeld ==
  ASSUME NEW o \in Ops, op[o].status \in Live, NEW m \in DOMAIN op[o].plan.old.members
  PROVE  <<"member", m>> \in Held(o)
BY KeyOfMember, HeldIs

(* What is so of whoever is to get a mailbox stays so when other           *)
(* operations move.                                                        *)
LEMMA ProspectiveKept ==
  ASSUME Types, Types', NEW p \in Ops, ProspectiveOf(p), op'[p] = op[p], RowsForward
  PROVE  ProspectiveOf(p)'
<1> DEFINE q == op[p].request
           old == op[p].plan.old
           m == NewOwner(q)
<1> SUFFICES ASSUME op[p].status = "prepared"
             PROVE  /\ m # None =>
                         /\ m \in DOMAIN old.members /\ m \in Members
                         /\ q.kind # "member.create" =>
                              \/ /\ old.members[m] <= member'[m].rev
                                 /\ old.members[m] = member'[m].rev => member'[m].status # "departed"
                              \/ /\ q.box \in DOMAIN old.boxes /\ old.boxes[q.box] <= mailbox'[q.box].rev
                                 /\ old.boxes[q.box] = mailbox'[q.box].rev => mailbox'[q.box].owner = m
                    /\ q.kind = "member.create" => q.member \in DOMAIN old.members /\ old.members[q.member] = 0
  BY DEF ProspectiveOf
<1>1. /\ m # None =>
           /\ m \in DOMAIN old.members /\ m \in Members
           /\ q.kind # "member.create" =>
                \/ /\ old.members[m] <= member[m].rev
                   /\ old.members[m] = member[m].rev => member[m].status # "departed"
                \/ /\ q.box \in DOMAIN old.boxes /\ old.boxes[q.box] <= mailbox[q.box].rev
                   /\ old.boxes[q.box] = mailbox[q.box].rev => mailbox[q.box].owner = m
      /\ q.kind = "member.create" => q.member \in DOMAIN old.members /\ old.members[q.member] = 0
  BY DEF ProspectiveOf
<1>2. /\ DOMAIN old.boxes \subseteq Mailboxes
      /\ \A x \in DOMAIN old.members : old.members[x] \in Nat
      /\ \A b \in DOMAIN old.boxes : old.boxes[b] \in Nat
  BY OldTyped DEF Types
<1>3. \A x \in Members : member[x].rev \in Nat /\ member'[x].rev \in Nat
  BY DEF Types, LocalTypes, MemberRow
<1>4. \A b \in Mailboxes : mailbox[b].rev \in Nat /\ mailbox'[b].rev \in Nat
  BY DEF Types, LocalTypes, MailboxRow
<1>5. \A x \in Members : member'[x] = member[x] \/ member'[x].rev > member[x].rev
  BY DEF RowsForward
<1>6. \A b \in Mailboxes : mailbox'[b] = mailbox[b] \/ mailbox'[b].rev > mailbox[b].rev
  BY DEF RowsForward
<1> HIDE DEF q, old, m
<1>7. ASSUME m \in Members, m \in DOMAIN old.members, old.members[m] <= member[m].rev,
             old.members[m] = member[m].rev => member[m].status # "departed"
      PROVE  /\ old.members[m] <= member'[m].rev
             /\ old.members[m] = member'[m].rev => member'[m].status # "departed"
  <2>1. CASE member'[m] = member[m]
    BY <1>7, <2>1
  <2>2. CASE member'[m].rev > member[m].rev
    <3> DEFINE x == old.members[m]
               y == member[m].rev
               z == member'[m].rev
    <3>1. x \in Nat /\ y \in Nat /\ z \in Nat /\ x <= y /\ z > y
      BY <1>2, <1>3, <1>7, <2>2
    <3> HIDE DEF x, y, z
    <3>2. x <= z /\ x # z
      BY <3>1
    <3> QED
      BY <3>2 DEF x, z
  <2> QED
    BY <1>5, <1>7, <2>1, <2>2
<1>8. ASSUME q.box \in DOMAIN old.boxes, old.boxes[q.box] <= mailbox[q.box].rev,
             old.boxes[q.box] = mailbox[q.box].rev => mailbox[q.box].owner = m
      PROVE  /\ old.boxes[q.box] <= mailbox'[q.box].rev
             /\ old.boxes[q.box] = mailbox'[q.box].rev => mailbox'[q.box].owner = m
  <2>0. q.box \in Mailboxes
    BY <1>2, <1>8
  <2>1. CASE mailbox'[q.box] = mailbox[q.box]
    BY <1>8, <2>1
  <2>2. CASE mailbox'[q.box].rev > mailbox[q.box].rev
    <3> DEFINE x == old.boxes[q.box]
               y == mailbox[q.box].rev
               z == mailbox'[q.box].rev
    <3>1. x \in Nat /\ y \in Nat /\ z \in Nat /\ x <= y /\ z > y
      BY <1>2, <1>4, <1>8, <2>0, <2>2
    <3> HIDE DEF x, y, z
    <3>2. x <= z /\ x # z
      BY <3>1
    <3> QED
      BY <3>2 DEF x, z
  <2> QED
    BY <1>6, <2>0, <2>1, <2>2
<1> QED
  BY <1>1, <1>7, <1>8

(* A step of one operation keeps what is so of the owners of mailboxes. *)
LEMMA OwnersKept ==
  ASSUME AddressInv, AddressInv', OwnerInv, NEW o \in Ops, OnlyOp(o), MembersMove(o), BoxesMove(o), Remains(o),
         ProspectiveOf(o)', ReceivingOf(o)', LeavingOf(o)'
  PROVE  OwnerInv'
<1>1. Types /\ Types' /\ Exclusive /\ WellFormed /\ WellFormed'
  BY DEF AddressInv
<1>2. Unborn /\ Prospective /\ Receiving /\ Leaving /\ NoMailboxLeftBehind
  BY DEF OwnerInv
<1>3. \A p \in Ops \ {o} : op'[p] = op[p]
  BY DEF OnlyOp
<1>4. Unborn'
  BY <1>2 DEF Unborn, MembersMove
<1>5. Prospective'
  <2>1. RowsForward
    BY DEF RowsForward, MembersMove, BoxesMove
  <2>2. ASSUME NEW p \in Ops \ {o} PROVE ProspectiveOf(p)'
    BY <1>1, <1>2, <1>3, <2>1, ProspectiveKept DEF Prospective
  <2> QED
    BY <2>2 DEF Prospective
<1>6. Receiving'
  <2>1. ASSUME NEW p \in Ops \ {o} PROVE ReceivingOf(p)'
    <3> SUFFICES ASSUME op[p].status \in Live, ~op[p].committed, NewOwner(op[p].request) # None
                 PROVE  /\ NewOwner(op[p].request) \in DOMAIN op[p].plan.old.members
                        /\ member'[NewOwner(op[p].request)].status # "departed"
      BY <1>3 DEF ReceivingOf
    <3>1. /\ NewOwner(op[p].request) \in DOMAIN op[p].plan.old.members
          /\ member[NewOwner(op[p].request)].status # "departed"
      BY <1>2 DEF Receiving, ReceivingOf
    <3>2. <<"member", NewOwner(op[p].request)>> \in Held(p) /\ NewOwner(op[p].request) \in Members
      BY <1>1, <3>1, MemberHeld, OldTyped DEF Types
    <3> QED
      BY <3>1, <3>2 DEF MembersMove
  <2> QED
    BY <2>1 DEF Receiving
<1>7. Leaving'
  <2>1. ASSUME NEW p \in Ops \ {o} PROVE LeavingOf(p)'
    <3> DEFINE m == op[p].request.member
    <3>1. CASE ~(op[p].status \in Live /\ Offboards(p))
      BY <1>3, <3>1 DEF LeavingOf, Offboards
    <3>2. CASE op[p].status \in Live /\ Offboards(p)
      <4>1. /\ m \in DOMAIN op[p].plan.old.members
            /\ op[p].request.as = "handover" /\ DOMAIN op[p].plan.old.boxes # {}
                 => op[p].request.owner \in DOMAIN op[p].plan.old.members
            /\ ~op[p].committed => \A b \in Mailboxes : mailbox[b].owner = m => b \in DOMAIN op[p].plan.old.boxes
        BY <1>2, <3>2 DEF Leaving, LeavingOf
      <4>2. <<"member", m>> \in Held(p) /\ m \in Members /\ m # None
        BY <1>1, <3>2, <4>1, MemberHeld, OldTyped, NoneIsNothing DEF Types
      <4>3. <<"member", m>> \notin Held(o)
        BY <1>1, <4>2 DEF Exclusive
      <4>4. \A b \in Mailboxes : mailbox'[b].owner = m => mailbox[b].owner = m
        BY <4>2, <4>3 DEF BoxesMove
      <4> QED
        BY <1>3, <3>2, <4>1, <4>4 DEF LeavingOf
    <3> QED
      BY <3>1, <3>2
  <2> QED
    BY <2>1 DEF Leaving
<1>8. NoMailboxLeftBehind'
  <2> SUFFICES ASSUME NEW b \in Mailboxes, mailbox'[b].owner # None, member'[mailbox'[b].owner].status = "departed"
               PROVE  \E p \in Ops : /\ op'[p].status \in Live /\ Offboards(p)' /\ ~op'[p].committed
                                     /\ op'[p].request.member = mailbox'[b].owner
    BY DEF NoMailboxLeftBehind
  <2> DEFINE w == mailbox'[b].owner
  <2>1. w \in Members /\ w # None /\ member'[w].status = "departed"
    BY <1>1 DEF Types, LocalTypes, MailboxRow
  <2>2. CASE member'[w] # member[w]
    BY <2>1, <2>2 DEF MembersMove
  <2>3. CASE member'[w] = member[w]
    <3>1. mailbox[b].owner = w /\ member[w].status = "departed"
      BY <2>1, <2>3 DEF BoxesMove
    <3>2. PICK p \in Ops : op[p].status \in Live /\ Offboards(p) /\ ~op[p].committed /\ op[p].request.member = w
      BY <1>2, <2>1, <3>1 DEF NoMailboxLeftBehind
    <3>3. CASE p # o
      BY <1>3, <3>2, <3>3 DEF Offboards
    <3>4. CASE p = o
      <4>1. op'[o].status \in Live /\ op'[o].request = op[o].request /\ ~op'[o].committed
        BY <2>1, <3>2, <3>4 DEF Remains
      <4> QED
        BY <3>2, <3>4, <4>1 DEF Offboards
    <3> QED
      BY <3>3, <3>4
  <2> QED
    BY <2>2, <2>3
<1> QED
  BY <1>4, <1>5, <1>6, <1>7, <1>8 DEF OwnerInv

(* Nothing changes but the operation, which goes on. *)
LEMMA GoesOnOwners ==
  ASSUME AddressInv, AddressInv', OwnerInv, NEW o \in Ops, GoesOn(o), OwnersStay
  PROVE  OwnerInv'
<1>1. /\ op[o].status \in Live /\ op'[o].status \in Live /\ OnlyOp(o)
      /\ op'[o].request = op[o].request /\ op'[o].plan = op[o].plan /\ op'[o].committed = op[o].committed
  BY DEF GoesOn
<1>2. MembersMove(o) /\ BoxesMove(o)
  BY DEF OwnersStay, MembersMove, BoxesMove
<1>3. Remains(o)
  BY <1>1 DEF Remains
<1>4. ProspectiveOf(o)'
  BY <1>1, LiveFacts DEF ProspectiveOf
<1>5. ReceivingOf(o)'
  BY <1>1 DEF OwnersStay, OwnerInv, Receiving, ReceivingOf
<1>6. LeavingOf(o)'
  BY <1>1 DEF OwnersStay, OwnerInv, Leaving, LeavingOf, Offboards
<1> QED
  BY <1>1, <1>2, <1>3, <1>4, <1>5, <1>6, OwnersKept

(* An operation ends, and no member is left with mailboxes to hand over. *)
LEMMA EndsOwners ==
  ASSUME AddressInv, AddressInv', OwnerInv, NEW o \in Ops, Ends(o), MembersMove(o), mailbox' = mailbox,
         ~(op[o].status \in Live /\ Offboards(o) /\ ~op[o].committed)
  PROVE  OwnerInv'
<1>1. OnlyOp(o) /\ op'[o].status \notin Live /\ op'[o].status # "prepared"
  BY EndsNotLive, IdleTyped DEF Ends
<1>2. BoxesMove(o)
  BY DEF BoxesMove
<1>3. Remains(o)
  BY DEF Remains
<1>4. ProspectiveOf(o)' /\ ReceivingOf(o)' /\ LeavingOf(o)'
  BY <1>1 DEF ProspectiveOf, ReceivingOf, LeavingOf
<1> QED
  BY <1>1, <1>2, <1>3, <1>4, OwnersKept

(* What is read from the provider gives a mailbox to nobody. *)
LEMMA ReadOwners ==
  ASSUME AddressInv, AddressInv', OwnerInv, op' = op, member' = member,
         \A b \in Mailboxes : mailbox'[b] = mailbox[b] \/ (mailbox'[b].rev > mailbox[b].rev /\ mailbox'[b].owner = None)
  PROVE  OwnerInv'
<1>1. Types /\ Types'
  BY DEF AddressInv
<1>2. CASE Ops = {}
  <2>1. Unborn' /\ Prospective' /\ Receiving' /\ Leaving'
    BY <1>2 DEF OwnerInv, Unborn, Prospective, Receiving, Leaving
  <2>2. NoMailboxLeftBehind'
    BY <1>2 DEF OwnerInv, NoMailboxLeftBehind
  <2> QED
    BY <2>1, <2>2 DEF OwnerInv
<1>3. ASSUME NEW o \in Ops PROVE OwnerInv'
  <2>1. OnlyOp(o)
    BY <1>1 DEF OnlyOp, Types, OpTypes
  <2>2. MembersMove(o) /\ BoxesMove(o) /\ Remains(o)
    BY DEF MembersMove, BoxesMove, Remains
  <2>3. ProspectiveOf(o)'
    <3>1. ProspectiveOf(o)
      BY DEF OwnerInv, Prospective
    <3>2. RowsForward
      BY <2>2 DEF RowsForward, MembersMove, BoxesMove
    <3> QED
      BY <1>1, <3>1, <3>2, ProspectiveKept
  <2>4. ReceivingOf(o)'
    BY DEF OwnerInv, Receiving, ReceivingOf
  <2>5. LeavingOf(o)'
    <3>1. CASE op[o].status \in Live /\ Offboards(o)
      <4>1. op[o].request.member # None
        BY <3>1, <1>1, OldTyped, NoneIsNothing DEF OwnerInv, Leaving, LeavingOf, Types
      <4> QED
        BY <3>1, <4>1 DEF OwnerInv, Leaving, LeavingOf, Offboards
    <3>2. CASE ~(op[o].status \in Live /\ Offboards(o))
      BY <3>2 DEF LeavingOf, Offboards
    <3> QED
      BY <3>1, <3>2
  <2> QED
    BY <2>1, <2>2, <2>3, <2>4, <2>5, OwnersKept
<1> QED
  BY <1>2, <1>3

(* Nor does the set-up of a connection give one to somebody who is leaving. *)
LEMMA SetupOwners ==
  ASSUME AddressInv, AddressInv', OwnerInv, Gone, NEW b \in Mailboxes, NEW m \in Members, CompleteConnectionSetup(b, m)
  PROVE  OwnerInv'
<1>1. Types /\ Types'
  BY DEF AddressInv
<1>2. /\ op' = op /\ member' = member
      /\ member[m].status = "active" /\ mailbox'[b].owner = m /\ mailbox'[b].rev > mailbox[b].rev
      /\ \A x \in Mailboxes \ {b} : mailbox'[x] = mailbox[x]
  BY <1>1, SetupStep
<1>3. Unborn' /\ Receiving'
  BY <1>2 DEF OwnerInv, Unborn, Receiving, ReceivingOf
<1>4. Prospective'
  <2>1. RowsForward
    BY <1>2 DEF RowsForward
  <2>2. ASSUME NEW p \in Ops PROVE ProspectiveOf(p)'
    <3>1. ProspectiveOf(p) /\ op'[p] = op[p]
      BY <1>2 DEF OwnerInv, Prospective
    <3> QED
      BY <1>1, <2>1, <3>1, ProspectiveKept
  <2> QED
    BY <2>2 DEF Prospective
<1>5. Leaving'
  <2>1. ASSUME NEW p \in Ops PROVE LeavingOf(p)'
    <3>1. LeavingOf(p) /\ GoneOf(p) /\ op'[p] = op[p]
      BY <1>2 DEF OwnerInv, Leaving, Gone
    <3>2. ASSUME op[p].status \in Live, Offboards(p), NEW x \in Mailboxes, mailbox'[x].owner = op[p].request.member
          PROVE  mailbox[x].owner = op[p].request.member
      <4>1. x # b
        BY <1>2, <3>1, <3>2 DEF GoneOf
      <4> QED
        BY <1>2, <3>2, <4>1
    <3> QED
      BY <3>1, <3>2 DEF LeavingOf, Offboards
  <2> QED
    BY <2>1 DEF Leaving
<1>6. NoMailboxLeftBehind'
  <2> SUFFICES ASSUME NEW x \in Mailboxes, mailbox'[x].owner # None, member'[mailbox'[x].owner].status = "departed"
               PROVE  \E p \in Ops : /\ op'[p].status \in Live /\ Offboards(p)' /\ ~op'[p].committed
                                     /\ op'[p].request.member = mailbox'[x].owner
    BY DEF NoMailboxLeftBehind
  <2>1. mailbox'[x] = mailbox[x]
    BY <1>2
  <2>2. PICK p \in Ops : /\ op[p].status \in Live /\ Offboards(p) /\ ~op[p].committed
                          /\ op[p].request.member = mailbox[x].owner
    BY <1>2, <2>1 DEF OwnerInv, NoMailboxLeftBehind
  <2> QED
    BY <1>2, <2>1, <2>2 DEF Offboards
<1> QED
  BY <1>3, <1>4, <1>5, <1>6 DEF OwnerInv

(* A change makes nobody leave, and gives the mailbox to its new owner or  *)
(* to nobody.                                                              *)
LEMMA MovedMembers ==
  ASSUME LocalTypes, NEW q \in Request, Fits(q), q.kind \in Composite, NEW m \in Members
  PROVE  \/ MembersAfter(q)[m] = member[m]
         \/ MembersAfter(q)[m].rev > member[m].rev /\ MembersAfter(q)[m].status \in {"invited", "active", "disabled"}
<1> DEFINE x == q.member
           on == [status |-> Enabled(x), rev |-> member[x].rev + 1]
           off == [status |-> "disabled", rev |-> member[x].rev + 1]
<1>1. /\ member \in [Members -> MemberRow] /\ \A y \in Members : member[y].rev \in Nat
      /\ Enabled(x) \in {"invited", "active"}
  BY DEF LocalTypes, MemberRow, Enabled
<1>2. q.kind \in {"member.enable", "member.disable"} => x \in Members
  BY DEF Fits
<1>3. CASE q.kind = "member.enable"
  <2>1. MembersAfter(q) = [member EXCEPT ![x] = on]
    BY <1>3 DEF MembersAfter
  <2>2. on.rev > member[x].rev /\ on.status \in {"invited", "active", "disabled"}
    BY <1>1, <1>2, <1>3
  <2> HIDE DEF on, x
  <2> QED
    BY <1>1, <1>2, <1>3, <2>1, <2>2
<1>4. CASE q.kind = "member.disable"
  <2>1. MembersAfter(q) = [member EXCEPT ![x] = off]
    BY <1>4 DEF MembersAfter
  <2>2. off.rev > member[x].rev /\ off.status \in {"invited", "active", "disabled"}
    BY <1>1, <1>2, <1>4
  <2> HIDE DEF off, x
  <2> QED
    BY <1>1, <1>2, <1>4, <2>1, <2>2
<1>5. CASE q.kind \notin {"member.enable", "member.disable"}
  BY <1>5 DEF MembersAfter
<1> QED
  BY <1>3, <1>4, <1>5

(* The owner and the revision that a change leaves. *)
LEMMA MovedRow ==
  ASSUME LocalTypes, NEW q \in Request, Fits(q), q.kind \in Composite, q.box # None
  PROVE  /\ q.box \in Mailboxes /\ MailboxAfter(q).rev > mailbox[q.box].rev
         /\ MailboxAfter(q).owner \in {None, mailbox[q.box].owner, NewOwner(q)}
         /\ q.kind \in Immediate => MailboxAfter(q).owner = mailbox[q.box].owner
<1>1. q.box \in Mailboxes
  BY DEF Request
<1> DEFINE was == mailbox[q.box]
           R == MailboxRow
<1>2. was \in R /\ was.rev \in Nat
  BY <1>1 DEF LocalTypes, MailboxRow
<1>3. DOMAIN was = {"status", "kind", "owner", "rev"}
  BY <1>2 DEF MailboxRow
<1>4. CASE q.kind = "mailbox.update"
  <2> DEFINE to == IF q.as = "shared" THEN None ELSE q.owner
  <2>1. MailboxAfter(q) = [was EXCEPT !.kind = q.as, !.owner = to, !.rev = @ + 1]
    BY <1>4 DEF MailboxAfter
  <2>2. to \in {None, NewOwner(q)}
    BY <1>4 DEF NewOwner
  <2> HIDE DEF was, to, R
  <2>3. MailboxAfter(q).owner = to /\ MailboxAfter(q).rev = was.rev + 1
    BY <1>3, <2>1
  <2>4. was.rev + 1 > was.rev
    BY <1>2
  <2> QED
    BY <1>1, <1>4, <2>2, <2>3, <2>4 DEF was, Immediate
<1>5. CASE q.kind \in {"mailbox.suspend", "mailbox.archive", "mailbox.deleteRemote", "mailbox.reactivate"}
  <2>1. PICK s \in {"suspended", "archived", "active"} : MailboxAfter(q) = [was EXCEPT !.status = s, !.rev = @ + 1]
    <3>1. \E s \in {"suspended", "archived", "active"} : MailboxAfter(q) = [was EXCEPT !.status = s, !.rev = @ + 1]
      BY <1>5 DEF MailboxAfter
    <3> QED
      BY <3>1, Zenon
  <2> HIDE DEF was, R
  <2>2. MailboxAfter(q).owner = was.owner /\ MailboxAfter(q).rev = was.rev + 1
    BY <1>3, <2>1
  <2>3. was.rev + 1 > was.rev
    BY <1>2
  <2> QED
    BY <1>1, <2>2, <2>3 DEF was
<1>6. CASE q.kind = "mailbox.add"
  <2>1. MailboxAfter(q) = [status |-> "active", kind |-> q.as, owner |-> q.owner, rev |-> was.rev + 1]
    BY <1>6 DEF MailboxAfter
  <2>2. NewOwner(q) = q.owner
    BY <1>6 DEF NewOwner
  <2> HIDE DEF was, R
  <2>3. MailboxAfter(q).owner = q.owner /\ MailboxAfter(q).rev = was.rev + 1
    BY <2>1
  <2>4. was.rev + 1 > was.rev
    BY <1>2
  <2> QED
    BY <1>1, <1>6, <2>2, <2>3, <2>4 DEF was, Immediate
<1>7. CASE q.kind \notin Mutations \cup {"mailbox.add"}
  <2>1. q.kind = "member.create"
    BY <1>7 DEF Fits, Composite
  <2>2. \/ MailboxAfter(q) = [status |-> "active", kind |-> "personal", owner |-> q.member, rev |-> was.rev + 1]
        \/ MailboxAfter(q) = [was EXCEPT !.owner = q.member, !.rev = @ + 1]
    BY <2>1 DEF MailboxAfter
  <2>3. NewOwner(q) = q.member
    BY <2>1 DEF NewOwner
  <2> HIDE DEF was, R
  <2>4. MailboxAfter(q).owner = q.member /\ MailboxAfter(q).rev = was.rev + 1
    <3>1. CASE MailboxAfter(q) = [status |-> "active", kind |-> "personal", owner |-> q.member, rev |-> was.rev + 1]
      BY <3>1
    <3>2. CASE MailboxAfter(q) = [was EXCEPT !.owner = q.member, !.rev = @ + 1]
      BY <1>3, <3>2
    <3> QED
      BY <2>2, <3>1, <3>2
  <2>5. was.rev + 1 > was.rev
    BY <1>2
  <2> QED
    BY <1>1, <2>1, <2>3, <2>4, <2>5 DEF was, Immediate
<1> QED
  BY <1>4, <1>5, <1>6, <1>7 DEF Mutations

(* So for all mailboxes. *)
LEMMA MovedBoxes ==
  ASSUME LocalTypes, NEW q \in Request, Fits(q), q.kind \in Composite, NEW b \in Mailboxes
  PROVE  \/ MailboxesAfter(q)[b] = mailbox[b]
         \/ /\ MailboxesAfter(q)[b].rev > mailbox[b].rev
            /\ MailboxesAfter(q)[b].owner \in {None, mailbox[b].owner, NewOwner(q)}
            /\ q.kind \in Immediate => MailboxesAfter(q)[b].owner = mailbox[b].owner
<1>1. mailbox \in [Mailboxes -> MailboxRow]
  BY DEF LocalTypes
<1>2. CASE q.box = None \/ b # q.box
  BY <1>1, <1>2 DEF MailboxesAfter
<1>3. CASE q.box # None /\ b = q.box
  <2> DEFINE new == MailboxAfter(q)
  <2>1. MailboxesAfter(q) = [mailbox EXCEPT ![b] = new]
    BY <1>3 DEF MailboxesAfter
  <2>2. /\ new.rev > mailbox[b].rev
        /\ new.owner \in {None, mailbox[b].owner, NewOwner(q)}
        /\ q.kind \in Immediate => new.owner = mailbox[b].owner
    BY <1>3, MovedRow
  <2> HIDE DEF new
  <2>3. MailboxesAfter(q)[b] = new
    BY <1>1, <2>1
  <2> QED
    BY <2>2, <2>3
<1> QED
  BY <1>2, <1>3

(* The change of a mailbox or a member: its new owner is locked and has    *)
(* not left.                                                               *)
LEMMA CommitChangeOwners ==
  ASSUME AddressInv, AddressInv', OwnerInv, NEW o \in Ops, CommitChange(o)
  PROVE  OwnerInv'
<1> DEFINE q == op[o].request
<1>1. Types /\ WellFormed
  BY DEF AddressInv
<1>2. /\ OnlyOp(o) /\ op[o].status \in Live /\ op'[o].status = "running" /\ q.kind \in Composite
      /\ op'[o].request = q /\ op'[o].committed /\ ~op[o].committed
  BY <1>1, CommitChangeStep, LiveFacts
<1>3. mailbox' = MailboxesAfter(q) /\ member' = MembersAfter(q)
  BY DEF CommitChange
<1>4. LocalTypes /\ q \in Request /\ Fits(q)
  BY <1>1, <1>2, OpRowFields DEF Types, WellFormed, Asked
<1>5. q.kind # "member.offboard"
  BY <1>2 DEF Composite, Mutations
<1>6. MembersMove(o)
  <2>1. ASSUME NEW m \in Members
        PROVE  \/ member'[m] = member[m]
               \/ member'[m].rev > member[m].rev /\ member'[m].status \in {"invited", "active", "disabled"}
    BY <1>2, <1>3, <1>4, MovedMembers
  <2> QED
    BY <2>1 DEF MembersMove
<1>7. BoxesMove(o)
  <2> SUFFICES ASSUME NEW b \in Mailboxes, mailbox'[b] # mailbox[b]
               PROVE  /\ mailbox'[b].rev > mailbox[b].rev
                      /\ mailbox'[b].owner \notin {None, mailbox[b].owner} =>
                           <<"member", mailbox'[b].owner>> \in Held(o) /\ member'[mailbox'[b].owner].status # "departed"
    BY DEF BoxesMove
  <2>1. mailbox'[b].rev > mailbox[b].rev /\ mailbox'[b].owner \in {None, mailbox[b].owner, NewOwner(q)}
    BY <1>2, <1>3, <1>4, MovedBoxes
  <2>2. ASSUME NewOwner(q) # None
        PROVE  <<"member", NewOwner(q)>> \in Held(o) /\ member'[NewOwner(q)].status # "departed"
    <3>1. NewOwner(q) \in DOMAIN op[o].plan.old.members /\ member[NewOwner(q)].status # "departed"
      BY <1>2, <2>2 DEF OwnerInv, Receiving, ReceivingOf
    <3>2. NewOwner(q) \in Members
      BY <1>1, <3>1, OldTyped DEF Types
    <3> QED
      BY <1>2, <1>3, <1>4, <3>1, <3>2, MemberHeld, MovedMembers
  <2> QED
    BY <2>1, <2>2
<1>8. Remains(o)
  BY <1>5 DEF Remains, Offboards
<1>9. ProspectiveOf(o)' /\ ReceivingOf(o)' /\ LeavingOf(o)'
  BY <1>2, <1>5 DEF ProspectiveOf, ReceivingOf, LeavingOf, Offboards
<1> QED
  BY <1>2, <1>6, <1>7, <1>8, <1>9, OwnersKept

(* A request is prepared: whoever is to get a mailbox was not leaving, or  *)
(* has it already.                                                         *)
LEMMA PreparedProspective ==
  ASSUME LocalTypes, Unborn, NEW q \in Request, Fits(q), q.kind \in Composite, Acceptable(q)
  PROVE  LET old == ChangePlan(q).old
             m == NewOwner(q)
         IN  /\ m # None =>
                  /\ m \in DOMAIN old.members /\ m \in Members
                  /\ q.kind # "member.create" =>
                       \/ old.members[m] = member[m].rev /\ member[m].status # "departed"
                       \/ q.box \in DOMAIN old.boxes /\ old.boxes[q.box] = mailbox[q.box].rev /\ mailbox[q.box].owner = m
             /\ q.kind = "member.create" => q.member \in DOMAIN old.members /\ old.members[q.member] = 0
<1> DEFINE old == ChangePlan(q).old
           m == NewOwner(q)
<1>1. /\ old.members = [x \in Concerned(q) |-> member[x].rev]
      /\ old.boxes = [b \in {q.box} \ {None} |-> mailbox[b].rev]
  BY ChangePlanTyped
<1>2. Concerned(q) \subseteq Members
  BY ConcernedTyped
<1> HIDE DEF old
<1>3. DOMAIN old.members = Concerned(q) /\ \A x \in Concerned(q) : old.members[x] = member[x].rev
  BY <1>1
<1>4. q.box # None => q.box \in DOMAIN old.boxes /\ old.boxes[q.box] = mailbox[q.box].rev
  BY <1>1
<1>5. CASE q.kind = "mailbox.update" /\ q.as # "shared"
  <2>1. m = q.owner
    BY <1>5 DEF NewOwner
  <2>2. q.box \in Mailboxes /\ q.box # None
    BY <1>5, NoneIsNothing DEF Fits, Mutations
  <2>3. MailboxAfter(q).owner = q.owner
    <3> DEFINE was == mailbox[q.box]
    <3>1. MailboxAfter(q) = [was EXCEPT !.kind = q.as, !.owner = q.owner, !.rev = @ + 1]
      BY <1>5 DEF MailboxAfter
    <3>2. DOMAIN was = {"status", "kind", "owner", "rev"}
      BY <2>2 DEF LocalTypes, MailboxRow
    <3> HIDE DEF was
    <3> QED
      BY <3>1, <3>2
  <2>4. m # None => m \in Concerned(q)
    BY <1>5, <2>1, <2>3 DEF Concerned, Mutations
  <2>5. m \notin {None, mailbox[q.box].owner} => member[m].status \in Eligible
    BY <1>5, <2>1, <2>3 DEF Acceptable
  <2>6. "departed" \notin Eligible
    BY DEF Eligible
  <2> HIDE DEF m
  <2> QED
    BY <1>2, <1>3, <1>4, <1>5, <2>2, <2>4, <2>5, <2>6 DEF m, old
<1>6. CASE q.kind = "mailbox.add"
  <2>1. m = q.owner
    BY <1>6 DEF NewOwner
  <2>2. m # None => m \in Concerned(q)
    BY <1>6, <2>1 DEF Concerned, Mutations
  <2>3. m # None => member[m].status \in Eligible
    BY <1>6, <2>1 DEF Acceptable
  <2>4. "departed" \notin Eligible
    BY DEF Eligible
  <2> HIDE DEF m
  <2> QED
    BY <1>2, <1>3, <1>6, <2>2, <2>3, <2>4 DEF m, old
<1>7. CASE q.kind = "member.create"
  <2>1. m \in {None, q.member}
    BY <1>7 DEF NewOwner
  <2>2. Concerned(q) = {q.member}
    BY <1>7 DEF Concerned, Mutations
  <2>3. q.member \in Members /\ member[q.member].status = "absent"
    BY <1>7 DEF Fits, Acceptable
  <2>4. old.members[q.member] = 0
    BY <1>3, <2>2, <2>3 DEF Unborn
  <2> HIDE DEF m
  <2> QED
    BY <1>2, <1>3, <1>7, <2>1, <2>2, <2>3, <2>4 DEF m, old
<1>8. CASE /\ ~(q.kind = "mailbox.update" /\ q.as # "shared")
           /\ q.kind # "mailbox.add" /\ q.kind # "member.create"
  <2>1. m = None
    BY <1>8 DEF NewOwner
  <2> QED
    BY <1>8, <2>1
<1> QED
  BY <1>5, <1>6, <1>7, <1>8

(* A request is prepared. *)
LEMMA PrepareOwners ==
  ASSUME AddressInv, AddressInv', OwnerInv, NEW o \in Ops, Prepare(o)
  PROVE  OwnerInv'
<1> DEFINE q == op'[o].request
<1>1. Types /\ WellFormed
  BY DEF AddressInv
<1>2. /\ OnlyOp(o) /\ op[o].status = "idle" /\ op'[o].status = "prepared" /\ UNCHANGED localVars
      /\ Acceptable(q) /\ q \in Request /\ Fits(q) /\ q.kind \in Composite /\ op'[o].plan = ChangePlan(q)
  BY <1>1, PrepareStep
<1>3. member' = member /\ mailbox' = mailbox
  BY <1>2 DEF localVars
<1>4. MembersMove(o) /\ BoxesMove(o)
  BY <1>3 DEF MembersMove, BoxesMove
<1>5. Remains(o)
  BY <1>2, LiveFacts DEF Remains
<1>6. ProspectiveOf(o)'
  <2> DEFINE old == op'[o].plan.old
             m == NewOwner(q)
  <2> HIDE DEF q
  <2>1. /\ m # None =>
             /\ m \in DOMAIN old.members /\ m \in Members
             /\ q.kind # "member.create" =>
                  \/ old.members[m] = member[m].rev /\ member[m].status # "departed"
                  \/ q.box \in DOMAIN old.boxes /\ old.boxes[q.box] = mailbox[q.box].rev /\ mailbox[q.box].owner = m
        /\ q.kind = "member.create" => q.member \in DOMAIN old.members /\ old.members[q.member] = 0
    BY <1>1, <1>2, PreparedProspective DEF Types, OwnerInv
  <2>2. /\ DOMAIN old.boxes \subseteq Mailboxes
        /\ \A x \in Members : member[x].rev \in Nat
        /\ \A b \in Mailboxes : mailbox[b].rev \in Nat
    <3>1. \A x \in Members : member[x].rev \in Nat
      BY <1>1 DEF Types, LocalTypes, MemberRow
    <3>2. \A b \in Mailboxes : mailbox[b].rev \in Nat
      BY <1>1 DEF Types, LocalTypes, MailboxRow
    <3>3. old.boxes = [b \in {q.box} \ {None} |-> mailbox[b].rev] /\ q.box \in Mailboxes \cup {None}
      BY <1>1, <1>2, ChangePlanTyped DEF Types, Request
    <3> QED
      BY <3>1, <3>2, <3>3
  <2> HIDE DEF old, m
  <2>3. /\ m # None =>
             /\ m \in DOMAIN old.members /\ m \in Members
             /\ q.kind # "member.create" =>
                  \/ /\ old.members[m] <= member[m].rev
                     /\ old.members[m] = member[m].rev => member[m].status # "departed"
                  \/ /\ q.box \in DOMAIN old.boxes /\ old.boxes[q.box] <= mailbox[q.box].rev
                     /\ old.boxes[q.box] = mailbox[q.box].rev => mailbox[q.box].owner = m
        /\ q.kind = "member.create" => q.member \in DOMAIN old.members /\ old.members[q.member] = 0
    BY <2>1, <2>2
  <2> QED
    BY <1>3, <2>3 DEF ProspectiveOf, old, m, q
<1>7. ReceivingOf(o)' /\ LeavingOf(o)'
  BY <1>2, LiveFacts DEF ReceivingOf, LeavingOf
<1> QED
  BY <1>2, <1>4, <1>5, <1>6, <1>7, OwnersKept

(* The request is reserved: nothing it was prepared from changed, and      *)
(* nobody else has its locks, so that the new owner is not leaving.        *)
LEMMA ReserveOwners ==
  ASSUME AddressInv, AddressInv', OwnerInv, NEW o \in Ops, Reserve(o)
  PROVE  OwnerInv'
<1> DEFINE q == op[o].request
           old == op[o].plan.old
           m == NewOwner(q)
<1>1. Types /\ WellFormed /\ Exclusive
  BY DEF AddressInv
<1>2. /\ OnlyOp(o) /\ op[o].status = "prepared" /\ op'[o].status = "queued" /\ op'[o].request = q
      /\ q.kind \in Composite /\ DOMAIN op'[o].plan.old.members = DOMAIN old.members
      /\ Free(Keys(q, op[o].plan)) /\ Current(old)
      /\ op'[o].committed <=> (q.kind \in Immediate \/ (q.kind = "member.create" /\ q.as = "none"))
      /\ mailbox' = IF q.kind \in Immediate THEN MailboxesAfter(q) ELSE mailbox
      /\ member' = IF q.kind \in Immediate THEN MembersAfter(q) ELSE Invited(q)
  BY <1>1, ReserveStep
<1>3. LocalTypes /\ q \in Request /\ Fits(q)
  BY <1>1, <1>2, OpRowFields DEF Types, WellFormed, Asked
<1>4. q.kind # "member.offboard" /\ (q.kind = "member.create" => q.kind \notin Immediate)
  BY <1>2 DEF Composite, Mutations, Immediate
<1>5. /\ m # None =>
           /\ m \in DOMAIN old.members /\ m \in Members
           /\ q.kind # "member.create" =>
                \/ old.members[m] = member[m].rev => member[m].status # "departed"
                \/ /\ q.box \in DOMAIN old.boxes
                   /\ old.boxes[q.box] = mailbox[q.box].rev => mailbox[q.box].owner = m
      /\ q.kind = "member.create" => q.member \in DOMAIN old.members /\ old.members[q.member] = 0
  BY <1>2 DEF OwnerInv, Prospective, ProspectiveOf
<1>6. /\ \A x \in DOMAIN old.members : member[x].rev = old.members[x]
      /\ \A b \in DOMAIN old.boxes : mailbox[b].rev = old.boxes[b]
  BY <1>2 DEF Current
<1>7. DOMAIN old.members \subseteq Members /\ DOMAIN old.boxes \subseteq Mailboxes
  BY <1>1, OldTyped DEF Types
<1>8. ASSUME m # None, q.kind # "member.create" PROVE member[m].status # "departed"
  <2>1. CASE old.members[m] = member[m].rev => member[m].status # "departed"
    BY <1>5, <1>6, <1>8, <2>1
  <2>2. CASE /\ q.box \in DOMAIN old.boxes
             /\ old.boxes[q.box] = mailbox[q.box].rev => mailbox[q.box].owner = m
    <3>1. q.box \in Mailboxes /\ mailbox[q.box].owner = m
      BY <1>6, <1>7, <2>2
    <3> SUFFICES ASSUME member[m].status = "departed" PROVE FALSE
      OBVIOUS
    <3>2. PICK p \in Ops : op[p].status \in Live /\ Offboards(p) /\ ~op[p].committed /\ op[p].request.member = m
      BY <1>8, <3>1 DEF OwnerInv, NoMailboxLeftBehind
    <3>3. m \in DOMAIN op[p].plan.old.members
      BY <3>2 DEF OwnerInv, Leaving, LeavingOf
    <3>4. <<"member", m>> \in Held(p)
      BY <3>2, <3>3, MemberHeld
    <3>5. <<"member", m>> \in Keys(q, op[o].plan)
      BY <1>5, <1>8, KeyOfMember
    <3> QED
      BY <1>2, <3>4, <3>5 DEF Free
  <2> QED
    BY <1>5, <1>8, <2>1, <2>2
<1>9. CASE q.kind \in Immediate
  <2>1. member' = MembersAfter(q) /\ mailbox' = MailboxesAfter(q) /\ op'[o].committed
    BY <1>2, <1>9
  <2>2. MembersMove(o)
    <3>1. ASSUME NEW x \in Members
          PROVE  \/ member'[x] = member[x]
                 \/ member'[x].rev > member[x].rev /\ member'[x].status \in {"invited", "active", "disabled"}
      BY <1>2, <1>3, <2>1, MovedMembers
    <3> QED
      BY <3>1 DEF MembersMove
  <2>3. BoxesMove(o)
    <3>1. ASSUME NEW b \in Mailboxes
          PROVE  mailbox'[b] = mailbox[b] \/ (mailbox'[b].rev > mailbox[b].rev /\ mailbox'[b].owner = mailbox[b].owner)
      BY <1>2, <1>3, <1>9, <2>1, MovedBoxes
    <3> QED
      BY <3>1 DEF BoxesMove
  <2>4. Remains(o) /\ ProspectiveOf(o)' /\ ReceivingOf(o)' /\ LeavingOf(o)'
    BY <1>2, <1>4, <2>1, LiveFacts DEF Remains, ProspectiveOf, ReceivingOf, LeavingOf, Offboards
  <2> QED
    BY <1>2, <2>2, <2>3, <2>4, OwnersKept
<1>10. CASE q.kind = "member.create"
  <2> DEFINE x == q.member
             new == [status |-> "invited", rev |-> 1]
  <2>1. member' = [member EXCEPT ![x] = new] /\ mailbox' = mailbox
    BY <1>2, <1>4, <1>10 DEF Invited
  <2>2. x \in Members /\ member[x].rev = 0
    BY <1>5, <1>6, <1>7, <1>10
  <2>3. m \in {None, x}
    BY <1>10 DEF NewOwner
  <2>4. member \in [Members -> MemberRow] /\ x # None
    BY <1>3, <2>2, NoneIsNothing DEF LocalTypes
  <2>5. new.rev > member[x].rev /\ new.status \notin {"absent", "departed"}
    BY <2>2
  <2> HIDE DEF new
  <2>6. member'[x] = new /\ \A y \in Members \ {x} : member'[y] = member[y]
    BY <2>1, <2>2, <2>4
  <2>7. MembersMove(o)
    BY <2>5, <2>6 DEF MembersMove
  <2>8. BoxesMove(o)
    BY <2>1 DEF BoxesMove
  <2>9. Remains(o) /\ ProspectiveOf(o)' /\ LeavingOf(o)'
    BY <1>2, <1>4, LiveFacts DEF Remains, ProspectiveOf, LeavingOf, Offboards
  <2>10. ReceivingOf(o)'
    <3>1. x \in DOMAIN op'[o].plan.old.members /\ member'[x].status # "departed"
      BY <1>2, <1>5, <1>10, <2>5, <2>6
    <3> QED
      BY <1>2, <2>3, <3>1 DEF ReceivingOf
  <2> QED
    BY <1>2, <2>7, <2>8, <2>9, <2>10, OwnersKept
<1>11. CASE q.kind \notin Immediate /\ q.kind # "member.create"
  <2>1. member' = member /\ mailbox' = mailbox
    BY <1>2, <1>11 DEF Invited
  <2>2. MembersMove(o) /\ BoxesMove(o)
    BY <2>1 DEF MembersMove, BoxesMove
  <2>3. Remains(o) /\ ProspectiveOf(o)' /\ LeavingOf(o)'
    BY <1>2, <1>4, LiveFacts DEF Remains, ProspectiveOf, LeavingOf, Offboards
  <2>4. ReceivingOf(o)'
    BY <1>2, <1>5, <1>8, <1>11, <2>1 DEF ReceivingOf
  <2> QED
    BY <1>2, <2>2, <2>3, <2>4, OwnersKept
<1> QED
  BY <1>9, <1>10, <1>11

(* A change of a group or an address concerns no owner. *)
LEMMA SubmitOwners ==
  ASSUME AddressInv, AddressInv', OwnerInv, NEW o \in Ops, Submit(o)
  PROVE  OwnerInv'
<1>1. /\ OnlyOp(o) /\ op[o].status = "idle" /\ op'[o].status \in Live /\ op'[o].committed
      /\ op'[o].request.kind \in Routes /\ member' = member /\ mailbox' = mailbox
  BY SubmitStep DEF AddressInv
<1>2. MembersMove(o) /\ BoxesMove(o)
  BY <1>1 DEF MembersMove, BoxesMove
<1>3. Remains(o) /\ ProspectiveOf(o)' /\ ReceivingOf(o)' /\ LeavingOf(o)'
  BY <1>1, LiveFacts DEF Remains, ProspectiveOf, ReceivingOf, LeavingOf, Offboards, Routes
<1> QED
  BY <1>1, <1>2, <1>3, OwnersKept

(* The mailboxes of somebody who leaves go to an heir who is locked and    *)
(* active, and none of them is left.                                       *)
LEMMA HandOverOwners ==
  ASSUME AddressInv, AddressInv', OwnerInv, NEW o \in Ops, HandOver(o)
  PROVE  OwnerInv'
<1> DEFINE q == op[o].request
           given == DOMAIN op[o].plan.old.boxes
<1>1. Types /\ WellFormed /\ Exclusive
  BY DEF AddressInv
<1>2. /\ OnlyOp(o) /\ op[o].status \in Live /\ op'[o].status \in Live /\ op'[o].committed /\ ~op[o].committed
      /\ op'[o].request = q /\ op'[o].plan.old = op[o].plan.old /\ Offboards(o) /\ member' = member
  BY <1>1, HandOverStep
<1>3. /\ \A b \in Mailboxes \ given : mailbox'[b] = mailbox[b]
      /\ \A b \in Mailboxes \cap given :
           /\ mailbox'[b].owner = IF q.as = "handover" THEN q.owner ELSE None
           /\ mailbox'[b].rev = mailbox[b].rev + 1
      /\ q.as = "handover" /\ given # {} => member[q.owner].status = "active"
  BY <1>1, HandOverStep
<1>4. /\ q.member \in DOMAIN op[o].plan.old.members
      /\ q.as = "handover" /\ given # {} => q.owner \in DOMAIN op[o].plan.old.members
      /\ \A b \in Mailboxes : mailbox[b].owner = q.member => b \in given
  BY <1>2 DEF OwnerInv, Leaving, LeavingOf
<1>5. q.member # None
  BY <1>1, <1>4, OldTyped, NoneIsNothing DEF Types
<1>6. MembersMove(o)
  BY <1>2 DEF MembersMove
<1>7. BoxesMove(o)
  <2>1. ASSUME NEW b \in Mailboxes \cap given PROVE mailbox'[b].rev > mailbox[b].rev
    <3>1. mailbox[b].rev \in Nat
      BY <1>1 DEF Types, LocalTypes, MailboxRow
    <3> QED
      BY <1>3, <3>1
  <2>2. ASSUME NEW b \in Mailboxes \cap given, mailbox'[b].owner # None
        PROVE  <<"member", mailbox'[b].owner>> \in Held(o) /\ member'[mailbox'[b].owner].status # "departed"
    <3>1. q.as = "handover" /\ mailbox'[b].owner = q.owner /\ given # {}
      BY <1>3, <2>2
    <3> QED
      BY <1>2, <1>3, <1>4, <3>1, MemberHeld
  <2> QED
    BY <1>3, <2>1, <2>2 DEF BoxesMove
<1>8. Remains(o)
  <2>1. ASSUME NEW b \in Mailboxes, mailbox'[b].owner = q.member PROVE member'[mailbox'[b].owner].status # "departed"
    <3>1. b \in given
      BY <1>3, <1>4, <2>1
    <3>2. q.as = "handover" /\ mailbox'[b].owner = q.owner
      BY <1>3, <1>5, <2>1, <3>1
    <3> QED
      BY <1>2, <1>3, <3>1, <3>2
  <2> QED
    BY <2>1 DEF Remains
<1>9. ProspectiveOf(o)' /\ ReceivingOf(o)'
  BY <1>2, LiveFacts DEF ProspectiveOf, ReceivingOf
<1>10. LeavingOf(o)'
  BY <1>2, <1>4 DEF LeavingOf
<1> QED
  BY <1>2, <1>6, <1>7, <1>8, <1>9, <1>10, OwnersKept

(* Somebody departs whom nobody has locked; the plan takes every mailbox   *)
(* of theirs.                                                              *)
LEMMA DepartOwners ==
  ASSUME AddressInv, AddressInv', OwnerInv, NEW o \in Ops, Depart(o)
  PROVE  OwnerInv'
<1> DEFINE m == op'[o].request.member
<1>1. Types /\ WellFormed /\ Exclusive
  BY DEF AddressInv
<1>2. /\ OnlyOp(o) /\ op[o].status = "idle" /\ op'[o].status \in Live /\ ~op'[o].committed
      /\ op'[o].request.kind = "member.offboard" /\ mailbox' = mailbox
  BY <1>1, DepartStep
<1>3. /\ m \in Members /\ Free({<<"member", m>>})
      /\ member'[m].status = "departed" /\ member'[m].rev = member[m].rev + 1
      /\ \A x \in Members \ {m} : member'[x] = member[x]
      /\ m \in DOMAIN op'[o].plan.old.members /\ DOMAIN op'[o].plan.old.boxes = Owned(m)
      /\ op'[o].request.as = "handover" /\ Owned(m) # {} => op'[o].request.owner \in DOMAIN op'[o].plan.old.members
  BY <1>1, DepartStep
<1> HIDE DEF m
<1>4. MembersMove(o)
  <2>1. member[m].rev \in Nat
    BY <1>1, <1>3 DEF Types, LocalTypes, MemberRow
  <2>2. member'[m].rev > member[m].rev
    BY <1>3, <2>1
  <2>3. \A p \in Ops \ {o} : <<"member", m>> \notin Held(p)
    BY <1>3 DEF Free
  <2>4. op'[o].status \in Live /\ Offboards(o)' /\ ~op'[o].committed /\ op'[o].request.member = m
    BY <1>2 DEF Offboards, m
  <2> QED
    BY <1>3, <2>2, <2>3, <2>4 DEF MembersMove
<1>5. BoxesMove(o)
  BY <1>2 DEF BoxesMove
<1>6. Remains(o)
  BY <1>2, LiveFacts DEF Remains
<1>7. ProspectiveOf(o)'
  BY <1>2, LiveFacts DEF ProspectiveOf
<1>8. ReceivingOf(o)'
  BY <1>2 DEF ReceivingOf, NewOwner
<1>9. LeavingOf(o)'
  <2>1. \A b \in Mailboxes : mailbox'[b].owner = m => b \in DOMAIN op'[o].plan.old.boxes
    BY <1>2, <1>3 DEF Owned
  <2> QED
    BY <1>3, <2>1 DEF LeavingOf, m
<1> QED
  BY <1>2, <1>4, <1>5, <1>6, <1>7, <1>8, <1>9, OwnersKept

(* Requests that are refused, confirmed or finished; a new member becomes  *)
(* active.                                                                 *)
LEMMA ClosesOwners ==
  ASSUME AddressInv, AddressInv', OwnerInv, NEW o \in Ops, Closes(o)
  PROVE  OwnerInv'
<1>1. Types /\ WellFormed
  BY DEF AddressInv
<1>2. Ends(o) /\ mailbox' = mailbox
  BY <1>1, ClosesStep
<1>3. CASE Refuse(o)
  <2>1. op[o].status = "prepared" /\ member' = member
    BY <1>3 DEF Refuse, localVars
  <2> QED
    BY <1>2, <2>1, LiveFacts, EndsOwners DEF MembersMove
<1>4. CASE Confirm(o)
  <2>1. op[o].processed /\ member' = member
    BY <1>4 DEF Confirm, localVars
  <2>2. op[o].committed
    BY <1>1, <2>1 DEF WellFormed, Asked
  <2> QED
    BY <1>2, <2>1, <2>2, EndsOwners DEF MembersMove
<1>5. CASE Finish(o)
  <2> DEFINE q == op[o].request
             x == q.member
             new == [status |-> Enabled(x), rev |-> member[x].rev + 1]
  <2>1. /\ ~Offboards(o) /\ op[o].status = "running"
        /\ member' = IF q.kind = "member.create" THEN [member EXCEPT ![x] = new] ELSE member
    BY <1>5 DEF Finish, AllDone, Between, Running
  <2>2. MembersMove(o)
    <3>1. CASE q.kind = "member.create"
      <4>1. x \in Members
        BY <1>1, <2>1, <3>1, LiveFacts DEF WellFormed, Asked, Fits
      <4>2. member \in [Members -> MemberRow] /\ member[x].rev \in Nat
        BY <1>1, <4>1 DEF Types, LocalTypes, MemberRow
      <4>3. new.rev > member[x].rev /\ new.status \notin {"absent", "departed"}
        BY <4>2 DEF Enabled
      <4> HIDE DEF new, x
      <4>4. member'[x] = new /\ \A y \in Members \ {x} : member'[y] = member[y]
        BY <2>1, <3>1, <4>1, <4>2
      <4> QED
        BY <4>3, <4>4 DEF MembersMove
    <3>2. CASE q.kind # "member.create"
      BY <2>1, <3>2 DEF MembersMove
    <3> QED
      BY <3>1, <3>2
  <2> QED
    BY <1>2, <2>1, <2>2, EndsOwners
<1> QED
  BY <1>3, <1>4, <1>5 DEF Closes

(* Every step keeps what is so of owners. *)
LEMMA OwnersStep ==
  ASSUME AddressInv, AddressInv', OwnerInv, NEW o \in Ops, OpStep(o)
  PROVE  OwnerInv'
<1>1. Types /\ WellFormed
  BY DEF AddressInv
<1>2. CASE Paces(o)
  <2>1. GoesOn(o) /\ OwnersStay
    BY <1>1, <1>2, PacesGoesOn DEF Types, OwnersStay
  <2> QED
    BY <2>1, GoesOnOwners
<1>3. CASE RemoteCall(o)
  <2>1. GoesOn(o) /\ OwnersStay
    BY <1>1, <1>3, RemoteCallStep DEF OwnersStay
  <2> QED
    BY <2>1, GoesOnOwners
<1>4. CASE FinishOffboard(o)
  <2>1. OwnersStay /\ (GoesOn(o) \/ (Ends(o) /\ op[o].committed))
    BY <1>1, <1>4, FinishOffboardStep DEF OwnersStay, localVars
  <2> QED
    BY <2>1, GoesOnOwners, EndsOwners DEF OwnersStay, MembersMove
<1>5. CASE Cancel(o)
  <2>1. OwnersStay /\ Ends(o) /\ (op[o].request.kind = "member.offboard" => op[o].committed)
    BY <1>1, <1>5, CancelStep DEF OwnersStay
  <2> QED
    BY <2>1, EndsOwners DEF OwnersStay, MembersMove, Offboards
<1>6. CASE PartCommit(o)
  <2>1. OwnersStay /\ op[o].part # None /\ (GoesOn(o) \/ Ends(o))
    BY <1>1, <1>6, PartCommitStep DEF OwnersStay
  <2>2. op[o].committed
    BY <1>1, <2>1 DEF WellFormed, Shaped
  <2> QED
    BY <2>1, <2>2, GoesOnOwners, EndsOwners DEF OwnersStay, MembersMove
<1> QED
  BY <1>2, <1>3, <1>4, <1>5, <1>6, ClosesOwners, CommitChangeOwners, PrepareOwners, ReserveOwners, SubmitOwners,
     HandOverOwners, DepartOwners DEF OpStep

(* Every step of the specification keeps it. *)
LEMMA OwnersNext ==
  ASSUME AddressInv, OwnerInv, Gone, Next
  PROVE  OwnerInv'
<1>0. AddressInv' /\ Types
  BY AddressNext DEF AddressInv
<1>1. CASE \E o \in Ops : OpStep(o)
  BY <1>0, <1>1, OwnersStep
<1>2. ASSUME NEW c \in Connections, Sync(c) \/ Discover(c) PROVE OwnerInv'
  <2>1. op' = op /\ member' = member /\ mailbox' = mailbox
    BY <1>0, <1>2, SyncStep, DiscoverStep DEF localVars
  <2> QED
    BY <1>0, <2>1, ReadOwners
<1>3. ASSUME NEW r \in Rules, Import(r) \/ Foreign(r) PROVE OwnerInv'
  <2>1. op' = op /\ member' = member /\ mailbox' = mailbox
    BY <1>0, <1>3, ImportStep DEF Foreign
  <2> QED
    BY <1>0, <2>1, ReadOwners
<1>4. ASSUME NEW b \in Mailboxes, ImportMailbox(b) PROVE OwnerInv'
  <2>1. /\ op' = op /\ member' = member
        /\ mailbox'[b].owner = None /\ mailbox'[b].rev = mailbox[b].rev + 1
        /\ \A x \in Mailboxes \ {b} : mailbox'[x] = mailbox[x]
    BY <1>0, <1>4, ImportMailboxStep
  <2>2. mailbox[b].rev \in Nat
    BY <1>0 DEF Types, LocalTypes, MailboxRow
  <2>3. mailbox'[b].rev > mailbox[b].rev
    BY <2>1, <2>2
  <2> QED
    BY <1>0, <2>1, <2>3, ReadOwners
<1>5. ASSUME NEW b \in Mailboxes, NEW m \in Members, CompleteConnectionSetup(b, m) PROVE OwnerInv'
  BY <1>0, <1>5, SetupOwners
<1> QED
  BY <1>1, <1>2, <1>3, <1>4, <1>5, NextCases

(* So does a step that changes nothing. *)
LEMMA OwnersStutter ==
  ASSUME AddressInv, OwnerInv, UNCHANGED vars
  PROVE  OwnerInv'
<1>1. AddressInv'
  BY AddressStutter
<1>2. op' = op /\ member' = member /\ mailbox' = mailbox
  BY DEF vars, localVars
<1> QED
  BY <1>1, <1>2, ReadOwners

(* It holds at the beginning. *)
LEMMA OwnersInit ==
  ASSUME Init
  PROVE  OwnerInv
<1>1. PICK i \in Initially :
        /\ member = i.member /\ mailbox = i.mailbox
        /\ op = [o \in Ops |-> IF o \in i.asking THEN Idle ELSE Settled("rejected")]
  BY DEF Init
<1>2. Consistent(i)
  BY InitiallyConsistent
<1>3. \A o \in Ops : op[o].status \notin Live \cup {"prepared"}
  BY <1>1, IdleTyped, LiveFacts
<1>4. Unborn /\ NoMailboxLeftBehind
  BY <1>1, <1>2 DEF Consistent, Unborn, NoMailboxLeftBehind
<1>5. Prospective /\ Receiving /\ Leaving
  BY <1>3 DEF Prospective, ProspectiveOf, Receiving, ReceivingOf, Leaving, LeavingOf
<1> QED
  BY <1>4, <1>5 DEF OwnerInv

-----------------------------------------------------------------------------
(* Groups and their teams. *)

\* A part of the plan of an operation concerns the group and is not done.
InWork(g) == \E o \in Ops : op[o].status \in Live /\ ~Offboards(o) /\ g \in DOMAIN op[o].plan.parts \ op[o].done

\* Somebody leaves whose offboarding has not gone through its groups yet.
Departing(g) ==
  \E o \in Ops : /\ op[o].status \in Live /\ Offboards(o) /\ ~op[o].committed
                 /\ \E k \in DOMAIN op[o].plan.parts : op[o].plan.parts[k].group = g

Calm(g) == g \notin abandoned /\ ~InWork(g)

\* Who is not there yet is in no team.
NobodyAbsent == \A g \in Groups : \A m \in group[g].team : member[m].status # "absent"

\* An address of a group is one, and its group exists.
AddressesFit ==
  \A r \in Rules : rule[r].group # 0 => rule[r].exists /\ rule[r].kind = "group" /\ group[rule[r].group].exists

\* A plan that is to be executed by groups has a part for each, which names every member of
\* the team and keeps one address.
PartFits(o, k) ==
  LET p == op[o].plan.parts[k]
  IN  /\ p.group = k
      /\ op[o].request.kind # "group.delete" => DOMAIN p.versions.members = p.team
      /\ op[o].request.kind # "group.delete" =>
           \A m \in p.team : \/ member[m].status # "absent"
                             \/ op[o].status = "prepared" /\ op[o].request.kind = "member.create" /\ m = op[o].request.member
      /\ op[o].request.kind = "group.delete" => \A r \in DOMAIN p.rules : p.rules[r].delete
      /\ \A r, s \in DOMAIN p.rules : ~p.rules[r].delete /\ ~p.rules[s].delete => r = s
PartsFitOf(o) ==
  op[o].status \in Live \cup {"prepared"} /\ ~Offboards(o) => \A k \in DOMAIN op[o].plan.parts : PartFits(o, k)
PartsFit == \A o \in Ops : PartsFitOf(o)

\* A change that was not made yet concerns the members it was planned for, as long as the mailbox is
\* the same.
ConcernsOf(o) ==
  LET q == op[o].request
      old == op[o].plan.old
  IN  \/ op[o].status = "prepared"
      \/ op[o].status \in Live /\ q.kind \in Composite /\ ~op[o].committed
      => /\ q.kind \notin Mutations => DOMAIN old.members = Concerned(q)
         /\ q.box # None => /\ q.box \in DOMAIN old.boxes /\ old.boxes[q.box] <= mailbox[q.box].rev
                            /\ old.boxes[q.box] = mailbox[q.box].rev =>
                                 /\ DOMAIN old.members = Concerned(q)
                                 /\ mailbox[q.box].owner \in Concerned(q) \cup {None} \/ mailbox[q.box].status = "absent"
Concerns == \A o \in Ops : ConcernsOf(o)

\* What a request was prepared for is all there is to change at a group, as long as its revision is
\* the same and nobody is at work on it.
PreparedFor(o, k) ==
  LET p == op[o].plan.before[k]
  IN  /\ k \in Groups /\ p.group = k /\ p.rev <= group[k].rev
      /\ DOMAIN p.rules = DOMAIN op[o].plan.parts[k].rules
      /\ \A r \in DOMAIN p.rules : /\ p.rules[r].rev <= rule[r].rev
                                   /\ p.rules[r].rev = rule[r].rev => rule[r].group \in {0, k}
      /\ group[k].rev = p.rev /\ Calm(k) => AddressesOf(k) \subseteq DOMAIN p.rules
PreparedOf(o) ==
  op[o].status = "prepared" =>
    /\ DOMAIN op[o].plan.before = DOMAIN op[o].plan.parts
    /\ \A k \in DOMAIN op[o].plan.before : PreparedFor(o, k)
    /\ op[o].request.kind = "member.create" /\ member[op[o].request.member].rev = 0 =>
         member[op[o].request.member].status = "absent"
PreparedWell == \A o \in Ops : PreparedOf(o)

\* A change that is to be made is planned with every group of the members it concerns.
CoveredOf(o) ==
  op[o].status \in Live /\ op[o].request.kind \in Composite /\ ~op[o].committed =>
    \A g \in Groups \ missed :
      group[g].exists /\ group[g].team \cap DOMAIN op[o].plan.old.members # {} => g \in DOMAIN op[o].plan.parts
Covered == \A o \in Ops : CoveredOf(o)

\* A part that is not done is about all addresses of its group.
WithinOf(o) ==
  op[o].status \in Live /\ ~Offboards(o) =>
    \A k \in (DOMAIN op[o].plan.parts \ op[o].done) \ abandoned :
      k # 0 => AddressesOf(k) \subseteq DOMAIN op[o].plan.parts[k].rules
Within == \A o \in Ops : WithinOf(o)

\* A group that nobody is at work on has one address.
Single == \A g \in Groups : Calm(g) => \A r, s \in AddressesOf(g) : r = s

\* It follows its team.
Following(g) == \A r \in AddressesOf(g) : rule[r].desired = Candidates(group[g].team, member, mailbox)
Follow == \A g \in Groups \ missed : Calm(g) /\ ~Departing(g) => Following(g)

GroupInv == /\ NobodyAbsent /\ AddressesFit /\ PartsFit /\ Concerns /\ PreparedWell
            /\ Covered /\ Within /\ Single /\ Follow

-----------------------------------------------------------------------------
(* What a step may do to groups and their addresses. *)

\* No operation but o works on the group x; x = 0 is none.
Works(o, x) == x # 0 => \A p \in Ops \ {o} : <<"group", x>> \notin Held(p)

\* Groups but x may lose members and addresses, and are not given up, missed or left for that matter.
Loses(g) ==
  /\ group'[g].rev >= group[g].rev /\ group'[g].team \subseteq group[g].team
  /\ group'[g].exists => group[g].exists
  /\ AddressesOf(g)' \subseteq AddressesOf(g)
  /\ g \in abandoned => g \in abandoned'
  /\ g \in missed => g \in missed'
  /\ Calm(g)' => Calm(g)
GroupsMove(x) == \A g \in Groups \ {x} : Loses(g)

\* The group x was counted up or is not at rest, or has no address; whoever is in it is locked.
Settles(o, x) ==
  x \in Groups =>
    /\ group'[x].rev >= group[x].rev
    /\ group'[x].rev > group[x].rev \/ ~Calm(x)' \/ AddressesOf(x)' = {}
    /\ \/ ~group'[x].exists
       \/ \A m \in group'[x].team : \A p \in Ops \ {o} : <<"member", m>> \notin Held(p)
       \/ group'[x] = group[x] /\ (x \in missed => x \in missed')

\* Rows change with their revision; an address only ever leaves its group without.
RulesMove ==
  \A r \in Rules : rule'[r].rev >= rule[r].rev /\ (rule'[r].rev = rule[r].rev => rule'[r].group \in {0, rule[r].group})
RowsMove ==
  /\ \A m \in Members : member'[m] = member[m] \/ (member'[m].rev > member[m].rev /\ member'[m].status # "absent")
  /\ \A b \in Mailboxes : mailbox'[b] = mailbox[b] \/ mailbox'[b].rev > mailbox[b].rev

(* The parts of plans are typed. *)
LEMMA PartsTyped ==
  ASSUME OpTypes, NEW o \in Ops
  PROVE  /\ \A k \in DOMAIN op[o].plan.parts : op[o].plan.parts[k] \in PartRow /\ k \in Indices
         /\ \A k \in DOMAIN op[o].plan.before : op[o].plan.before[k] \in PartRow /\ k \in Indices
<1>1. op[o].plan.parts \in PFun(Indices, PartRow) /\ op[o].plan.before \in PFun(Indices, PartRow)
  BY OpRowFields
<1> QED
  BY <1>1, PartialApplied

(* What the fields of a part are. *)
LEMMA PartFields ==
  ASSUME NEW p \in PartRow
  PROVE  /\ p.group \in Groups \cup {0} /\ p.rev \in Nat /\ p.team \subseteq Members
         /\ DOMAIN p.versions.members \subseteq Members /\ DOMAIN p.versions.boxes \subseteq Mailboxes
         /\ DOMAIN p.rules \subseteq Rules
         /\ \A r \in DOMAIN p.rules : p.rules[r] \in RuleWish
<1>1. p.versions.members \in PFun(Members, Nat) /\ p.versions.boxes \in PFun(Mailboxes, Nat) /\ p.rules \in PFun(Rules, RuleWish)
  BY DEF PartRow, Versions
<1>2. p.group \in Groups \cup {0} /\ p.rev \in Nat /\ p.team \subseteq Members
  BY DEF PartRow
<1> QED
  BY <1>1, <1>2, PartialApplied

(* The plans of others stay fit. *)
LEMMA BystanderFits ==
  ASSUME Types, NEW p \in Ops, op'[p] = op[p], RowsMove, PartsFitOf(p)
  PROVE  PartsFitOf(p)'
<1>1. \A m \in Members : member'[m].status = "absent" => member[m].status = "absent"
  BY DEF RowsMove
<1>2. \A k \in DOMAIN op[p].plan.parts : op[p].plan.parts[k].team \subseteq Members
  BY PartsTyped, PartFields DEF Types
<1>3. SUFFICES ASSUME op[p].status \in Live \cup {"prepared"}, ~Offboards(p), NEW k \in DOMAIN op[p].plan.parts
               PROVE  PartFits(p, k)'
  BY DEF PartsFitOf, Offboards
<1>4. PartFits(p, k)
  BY <1>3 DEF PartsFitOf
<1> QED
  BY <1>1, <1>2, <1>3, <1>4 DEF PartFits

(* Whom a change concerns depends on its mailbox only. *)
LEMMA ConcernedSame ==
  ASSUME NEW q, q.kind \in Mutations => mailbox'[q.box] = mailbox[q.box]
  PROVE  Concerned(q)' = Concerned(q)
<1>1. CASE q.kind \in Mutations
  <2>1. MailboxAfter(q)' = MailboxAfter(q)
    BY <1>1 DEF MailboxAfter
  <2> QED
    BY <1>1, <2>1 DEF Concerned
<1>2. CASE q.kind \notin Mutations
  BY <1>2 DEF Concerned
<1> QED
  BY <1>1, <1>2

(* Others' changes go on concerning the same members. *)
LEMMA BystanderConcerns ==
  ASSUME Types, Types', NEW p \in Ops, op'[p] = op[p], RowsMove, ConcernsOf(p)
  PROVE  ConcernsOf(p)'
<1> DEFINE q == op[p].request
           old == op[p].plan.old
<1>1. SUFFICES ASSUME op[p].status = "prepared" \/ (op[p].status \in Live /\ q.kind \in Composite /\ ~op[p].committed)
               PROVE  /\ q.kind \notin Mutations => DOMAIN old.members = Concerned(q)'
                      /\ q.box # None => /\ q.box \in DOMAIN old.boxes /\ old.boxes[q.box] <= mailbox'[q.box].rev
                                         /\ old.boxes[q.box] = mailbox'[q.box].rev =>
                                              /\ DOMAIN old.members = Concerned(q)'
                                              /\ mailbox'[q.box].owner \in Concerned(q)' \cup {None} \/ mailbox'[q.box].status = "absent"
  BY DEF ConcernsOf
<1>2. /\ q.kind \notin Mutations => DOMAIN old.members = Concerned(q)
      /\ q.box # None => /\ q.box \in DOMAIN old.boxes /\ old.boxes[q.box] <= mailbox[q.box].rev
                         /\ old.boxes[q.box] = mailbox[q.box].rev =>
                              /\ DOMAIN old.members = Concerned(q)
                              /\ mailbox[q.box].owner \in Concerned(q) \cup {None} \/ mailbox[q.box].status = "absent"
  BY <1>1 DEF ConcernsOf
<1>3. DOMAIN old.boxes \subseteq Mailboxes /\ \A b \in DOMAIN old.boxes : old.boxes[b] \in Nat
  BY OldTyped DEF Types
<1>4. \A b \in Mailboxes : mailbox[b].rev \in Nat /\ mailbox'[b].rev \in Nat
  BY DEF Types, LocalTypes, MailboxRow
<1>5. q.kind \notin Mutations => Concerned(q)' = Concerned(q)
  BY ConcernedSame
<1>6. mailbox'[q.box] = mailbox[q.box] => Concerned(q)' = Concerned(q)
  BY ConcernedSame
<1>7. q.box \in Mailboxes => mailbox'[q.box] = mailbox[q.box] \/ mailbox'[q.box].rev > mailbox[q.box].rev
  BY DEF RowsMove
<1> HIDE DEF q, old
<1>8. CASE q.box = None
  BY <1>2, <1>5, <1>8
<1>9. CASE q.box # None /\ mailbox'[q.box] = mailbox[q.box]
  BY <1>2, <1>5, <1>6, <1>9
<1>10. CASE q.box # None /\ mailbox'[q.box].rev > mailbox[q.box].rev
  <2> DEFINE x == old.boxes[q.box]
             y == mailbox[q.box].rev
             z == mailbox'[q.box].rev
  <2>1. x \in Nat /\ y \in Nat /\ z \in Nat /\ x <= y /\ z > y
    BY <1>2, <1>3, <1>4, <1>10
  <2> HIDE DEF x, y, z
  <2>2. x <= z /\ x # z
    BY <2>1
  <2> QED
    BY <1>2, <1>5, <1>10, <2>2 DEF x, z
<1> QED
  BY <1>2, <1>3, <1>7, <1>8, <1>9, <1>10

(* Numbers that only grow. *)
LEMMA Grown ==
  ASSUME NEW x \in Nat, NEW y \in Nat, NEW z \in Nat, x <= y, z >= y
  PROVE  x <= z /\ (x = z => x = y /\ y = z) /\ (z > y => x # z)
OBVIOUS

(* What others prepared stays all there is to change. *)
LEMMA BystanderPreparedFor ==
  ASSUME Types, Types', NEW o, NEW p \in Ops, NEW x, op'[p] = op[p], GroupsMove(x), Settles(o, x), RulesMove,
         NEW k \in DOMAIN op[p].plan.before, k \in Groups, PreparedFor(p, k)
  PROVE  PreparedFor(p, k)'
<1> DEFINE part == op[p].plan.before[k]
<1>1. /\ part.group = k /\ part.rev <= group[k].rev
      /\ DOMAIN part.rules = DOMAIN op[p].plan.parts[k].rules
      /\ \A r \in DOMAIN part.rules : /\ part.rules[r].rev <= rule[r].rev
                                      /\ part.rules[r].rev = rule[r].rev => rule[r].group \in {0, k}
      /\ group[k].rev = part.rev /\ Calm(k) => AddressesOf(k) \subseteq DOMAIN part.rules
  BY DEF PreparedFor
<1>2. part \in PartRow
  BY PartsTyped DEF Types
<1>3. part.rev \in Nat /\ DOMAIN part.rules \subseteq Rules /\ \A r \in DOMAIN part.rules : part.rules[r].rev \in Nat
  BY <1>2, PartFields DEF RuleWish
<1>4. group[k].rev \in Nat /\ group'[k].rev \in Nat
  BY DEF Types, LocalTypes, GroupRow
<1>5. \A r \in Rules : rule[r].rev \in Nat /\ rule'[r].rev \in Nat
  BY DEF Types, LocalTypes, RuleRow
<1> SUFFICES /\ part.group = k /\ part.rev <= group'[k].rev
             /\ DOMAIN part.rules = DOMAIN op[p].plan.parts[k].rules
             /\ \A r \in DOMAIN part.rules : /\ part.rules[r].rev <= rule'[r].rev
                                             /\ part.rules[r].rev = rule'[r].rev => rule'[r].group \in {0, k}
             /\ group'[k].rev = part.rev /\ Calm(k)' => AddressesOf(k)' \subseteq DOMAIN part.rules
  BY DEF PreparedFor
<1> HIDE DEF part
<1>6. group'[k].rev >= group[k].rev
  BY DEF GroupsMove, Loses, Settles
<1>7. part.rev <= group'[k].rev /\ (part.rev = group'[k].rev => part.rev = group[k].rev /\ group[k].rev = group'[k].rev)
      /\ (group'[k].rev > group[k].rev => part.rev # group'[k].rev)
  BY <1>1, <1>3, <1>4, <1>6, Grown
<1>8. ASSUME NEW r \in DOMAIN part.rules
      PROVE  /\ part.rules[r].rev <= rule'[r].rev
             /\ part.rules[r].rev = rule'[r].rev => rule'[r].group \in {0, k}
  <2>1. r \in Rules /\ rule'[r].rev >= rule[r].rev /\ (rule'[r].rev = rule[r].rev => rule'[r].group \in {0, rule[r].group})
    BY <1>3 DEF RulesMove
  <2>2. part.rules[r].rev <= rule'[r].rev
        /\ (part.rules[r].rev = rule'[r].rev => part.rules[r].rev = rule[r].rev /\ rule[r].rev = rule'[r].rev)
    BY <1>1, <1>3, <1>5, <2>1, Grown
  <2> QED
    BY <1>1, <2>1, <2>2
<1>9. ASSUME group'[k].rev = part.rev, Calm(k)'
      PROVE  AddressesOf(k)' \subseteq DOMAIN part.rules
  <2>1. group[k].rev = part.rev /\ ~(group'[k].rev > group[k].rev)
    BY <1>7, <1>9
  <2>2. CASE k # x
    BY <1>1, <1>9, <2>1, <2>2 DEF GroupsMove, Loses
  <2>3. CASE k = x
    BY <1>9, <2>1, <2>3 DEF Settles
  <2> QED
    BY <2>2, <2>3
<1> QED
  BY <1>1, <1>7, <1>8, <1>9

(* Who is not there yet has no revision, also after a step. *)
LEMMA BystanderPrepared ==
  ASSUME Types, Types', WellFormed, NEW o, NEW p \in Ops, NEW x, op'[p] = op[p],
         GroupsMove(x), Settles(o, x), RulesMove, RowsMove, PartsFitOf(p), PreparedOf(p)
  PROVE  PreparedOf(p)'
<1> SUFFICES ASSUME op[p].status = "prepared"
             PROVE  /\ DOMAIN op[p].plan.before = DOMAIN op[p].plan.parts
                    /\ \A k \in DOMAIN op[p].plan.before : PreparedFor(p, k)'
                    /\ op[p].request.kind = "member.create" /\ member'[op[p].request.member].rev = 0 =>
                         member'[op[p].request.member].status = "absent"
  BY DEF PreparedOf
<1>1. /\ DOMAIN op[p].plan.before = DOMAIN op[p].plan.parts
      /\ \A k \in DOMAIN op[p].plan.before : PreparedFor(p, k)
      /\ op[p].request.kind = "member.create" /\ member[op[p].request.member].rev = 0 =>
           member[op[p].request.member].status = "absent"
  BY DEF PreparedOf
<1>2. ASSUME NEW k \in DOMAIN op[p].plan.before PROVE PreparedFor(p, k)'
  <2>1. PreparedFor(p, k)
    BY <1>1
  <2>2. k \in Groups
    BY <2>1 DEF PreparedFor
  <2> QED
    BY <2>1, <2>2, BystanderPreparedFor
<1>3. ASSUME op[p].request.kind = "member.create", member'[op[p].request.member].rev = 0
      PROVE  member'[op[p].request.member].status = "absent"
  <2>1. op[p].request.member \in Members
    <3>1. Asked(op[p])
      BY DEF WellFormed
    <3> QED
      BY <1>3, <3>1 DEF Asked, Fits
  <2>2. member'[op[p].request.member] = member[op[p].request.member] \/ member'[op[p].request.member].rev > member[op[p].request.member].rev
    BY <2>1 DEF RowsMove
  <2>3. member[op[p].request.member].rev \in Nat
    BY <2>1 DEF Types, LocalTypes, MemberRow
  <2> QED
    BY <1>1, <1>3, <2>2, <2>3
<1> QED
  BY <1>1, <1>2, <1>3

(* A part of a plan locks its group, and its members. *)
LEMMA KeyOfGroup ==
  ASSUME NEW p \in Ops, op[p].status \in Live, NEW k \in DOMAIN op[p].plan.parts
  PROVE  /\ op[p].plan.parts[k].group # 0 => <<"group", op[p].plan.parts[k].group>> \in Held(p)
         /\ \A m \in DOMAIN op[p].plan.parts[k].versions.members : <<"member", m>> \in Held(p)
<1>1. PartKeys(op[p].plan.parts[k]) \subseteq Keys(op[p].request, op[p].plan)
  <2>1. PartKeys(op[p].plan.parts[k]) \subseteq KeysOf(op[p].plan.parts)
    BY DEF KeysOf
  <2> QED
    BY <2>1 DEF Keys
<1>2. /\ op[p].plan.parts[k].group # 0 => <<"group", op[p].plan.parts[k].group>> \in PartKeys(op[p].plan.parts[k])
      /\ \A m \in DOMAIN op[p].plan.parts[k].versions.members : <<"member", m>> \in PartKeys(op[p].plan.parts[k])
  BY DEF PartKeys
<1> QED
  BY <1>1, <1>2, HeldIs

(* Who works on a group locks it. *)
LEMMA WorkHeld ==
  ASSUME NEW p \in Ops, PartsFitOf(p), op[p].status \in Live, ~Offboards(p), NEW k \in DOMAIN op[p].plan.parts, k # 0
  PROVE  <<"group", k>> \in Held(p)
<1>1. op[p].plan.parts[k].group = k
  BY DEF PartsFitOf, PartFits
<1> QED
  BY <1>1, KeyOfGroup

(* The changes of others stay planned with every group they concern. *)
LEMMA BystanderCovered ==
  ASSUME NEW o, NEW p \in Ops \ {o}, NEW x, op'[p] = op[p], GroupsMove(x), Settles(o, x), CoveredOf(p)
  PROVE  CoveredOf(p)'
<1> SUFFICES ASSUME op[p].status \in Live, op[p].request.kind \in Composite, ~op[p].committed, NEW g \in Groups, g \notin missed',
                    group'[g].exists, group'[g].team \cap DOMAIN op[p].plan.old.members # {}
             PROVE  g \in DOMAIN op[p].plan.parts
  BY DEF CoveredOf
<1>1. \A h \in Groups \ missed :
        group[h].exists /\ group[h].team \cap DOMAIN op[p].plan.old.members # {} => h \in DOMAIN op[p].plan.parts
  BY DEF CoveredOf
<1>2. CASE g # x
  BY <1>1, <1>2 DEF GroupsMove, Loses
<1>3. CASE g = x
  <2>1. \A m \in DOMAIN op[p].plan.old.members : <<"member", m>> \in Held(p)
    BY MemberHeld
  <2>2. ~\A m \in group'[x].team : \A q \in Ops \ {o} : <<"member", m>> \notin Held(q)
    BY <1>3, <2>1
  <2>3. group'[x] = group[x] /\ (x \in missed => x \in missed')
    BY <1>3, <2>2 DEF Settles
  <2> QED
    BY <1>1, <1>3, <2>3
<1> QED
  BY <1>2, <1>3

(* The plans of others stay about all addresses of their groups. *)
LEMMA BystanderWithin ==
  ASSUME Types, NEW o, NEW p \in Ops \ {o}, NEW x, op'[p] = op[p], GroupsMove(x), Works(o, x), PartsFitOf(p), WithinOf(p)
  PROVE  WithinOf(p)'
<1> SUFFICES ASSUME op[p].status \in Live, ~Offboards(p), NEW k \in (DOMAIN op[p].plan.parts \ op[p].done) \ abandoned', k # 0
             PROVE  AddressesOf(k)' \subseteq DOMAIN op[p].plan.parts[k].rules
  BY DEF WithinOf, Offboards
<1>1. <<"group", k>> \in Held(p)
  BY WorkHeld
<1>2. k # x
  BY <1>1 DEF Works
<1>3. k \in Groups
  <2>1. op[p].plan.parts[k] \in PartRow /\ op[p].plan.parts[k].group = k
    BY PartsTyped DEF PartsFitOf, PartFits, Types
  <2> QED
    BY <2>1, PartFields
<1>4. AddressesOf(k)' \subseteq AddressesOf(k) /\ k \notin abandoned
  BY <1>2, <1>3 DEF GroupsMove, Loses
<1>5. AddressesOf(k) \subseteq DOMAIN op[p].plan.parts[k].rules
  BY <1>4 DEF WithinOf
<1> QED
  BY <1>4, <1>5

\* What is to be shown for the operation that acts, and for the group x.
OwnGroups(o) == PartsFitOf(o) /\ ConcernsOf(o) /\ PreparedOf(o) /\ CoveredOf(o) /\ WithinOf(o)
OfGroupX(x) ==
  x \in Groups => /\ \A m \in group[x].team : member[m].status # "absent"
                  /\ Calm(x) => \A r, s \in AddressesOf(x) : r = s

(* What is so of groups stays so when one operation moves. *)
LEMMA GroupsKept ==
  ASSUME Types, Types', WellFormed, GroupInv, NEW o, NEW x, OnlyOp(o), Works(o, x), Settles(o, x), GroupsMove(x), RulesMove, RowsMove,
         o \in Ops => OwnGroups(o)', OfGroupX(x)', AddressesFit', Follow'
  PROVE  GroupInv'
<1>1. ASSUME NEW p \in Ops \ {o}
      PROVE  PartsFitOf(p)' /\ ConcernsOf(p)' /\ PreparedOf(p)' /\ CoveredOf(p)' /\ WithinOf(p)'
  <2>1. op'[p] = op[p]
    BY DEF OnlyOp
  <2>2. PartsFitOf(p) /\ ConcernsOf(p) /\ PreparedOf(p) /\ CoveredOf(p) /\ WithinOf(p)
    BY DEF GroupInv, PartsFit, Concerns, PreparedWell, Covered, Within
  <2>3. PartsFitOf(p)'
    BY <2>1, <2>2, BystanderFits
  <2>4. ConcernsOf(p)'
    BY <2>1, <2>2, BystanderConcerns
  <2>5. PreparedOf(p)'
    BY <2>1, <2>2, BystanderPrepared
  <2>6. CoveredOf(p)'
    BY <2>1, <2>2, BystanderCovered
  <2>7. WithinOf(p)'
    BY <2>1, <2>2, BystanderWithin
  <2> QED
    BY <2>3, <2>4, <2>5, <2>6, <2>7
<1>2. PartsFit' /\ Concerns' /\ PreparedWell' /\ Covered' /\ Within'
  <2>1. \A p \in Ops : PartsFitOf(p)' /\ ConcernsOf(p)' /\ PreparedOf(p)' /\ CoveredOf(p)' /\ WithinOf(p)'
    BY <1>1 DEF OwnGroups
  <2> QED
    BY <2>1 DEF PartsFit, Concerns, PreparedWell, Covered, Within
<1>3. NobodyAbsent'
  <2>1. SUFFICES ASSUME NEW g \in Groups, NEW m \in group'[g].team PROVE member'[m].status # "absent"
    BY DEF NobodyAbsent
  <2>2. CASE g = x
    BY <2>2 DEF OfGroupX
  <2>3. CASE g # x
    <3>1. m \in group[g].team /\ m \in Members
      BY <2>1, <2>3 DEF GroupsMove, Loses, Types, LocalTypes, GroupRow
    <3>2. member[m].status # "absent"
      BY <3>1 DEF GroupInv, NobodyAbsent
    <3> QED
      BY <3>1, <3>2 DEF RowsMove
  <2> QED
    BY <2>2, <2>3
<1>4. Single'
  <2>1. SUFFICES ASSUME NEW g \in Groups, Calm(g)', NEW r \in AddressesOf(g)', NEW s \in AddressesOf(g)' PROVE r = s
    BY DEF Single
  <2>2. CASE g = x
    BY <2>1, <2>2 DEF OfGroupX
  <2>3. CASE g # x
    <3>1. Calm(g) /\ r \in AddressesOf(g) /\ s \in AddressesOf(g)
      BY <2>1, <2>3 DEF GroupsMove, Loses
    <3> QED
      BY <3>1 DEF GroupInv, Single
  <2> QED
    BY <2>2, <2>3
<1> QED
  BY <1>2, <1>3, <1>4 DEF GroupInv

-----------------------------------------------------------------------------
(* Steps that leave the groups as they are. *)

\* The mailbox is none that a group with this team distributes to.
NotFor(T, row) == row.status # "active" \/ row.kind # "personal" \/ row.owner \notin T

(* A group distributes to the same mailboxes as long as its members stay   *)
(* eligible or not, and a mailbox stays what it is or is none of theirs.   *)
LEMMA CandidatesSame ==
  ASSUME NEW T, NEW M, NEW N, NEW B, NEW C,
         \A m \in T : M[m].status \in Eligible <=> N[m].status \in Eligible,
         \A b \in Mailboxes :
           \/ C[b].status = B[b].status /\ C[b].kind = B[b].kind /\ C[b].owner = B[b].owner
           \/ NotFor(T, B[b]) /\ NotFor(T, C[b])
  PROVE  Candidates(T, N, C) = Candidates(T, M, B)
<1>1. ASSUME NEW b \in Mailboxes
      PROVE  /\ B[b].status = "active" /\ B[b].kind = "personal" /\ B[b].owner \in T /\ M[B[b].owner].status \in Eligible
             <=> /\ C[b].status = "active" /\ C[b].kind = "personal" /\ C[b].owner \in T /\ N[C[b].owner].status \in Eligible
  <2>1. CASE C[b].status = B[b].status /\ C[b].kind = B[b].kind /\ C[b].owner = B[b].owner
    BY <2>1
  <2>2. CASE NotFor(T, B[b]) /\ NotFor(T, C[b])
    BY <2>2 DEF NotFor
  <2> QED
    BY <2>1, <2>2
<1> QED
  BY <1>1 DEF Candidates

\* The groups an operation has work at, and those that somebody is leaving by it.
Busy(o)   == IF op[o].status \in Live /\ ~Offboards(o) THEN DOMAIN op[o].plan.parts \ op[o].done ELSE {}
Leaves(o) == IF op[o].status \in Live /\ Offboards(o) /\ ~op[o].committed
             THEN {op[o].plan.parts[k].group : k \in DOMAIN op[o].plan.parts} ELSE {}
OthersBusy(o, g)  == \E p \in Ops \ {o} : g \in Busy(p)
OthersLeave(o, g) == \E p \in Ops \ {o} : g \in Leaves(p)

(* Who works on a group after a step of one operation. *)
LEMMA WorkMoves ==
  ASSUME NEW o \in Ops, OnlyOp(o), NEW g
  PROVE  /\ InWork(g) <=> g \in Busy(o) \/ OthersBusy(o, g)
         /\ InWork(g)' <=> g \in Busy(o)' \/ OthersBusy(o, g)
         /\ Departing(g) <=> g \in Leaves(o) \/ OthersLeave(o, g)
         /\ Departing(g)' <=> g \in Leaves(o)' \/ OthersLeave(o, g)
<1>1. \A p \in Ops \ {o} : op'[p] = op[p]
  BY DEF OnlyOp
<1>2. InWork(g) <=> \E p \in Ops : g \in Busy(p)
  BY DEF InWork, Busy
<1>3. InWork(g)' <=> \E p \in Ops : g \in Busy(p)'
  BY DEF InWork, Busy, Offboards
<1>4. Departing(g) <=> \E p \in Ops : g \in Leaves(p)
  BY DEF Departing, Leaves
<1>5. Departing(g)' <=> \E p \in Ops : g \in Leaves(p)'
  BY DEF Departing, Leaves, Offboards
<1>6. ASSUME NEW p \in Ops \ {o} PROVE Busy(p)' = Busy(p) /\ Leaves(p)' = Leaves(p)
  BY <1>1 DEF Busy, Leaves, Offboards
<1> QED
  BY <1>2, <1>3, <1>4, <1>5, <1>6 DEF OthersBusy, OthersLeave

\* An address stays with its group.
StaysWith(new, old) == new.exists = old.exists /\ new.group = old.group /\ new.kind = old.kind /\ new.rev >= old.rev

(* Groups and their addresses stay, and those at rest have to follow the   *)
(* same teams: what is so of groups stays so.                              *)
LEMMA QuietGroups ==
  ASSUME AddressInv, AddressInv', GroupInv, NEW o, OnlyOp(o), group' = group, RowsMove,
         \A r \in Rules : StaysWith(rule'[r], rule[r]),
         missed \subseteq missed', abandoned \subseteq abandoned',
         \A g \in Groups : (Calm(g)' => Calm(g)) /\ (Departing(g) => Departing(g)'),
         o \in Ops => OwnGroups(o)',
         \A g \in Groups \ missed' : Calm(g)' /\ ~Departing(g)' /\ AddressesOf(g) # {} =>
           /\ Candidates(group[g].team, member', mailbox') = Candidates(group[g].team, member, mailbox)
           /\ \A r \in AddressesOf(g) : rule'[r].desired = rule[r].desired
  PROVE  GroupInv'
<1>1. Types /\ Types' /\ WellFormed
  BY DEF AddressInv
<1>2. 0 \notin Groups
  BY IdsArePositive
<1>3. Works(o, 0) /\ Settles(o, 0) /\ OfGroupX(0)'
  BY <1>2 DEF Works, Settles, OfGroupX
<1>4. \A g \in Groups : AddressesOf(g)' = AddressesOf(g)
  BY DEF AddressesOf, StaysWith
<1>5. GroupsMove(0)
  <2>1. \A g \in Groups : group[g].rev \in Nat
    BY <1>1 DEF Types, LocalTypes, GroupRow
  <2> QED
    BY <1>4, <2>1 DEF GroupsMove, Loses
<1>6. RulesMove
  BY DEF RulesMove, StaysWith
<1>7. AddressesFit'
  BY DEF GroupInv, AddressesFit, StaysWith
<1>8. Follow'
  <2> SUFFICES ASSUME NEW g \in Groups \ missed', Calm(g)', ~Departing(g)', NEW r \in AddressesOf(g)'
               PROVE  rule'[r].desired = Candidates(group'[g].team, member', mailbox')
    BY DEF Follow, Following
  <2>1. r \in AddressesOf(g)
    BY <1>4
  <2>2. rule[r].desired = Candidates(group[g].team, member, mailbox)
    BY <2>1 DEF GroupInv, Follow, Following
  <2> QED
    BY <2>1, <2>2
<1> QED
  BY <1>1, <1>3, <1>5, <1>6, <1>7, <1>8, GroupsKept

(* The part of a plan that is not executed for somebody who leaves is that of its group. *)
LEMMA GroupPartOf ==
  ASSUME Types, NEW o \in Ops, PartsFitOf(o), op[o].status \in Live \cup {"prepared"}, ~Offboards(o),
         NEW k \in DOMAIN op[o].plan.parts
  PROVE  /\ op[o].plan.parts[k].group = k /\ k \in Groups \cup {0} /\ PartFits(o, k)
         /\ op[o].plan.parts[k] \in PartRow
<1>1. op[o].plan.parts[k] \in PartRow
  BY PartsTyped DEF Types
<1>2. PartFits(o, k)
  BY DEF PartsFitOf
<1>3. op[o].plan.parts[k].group = k
  BY <1>2 DEF PartFits
<1> QED
  BY <1>1, <1>2, <1>3, PartFields

(* A group with an address exists. *)
LEMMA AddressedExists ==
  ASSUME AddressesFit, NEW g \in Groups, AddressesOf(g) # {}
  PROVE  group[g].exists
<1>1. PICK r \in Rules : rule[r].group = g
  BY DEF AddressesOf
<1>2. g # 0
  BY IdsArePositive
<1> QED
  BY <1>1, <1>2 DEF AddressesFit

(* An operation that only goes on changes nothing about its groups. *)
LEMMA GoesOnGroups ==
  ASSUME AddressInv, AddressInv', GroupInv, NEW o \in Ops, GoesOn(o), ~Offboards(o) => op'[o].done = op[o].done,
         UNCHANGED <<member, mailbox, group, missed, abandoned>>,
         \A r \in Rules : StaysWith(rule'[r], rule[r]) /\ rule'[r].desired = rule[r].desired
  PROVE  GroupInv'
<1>1. /\ OnlyOp(o) /\ op[o].status \in Live /\ op'[o].status \in Live
      /\ op'[o].request = op[o].request /\ op'[o].plan = op[o].plan /\ op'[o].committed = op[o].committed
  BY DEF GoesOn
<1>2. Offboards(o)' <=> Offboards(o)
  BY <1>1 DEF Offboards
<1>3. \A g \in Groups : AddressesOf(g)' = AddressesOf(g)
  BY DEF AddressesOf, StaysWith
<1>4. "prepared" \notin Live
  BY LiveFacts
<1>5. OwnGroups(o)'
  <2>1. PartsFitOf(o) /\ ConcernsOf(o) /\ CoveredOf(o) /\ WithinOf(o)
    BY DEF GroupInv, PartsFit, Concerns, Covered, Within
  <2>2. PartsFitOf(o)'
    <3>1. SUFFICES ASSUME ~Offboards(o), NEW k \in DOMAIN op[o].plan.parts PROVE PartFits(o, k)'
      BY <1>1, <1>2 DEF PartsFitOf
    <3>2. PartFits(o, k)
      BY <1>1, <2>1, <3>1 DEF PartsFitOf
    <3>3. op[o].status # "prepared" /\ op'[o].status # "prepared"
      BY <1>1, <1>4
    <3> QED
      BY <1>1, <3>2, <3>3 DEF PartFits
  <2>3. ConcernsOf(o)'
    <3>1. Concerned(op[o].request)' = Concerned(op[o].request)
      BY <1>1, ConcernedSame
    <3>2. op[o].status # "prepared" /\ op'[o].status # "prepared"
      BY <1>1, <1>4
    <3> QED
      BY <1>1, <2>1, <3>1, <3>2, Zenon DEF ConcernsOf
  <2>4. PreparedOf(o)'
    BY <1>1, <1>4 DEF PreparedOf
  <2>5. CoveredOf(o)'
    BY <1>1, <2>1 DEF CoveredOf
  <2>6. WithinOf(o)'
    <3>1. SUFFICES ASSUME ~Offboards(o), NEW k \in (DOMAIN op[o].plan.parts \ op[o].done) \ abandoned, k # 0
                   PROVE  AddressesOf(k)' \subseteq DOMAIN op[o].plan.parts[k].rules
      BY <1>1, <1>2 DEF WithinOf
    <3>2. AddressesOf(k)' = AddressesOf(k)
      BY <1>1, <1>3, <2>1, <3>1, GroupPartOf DEF AddressInv
    <3> QED
      BY <1>1, <2>1, <3>1, <3>2 DEF WithinOf
  <2> QED
    BY <2>2, <2>3, <2>4, <2>5, <2>6 DEF OwnGroups
<1>6. Busy(o)' = Busy(o) /\ Leaves(o)' = Leaves(o)
  BY <1>1, <1>2 DEF Busy, Leaves
<1>7. \A g \in Groups : (Calm(g)' => Calm(g)) /\ (Departing(g) => Departing(g)')
  BY <1>1, <1>6, WorkMoves DEF Calm
<1>8. RowsMove
  BY DEF RowsMove
<1>9. /\ \A r \in Rules : StaysWith(rule'[r], rule[r])
      /\ missed \subseteq missed' /\ abandoned \subseteq abandoned' /\ group' = group
  OBVIOUS
<1>10. \A g \in Groups \ missed' : Calm(g)' /\ ~Departing(g)' /\ AddressesOf(g) # {} =>
         /\ Candidates(group[g].team, member', mailbox') = Candidates(group[g].team, member, mailbox)
         /\ \A r \in AddressesOf(g) : rule'[r].desired = rule[r].desired
  BY DEF AddressesOf
<1> QED
  BY <1>1, <1>5, <1>7, <1>8, <1>9, <1>10, QuietGroups, Zenon

(* An operation that has no work left at groups, or gives it up, ends. *)
LEMMA EndsGroups ==
  ASSUME AddressInv, AddressInv', GroupInv, NEW o \in Ops, Ends(o), Leaves(o) = {},
         \A g \in Busy(o) \cap Groups : g \in abandoned',
         UNCHANGED <<mailbox, group, missed>>, abandoned \subseteq abandoned', RowsMove,
         \A m \in Members : member'[m].status \in Eligible <=> member[m].status \in Eligible,
         \A r \in Rules : StaysWith(rule'[r], rule[r]) /\ rule'[r].desired = rule[r].desired
  PROVE  GroupInv'
<1>1. OnlyOp(o) /\ op'[o].status \in {"rejected", "succeeded", "cancelled"}
  <2>1. \A s \in {"rejected", "succeeded", "cancelled"} : Settled(s).status = s
    BY IdleTyped
  <2> QED
    BY <2>1 DEF Ends
<1>2. op'[o].status \notin Live \cup {"prepared"}
  BY <1>1, LiveFacts
<1>3. OwnGroups(o)'
  BY <1>2 DEF OwnGroups, PartsFitOf, ConcernsOf, PreparedOf, CoveredOf, WithinOf
<1>4. Busy(o)' = {} /\ Leaves(o)' = {}
  BY <1>2 DEF Busy, Leaves
<1>5. \A g \in Groups : (Calm(g)' => Calm(g)) /\ (Departing(g) => Departing(g)')
  BY <1>1, <1>4, WorkMoves DEF Calm
<1>6. ASSUME NEW g \in Groups
      PROVE  Candidates(group[g].team, member', mailbox') = Candidates(group[g].team, member, mailbox)
  <2>1. group[g].team \subseteq Members
    BY DEF AddressInv, Types, LocalTypes, GroupRow
  <2> QED
    BY <2>1, CandidatesSame
<1>7. /\ \A r \in Rules : StaysWith(rule'[r], rule[r])
      /\ missed \subseteq missed' /\ abandoned \subseteq abandoned' /\ group' = group
  OBVIOUS
<1>8. \A g \in Groups \ missed' : Calm(g)' /\ ~Departing(g)' /\ AddressesOf(g) # {} =>
         /\ Candidates(group[g].team, member', mailbox') = Candidates(group[g].team, member, mailbox)
         /\ \A r \in AddressesOf(g) : rule'[r].desired = rule[r].desired
  BY <1>6 DEF AddressesOf
<1> QED
  BY <1>1, <1>3, <1>5, <1>7, <1>8, QuietGroups, Zenon

(* What becomes of the resource rows of an address changes nothing else about it. *)
LEMMA OutdatedStays ==
  ASSUME LocalTypes, rule' = rule \/ \E r \in Rules : rule' = [rule EXCEPT ![r].rows = Outdated(@)]
  PROVE  \A r \in Rules : StaysWith(rule'[r], rule[r]) /\ rule'[r].desired = rule[r].desired
<1>1. \A r \in Rules : rule[r].rev \in Nat
  BY DEF LocalTypes, RuleRow
<1>2. CASE rule' = rule
  BY <1>1, <1>2 DEF StaysWith
<1>3. ASSUME NEW r \in Rules, rule' = [rule EXCEPT ![r].rows = Outdated(@)]
      PROVE  \A s \in Rules : StaysWith(rule'[s], rule[s]) /\ rule'[s].desired = rule[s].desired
  <2>1. rule \in [Rules -> RuleRow]
    BY DEF LocalTypes
  <2>2. DOMAIN rule[r] = {"exists", "kind", "group", "box", "rev", "desired", "targets", "observed", "state", "rows"}
    BY <2>1 DEF RuleRow
  <2> DEFINE new == [rule[r] EXCEPT !.rows = Outdated(@)]
  <2>3. StaysWith(new, rule[r]) /\ new.desired = rule[r].desired
    BY <1>1, <2>2 DEF StaysWith
  <2> HIDE DEF new
  <2>4. \A s \in Rules : rule'[s] = IF s = r THEN new ELSE rule[s]
    BY <1>3, <2>1 DEF new
  <2> QED
    BY <1>1, <2>3, <2>4 DEF StaysWith
<1> QED
  BY <1>2, <1>3

(* Only an offboarding starts its parts again. *)
LEMMA PacesDone ==
  ASSUME OpTypes, NEW o \in Ops, Paces(o), ~Offboards(o)
  PROVE  op'[o].done = op[o].done
<1>1. op \in [Ops -> OpRow]
  BY DEF OpTypes
<1>2. DOMAIN op[o] = {"status", "request", "plan", "committed", "processed", "part", "done"}
  BY <1>1 DEF OpRow
<1>3. CASE Start(o)
  BY <1>1, <1>2, <1>3 DEF Start
<1>4. CASE BeginPart(o)
  BY <1>1, <1>2, <1>4 DEF BeginPart
<1>5. CASE Stop(o)
  BY <1>1, <1>2, <1>5 DEF Stop
<1>6. CASE Mismatch(o)
  BY <1>1, <1>2, <1>6 DEF Mismatch
<1>7. CASE Conflict(o)
  BY <1>1, <1>2, <1>7 DEF Conflict
<1>8. CASE Reconcile(o)
  BY <1>1, <1>2, <1>8 DEF Reconcile
<1>9. CASE Retry(o)
  BY <1>1, <1>2, <1>9 DEF Retry
<1> QED
  BY <1>3, <1>4, <1>5, <1>6, <1>7, <1>8, <1>9 DEF Paces

(* A step of an execution that ends no part. *)
LEMMA PacesGroups ==
  ASSUME AddressInv, AddressInv', GroupInv, NEW o \in Ops, Paces(o)
  PROVE  GroupInv'
<1>1. OpTypes /\ WellFormed /\ Types
  BY DEF AddressInv, Types
<1>2. GoesOn(o) /\ UNCHANGED <<member, mailbox, group, rule, remote, snap, history>>
  BY <1>1, PacesGoesOn
<1>3. UNCHANGED <<member, mailbox, group, missed, abandoned>> /\ rule' = rule
  BY <1>2 DEF history
<1>4. \A r \in Rules : StaysWith(rule'[r], rule[r]) /\ rule'[r].desired = rule[r].desired
  <2>1. \A r \in Rules : rule[r].rev \in Nat
    BY <1>1 DEF Types, LocalTypes, RuleRow
  <2> QED
    BY <1>3, <2>1 DEF StaysWith
<1> QED
  BY <1>1, <1>2, <1>3, <1>4, PacesDone, GoesOnGroups

(* A call of the provider changes the resource rows of an address at most. *)
LEMMA RemoteCallGroups ==
  ASSUME AddressInv, AddressInv', GroupInv, NEW o \in Ops, RemoteCall(o)
  PROVE  GroupInv'
<1>1. Types /\ WellFormed
  BY DEF AddressInv
<1>2. /\ GoesOn(o) /\ op[o].part # None /\ op'[o].done = op[o].done
      /\ UNCHANGED <<member, mailbox, group, history>>
  BY <1>1, RemoteCallStep
<1>3. rule' = rule \/ \E r \in Rules : rule' = [rule EXCEPT ![r].rows = Outdated(@)]
  <2>1. CASE RemoteCreate(o)
    BY <2>1 DEF RemoteCreate, localVars
  <2>2. CASE RemoteDelete(o)
    <3>1. Unhandled(o) # {}
      BY <2>2 DEF RemoteDelete
    <3>2. NextRule(o) \in Rules
      BY <1>1, <1>2, <3>1, NextRuleTyped DEF Types
    <3>3. rule' = rule \/ rule' = [rule EXCEPT ![NextRule(o)].rows = Outdated(@)]
      BY <2>2 DEF RemoteDelete
    <3> QED
      BY <3>2, <3>3
  <2> QED
    BY <2>1, <2>2 DEF RemoteCall
<1>4. \A r \in Rules : StaysWith(rule'[r], rule[r]) /\ rule'[r].desired = rule[r].desired
  BY <1>1, <1>3, OutdatedStays DEF Types
<1> QED
  BY <1>2, <1>4, GoesOnGroups DEF history

(* The end of an operation whose parts are done, and of a request that is  *)
(* refused: a new member stays eligible when they become active.           *)
LEMMA ClosesGroups ==
  ASSUME AddressInv, AddressInv', GroupInv, NEW o \in Ops, Closes(o)
  PROVE  GroupInv'
<1>1. Types /\ WellFormed
  BY DEF AddressInv
<1>2. Ends(o) /\ UNCHANGED <<mailbox, group, rule, remote, snap, history>>
  BY <1>1, ClosesStep
<1>3. UNCHANGED <<mailbox, group, missed, abandoned>> /\ rule' = rule
  BY <1>2 DEF history
<1>4. \A r \in Rules : StaysWith(rule'[r], rule[r]) /\ rule'[r].desired = rule[r].desired
  <2>1. \A r \in Rules : rule[r].rev \in Nat
    BY <1>1 DEF Types, LocalTypes, RuleRow
  <2> QED
    BY <1>3, <2>1 DEF StaysWith
<1>5. Leaves(o) = {} /\ Busy(o) = {}
  <2>1. CASE Refuse(o)
    BY <2>1, LiveFacts DEF Refuse, Leaves, Busy
  <2>2. CASE Confirm(o)
    <3>1. Offboards(o) /\ op[o].committed
      BY <1>1, <2>2 DEF Confirm, WellFormed, Asked
    <3> QED
      BY <3>1 DEF Leaves, Busy
  <2>3. CASE Finish(o)
    <3>1. ~Offboards(o) /\ Undone(o) = {}
      BY <2>3 DEF Finish, AllDone
    <3> QED
      BY <3>1 DEF Leaves, Busy, Undone
  <2> QED
    BY <2>1, <2>2, <2>3 DEF Closes
<1>6. /\ RowsMove
      /\ \A m \in Members : member'[m].status \in Eligible <=> member[m].status \in Eligible
  <2>1. CASE member' = member
    BY <1>3, <2>1 DEF RowsMove
  <2>2. CASE Finish(o) /\ op[o].request.kind = "member.create"
    <3> DEFINE x == op[o].request.member
               new == [status |-> Enabled(x), rev |-> member[x].rev + 1]
    <3>1. member' = [member EXCEPT ![x] = new]
      BY <2>2 DEF Finish
    <3>2. member[x].status = "invited" /\ member[x].rev = 1
      <4>1. op[o].request.kind \notin Mutations
        BY <2>2 DEF Mutations
      <4> QED
        BY <2>2, <4>1 DEF Finish, FinishValid
    <3>3. member \in [Members -> MemberRow]
      BY <1>1 DEF Types, LocalTypes
    <3>4. Enabled(x) \in {"invited", "active"}
      BY DEF Enabled
    <3>5. new.status \in {"invited", "active"} /\ new.rev > member[x].rev
      BY <3>2, <3>4
    <3> HIDE DEF new
    <3>6. \A m \in Members : member'[m] = IF m = x THEN new ELSE member[m]
      BY <3>1, <3>3
    <3> QED
      BY <1>3, <3>2, <3>5, <3>6 DEF RowsMove, Eligible
  <2>3. CASE Refuse(o) \/ Confirm(o) \/ (Finish(o) /\ op[o].request.kind # "member.create")
    <3>1. member' = member
      BY <2>3 DEF Refuse, Confirm, Finish, localVars
    <3> QED
      BY <2>1, <3>1
  <2> QED
    BY <2>2, <2>3 DEF Closes
<1> QED
  BY <1>2, <1>3, <1>4, <1>5, <1>6, EndsGroups

(* The end of an offboarding, whose groups have been counted up before. *)
LEMMA FinishOffboardGroups ==
  ASSUME AddressInv, AddressInv', GroupInv, NEW o \in Ops, FinishOffboard(o)
  PROVE  GroupInv'
<1>1. Types /\ WellFormed
  BY DEF AddressInv
<1>2. /\ \/ GoesOn(o) /\ stage' = stage /\ op'[o].done = op[o].done
         \/ Ends(o) /\ op[o].committed /\ Offboards(o)
      /\ UNCHANGED <<localVars, remote, snap, history>>
  BY <1>1, FinishOffboardStep
<1>3. UNCHANGED <<member, mailbox, group, missed, abandoned>> /\ rule' = rule
  BY <1>2 DEF history, localVars
<1>4. \A r \in Rules : StaysWith(rule'[r], rule[r]) /\ rule'[r].desired = rule[r].desired
  <2>1. \A r \in Rules : rule[r].rev \in Nat
    BY <1>1 DEF Types, LocalTypes, RuleRow
  <2> QED
    BY <1>3, <2>1 DEF StaysWith
<1>5. CASE GoesOn(o) /\ op'[o].done = op[o].done
  BY <1>3, <1>4, <1>5, GoesOnGroups
<1>6. CASE Ends(o) /\ op[o].committed /\ Offboards(o)
  <2>1. Busy(o) = {} /\ Leaves(o) = {}
    BY <1>6 DEF Busy, Leaves
  <2>2. RowsMove
    BY <1>3 DEF RowsMove
  <2> QED
    BY <1>3, <1>4, <1>6, <2>1, <2>2, EndsGroups
<1> QED
  BY <1>2, <1>5, <1>6

(* An operation that is given up gives up the groups it has not done. *)
LEMMA CancelGroups ==
  ASSUME AddressInv, AddressInv', GroupInv, NEW o \in Ops, Cancel(o)
  PROVE  GroupInv'
<1>1. Types /\ WellFormed
  BY DEF AddressInv
<1>2. /\ Ends(o) /\ op[o].status \in Live /\ (Offboards(o) => op[o].committed)
      /\ UNCHANGED <<member, mailbox, group>>
  BY <1>1, CancelStep DEF Offboards
<1>3. missed' = missed
  BY DEF Cancel
<1>4. \A r \in Rules : StaysWith(rule'[r], rule[r]) /\ rule'[r].desired = rule[r].desired
  <2> SUFFICES ASSUME NEW r \in Rules PROVE StaysWith(rule'[r], rule[r]) /\ rule'[r].desired = rule[r].desired
    OBVIOUS
  <2>1. rule[r].rev \in Nat /\ rule[r] \in RuleRow
    BY <1>1 DEF Types, LocalTypes, RuleRow
  <2>2. rule'[r] = rule[r] \/ rule'[r] = [rule[r] EXCEPT !.state = "unknown"]
    BY DEF Cancel
  <2>3. CASE rule'[r] = rule[r]
    BY <2>1, <2>3 DEF StaysWith
  <2>4. CASE rule'[r] = [rule[r] EXCEPT !.state = "unknown"]
    <3> DEFINE row == rule[r]
    <3>1. DOMAIN row = {"exists", "kind", "group", "box", "rev", "desired", "targets", "observed", "state", "rows"}
      BY <2>1 DEF RuleRow
    <3> HIDE DEF row
    <3>2. [row EXCEPT !.state = "unknown"].rev = row.rev /\ [row EXCEPT !.state = "unknown"].exists = row.exists
          /\ [row EXCEPT !.state = "unknown"].group = row.group /\ [row EXCEPT !.state = "unknown"].kind = row.kind
          /\ [row EXCEPT !.state = "unknown"].desired = row.desired
      BY <3>1
    <3> QED
      BY <2>1, <2>4, <3>2 DEF StaysWith, row
  <2> QED
    BY <2>2, <2>3, <2>4
<1>5. abandoned \subseteq abandoned' /\ \A g \in Busy(o) \cap Groups : g \in abandoned'
  <2>1. abandoned' = abandoned \cup ({op[o].plan.parts[k].group : k \in DOMAIN op[o].plan.parts \ op[o].done} \ {0})
    BY DEF Cancel
  <2>2. ASSUME NEW g \in Busy(o) \cap Groups PROVE g \in abandoned'
    <3>1. ~Offboards(o) /\ g \in DOMAIN op[o].plan.parts \ op[o].done
      BY <2>2 DEF Busy
    <3>2. op[o].plan.parts[g].group = g
      BY <1>2, <3>1 DEF GroupInv, PartsFit, PartsFitOf, PartFits
    <3>3. g # 0
      BY <2>2, IdsArePositive
    <3> QED
      BY <2>1, <3>1, <3>2, <3>3
  <2> QED
    BY <2>1, <2>2
<1>6. Leaves(o) = {}
  BY <1>2 DEF Leaves
<1>7. RowsMove
  BY <1>2 DEF RowsMove
<1> QED
  BY <1>2, <1>3, <1>4, <1>5, <1>6, <1>7, EndsGroups

(* Whoever gets a mailbox, their groups are concerned. *)
LEMMA AfterConcerned ==
  ASSUME LocalTypes, NEW q \in Request, Fits(q), q.kind \in Composite, q.box # None
  PROVE  MailboxAfter(q).owner \in Concerned(q) \cup {None}
<1>1. q.box \in Mailboxes
  BY DEF Request
<1> DEFINE was == mailbox[q.box]
<1>2. DOMAIN was = {"status", "kind", "owner", "rev"}
  BY <1>1 DEF LocalTypes, MailboxRow
<1>3. CASE q.kind \in Mutations
  <2>1. Concerned(q) = {mailbox[q.box].owner, MailboxAfter(q).owner} \ {None}
    <3>1. q.kind # "mailbox.add"
      BY <1>3 DEF Mutations
    <3> QED
      BY <1>3, <3>1, Zenon DEF Concerned
  <2> QED
    BY <2>1
<1>4. CASE q.kind = "mailbox.add"
  <2>1. MailboxAfter(q) = [status |-> "active", kind |-> q.as, owner |-> q.owner, rev |-> was.rev + 1]
    BY <1>4 DEF MailboxAfter
  <2>2. Concerned(q) = {q.owner} \ {None}
    BY <1>4 DEF Concerned, Mutations
  <2> QED
    BY <2>1, <2>2
<1>5. CASE q.kind = "member.create"
  <2>1. Concerned(q) = {q.member}
    BY <1>5 DEF Concerned, Mutations
  <2>2. CASE q.as = "create"
    <3>1. MailboxAfter(q) = [status |-> "active", kind |-> "personal", owner |-> q.member, rev |-> was.rev + 1]
      BY <1>5, <2>2 DEF MailboxAfter
    <3> QED
      BY <2>1, <3>1
  <2>3. CASE q.as # "create"
    <3>1. MailboxAfter(q) = [was EXCEPT !.owner = q.member, !.rev = @ + 1]
      BY <1>5, <2>3 DEF MailboxAfter
    <3> HIDE DEF was
    <3> QED
      BY <1>2, <2>1, <3>1
  <2> QED
    BY <2>2, <2>3
<1>6. CASE q.kind \in {"member.enable", "member.disable"}
  BY <1>6 DEF Fits
<1> QED
  BY <1>3, <1>4, <1>5, <1>6 DEF Composite

(* A change distributes nothing else to the groups it does not concern. *)
LEMMA ChangeElsewhere ==
  ASSUME LocalTypes, NEW q \in Request, Fits(q), q.kind \in Composite, NEW T \in SUBSET Members, T \cap Concerned(q) = {},
         q.box # None => mailbox[q.box].owner \in Concerned(q) \cup {None} \/ mailbox[q.box].status = "absent",
         NEW N \in {member, MembersAfter(q), Invited(q)}, NEW C \in {mailbox, MailboxesAfter(q)}
  PROVE  Candidates(T, N, C) = Candidates(T, member, mailbox)
<1>1. ASSUME NEW m \in T PROVE N[m] = member[m]
  <2>0. member \in [Members -> MemberRow] /\ m \in Members
    BY DEF LocalTypes
  <2>1. q.kind \in {"member.enable", "member.disable", "member.create"} => Concerned(q) = {q.member}
    BY DEF Concerned, Mutations
  <2>2. CASE N = member
    BY <2>2
  <2>3. CASE N = MembersAfter(q)
    <3>1. CASE q.kind \in {"member.enable", "member.disable"}
      <4>1. m # q.member
        BY <2>1, <3>1
      <4>2. N = [member EXCEPT ![q.member] = N[q.member]]
        BY <2>0, <2>3, <3>1 DEF MembersAfter
      <4> QED
        BY <2>0, <4>1, <4>2
    <3>2. CASE q.kind \notin {"member.enable", "member.disable"}
      BY <2>3, <3>2 DEF MembersAfter
    <3> QED
      BY <3>1, <3>2
  <2>4. CASE N = Invited(q)
    <3>1. CASE q.kind = "member.create"
      <4>1. m # q.member
        BY <2>1, <3>1
      <4> QED
        BY <2>0, <2>4, <3>1, <4>1 DEF Invited
    <3>2. CASE q.kind # "member.create"
      BY <2>4, <3>2 DEF Invited
    <3> QED
      BY <3>1, <3>2
  <2> QED
    BY <2>2, <2>3, <2>4
<1>2. ASSUME NEW b \in Mailboxes
      PROVE  C[b] = mailbox[b] \/ (NotFor(T, mailbox[b]) /\ NotFor(T, C[b]))
  <2>0. mailbox \in [Mailboxes -> MailboxRow]
    BY DEF LocalTypes
  <2>1. CASE C = mailbox \/ q.box = None
    BY <2>1 DEF MailboxesAfter
  <2>2. CASE C = MailboxesAfter(q) /\ q.box # None
    <3>1. C = [mailbox EXCEPT ![q.box] = MailboxAfter(q)] /\ q.box \in Mailboxes
      BY <2>2 DEF MailboxesAfter, Request
    <3>2. MailboxAfter(q).owner \in Concerned(q) \cup {None}
      BY <2>2, AfterConcerned
    <3>3. None \notin T
      BY NoneIsNothing
    <3>4. NotFor(T, MailboxAfter(q))
      BY <3>2, <3>3 DEF NotFor
    <3>5. NotFor(T, mailbox[q.box])
      BY <2>2, <3>3 DEF NotFor
    <3> QED
      BY <2>0, <3>1, <3>4, <3>5
  <2> QED
    BY <2>1, <2>2
<1> QED
  BY <1>1, <1>2, CandidatesSame

(* The change of a mailbox or a member: it was planned with every group it *)
(* concerns.                                                               *)
LEMMA CommitChangeGroups ==
  ASSUME AddressInv, AddressInv', GroupInv, NEW o \in Ops, CommitChange(o)
  PROVE  GroupInv'
<1> DEFINE q == op[o].request
           old == op[o].plan.old
<1>1. Types /\ WellFormed
  BY DEF AddressInv
<1>2. /\ OnlyOp(o) /\ op[o].status = "running" /\ op'[o].status = "running" /\ q.kind \in Composite
      /\ op'[o].request = q /\ op'[o].plan = op[o].plan /\ op'[o].committed /\ ~op[o].committed
      /\ op'[o].done = op[o].done
      /\ UNCHANGED <<group, rule, remote, snap, stage, history>>
  BY <1>1, CommitChangeStep
<1>3. mailbox' = MailboxesAfter(q) /\ member' = MembersAfter(q) /\ Current(old)
  BY <1>2 DEF CommitChange, Progress, RowsCurrent
<1>4. LocalTypes /\ q \in Request /\ Fits(q) /\ op[o].status \in Live /\ op[o].done = {}
  BY <1>1, <1>2, OpRowFields, LiveFacts DEF Types, WellFormed, Asked, Shaped
<1>5. group' = group /\ rule' = rule /\ missed' = missed /\ abandoned' = abandoned
  BY <1>2 DEF history
<1>6. ~Offboards(o) /\ ~Offboards(o)'
  BY <1>2 DEF Offboards, Composite, Mutations
<1>7. RowsMove
  <2>1. \A m \in Members : member'[m] = member[m] \/ (member'[m].rev > member[m].rev /\ member'[m].status # "absent")
    BY <1>2, <1>3, <1>4, MovedMembers
  <2>2. \A b \in Mailboxes : mailbox'[b] = mailbox[b] \/ mailbox'[b].rev > mailbox[b].rev
    BY <1>2, <1>3, <1>4, MovedBoxes
  <2> QED
    BY <2>1, <2>2 DEF RowsMove
<1>8. \A g \in Groups : AddressesOf(g)' = AddressesOf(g)
  BY <1>5 DEF AddressesOf
<1>9. PartsFitOf(o) /\ ConcernsOf(o) /\ CoveredOf(o) /\ WithinOf(o)
  BY DEF GroupInv, PartsFit, Concerns, Covered, Within
<1>10. OwnGroups(o)'
  <2>1. PartsFitOf(o)'
    <3>1. SUFFICES ASSUME NEW k \in DOMAIN op[o].plan.parts PROVE PartFits(o, k)'
      BY <1>2 DEF PartsFitOf
    <3>2. PartFits(o, k) /\ op[o].plan.parts[k].team \subseteq Members
      BY <1>1, <1>4, <1>6, <1>9, GroupPartOf, PartFields
    <3>3. \A m \in Members : member'[m].status = "absent" => member[m].status = "absent"
      BY <1>7 DEF RowsMove
    <3> QED
      BY <1>2, <3>2, <3>3 DEF PartFits
  <2>2. ConcernsOf(o)' /\ CoveredOf(o)' /\ PreparedOf(o)'
    BY <1>2 DEF ConcernsOf, CoveredOf, PreparedOf
  <2>3. WithinOf(o)'
    <3>1. SUFFICES ASSUME NEW k \in (DOMAIN op[o].plan.parts \ op[o].done) \ abandoned, k # 0
                   PROVE  AddressesOf(k)' \subseteq DOMAIN op[o].plan.parts[k].rules
      BY <1>2, <1>5 DEF WithinOf
    <3>2. AddressesOf(k)' = AddressesOf(k)
      BY <1>1, <1>4, <1>6, <1>8, <1>9, <3>1, GroupPartOf
    <3> QED
      BY <1>4, <1>6, <1>9, <3>1, <3>2 DEF WithinOf
  <2> QED
    BY <2>1, <2>2, <2>3 DEF OwnGroups
<1>11. Busy(o)' = Busy(o) /\ Leaves(o)' = Leaves(o)
  BY <1>2, <1>6 DEF Busy, Leaves
<1>12. \A g \in Groups : (Calm(g)' => Calm(g)) /\ (Departing(g) => Departing(g)')
  BY <1>2, <1>5, <1>11, WorkMoves DEF Calm
<1>13. \A r \in Rules : StaysWith(rule'[r], rule[r])
  <2>1. \A r \in Rules : rule[r].rev \in Nat
    BY <1>4 DEF LocalTypes, RuleRow
  <2> QED
    BY <1>5, <2>1 DEF StaysWith
<1>14. DOMAIN old.members = Concerned(q)
       /\ (q.box # None => mailbox[q.box].owner \in Concerned(q) \cup {None} \/ mailbox[q.box].status = "absent")
  <2>1. q.kind \notin Mutations => DOMAIN old.members = Concerned(q)
    BY <1>2, <1>4, <1>9 DEF ConcernsOf
  <2>2. q.box # None => /\ q.box \in DOMAIN old.boxes
                        /\ old.boxes[q.box] = mailbox[q.box].rev =>
                             /\ DOMAIN old.members = Concerned(q)
                             /\ mailbox[q.box].owner \in Concerned(q) \cup {None} \/ mailbox[q.box].status = "absent"
    BY <1>2, <1>4, <1>9 DEF ConcernsOf
  <2>3. q.kind \in Mutations => q.box # None
    BY <1>4, NoneIsNothing DEF Fits
  <2> QED
    BY <1>3, <2>1, <2>2, <2>3 DEF Current
<1>15. ASSUME NEW g \in Groups \ missed', Calm(g)', AddressesOf(g) # {}
       PROVE  Candidates(group[g].team, member', mailbox') = Candidates(group[g].team, member, mailbox)
  <2>1. group[g].exists
    BY <1>15, AddressedExists DEF GroupInv
  <2>2. g \notin DOMAIN op[o].plan.parts
    <3>1. g \notin Busy(o)
      BY <1>2, <1>15, <1>11, WorkMoves DEF Calm
    <3> QED
      BY <1>4, <1>6, <3>1 DEF Busy
  <2>3. group[g].team \cap Concerned(q) = {}
    BY <1>2, <1>4, <1>5, <1>9, <1>14, <1>15, <2>1, <2>2 DEF CoveredOf
  <2>4. group[g].team \in SUBSET Members
    BY <1>4 DEF LocalTypes, GroupRow
  <2> QED
    BY <1>2, <1>3, <1>4, <1>14, <2>3, <2>4, ChangeElsewhere
<1>16. \A g \in Groups \ missed' : Calm(g)' /\ ~Departing(g)' /\ AddressesOf(g) # {} =>
         /\ Candidates(group[g].team, member', mailbox') = Candidates(group[g].team, member, mailbox)
         /\ \A r \in AddressesOf(g) : rule'[r].desired = rule[r].desired
  BY <1>5, <1>15
<1>17. missed \subseteq missed' /\ abandoned \subseteq abandoned'
  BY <1>5
<1> QED
  BY <1>2, <1>5, <1>7, <1>10, <1>12, <1>13, <1>16, <1>17, QuietGroups, Zenon

(* The plan of a group, field by field. *)
LEMMA GroupPlanIs ==
  ASSUME NEW g, NEW T, NEW R, NEW M, NEW B
  PROVE  LET p == GroupPlan(g, T, R, M, B)
         IN  /\ p.group = g /\ p.rev = group[g].rev /\ p.team = T
             /\ DOMAIN p.versions.members = T /\ DOMAIN p.rules = R
             /\ \A r \in R : p.rules[r].rev = rule[r].rev /\ ~p.rules[r].delete
  BY DEF GroupPlan, RowVersions

(* The address of a group is one of its addresses, and all of them when    *)
(* nobody is at work on it.                                                *)
LEMMA AddressChosen ==
  ASSUME LocalTypes, Single, NEW g \in Groups
  PROVE  /\ AddressOf(g) \subseteq AddressesOf(g)
         /\ \A r, s \in AddressOf(g) : r = s
         /\ Calm(g) => AddressesOf(g) = AddressOf(g)
<1>1. AddressesOf(g) \in SUBSET Nat
  BY IndicesAreNat DEF AddressesOf
<1>2. CASE AddressesOf(g) = {}
  BY <1>2 DEF AddressOf
<1>3. CASE AddressesOf(g) # {}
  <2>1. Lowest(AddressesOf(g)) \in AddressesOf(g)
    BY <1>1, <1>3, LowestChosen
  <2>2. AddressOf(g) = {Lowest(AddressesOf(g))}
    BY <1>3 DEF AddressOf
  <2>3. Calm(g) => \A r, s \in AddressesOf(g) : r = s
    BY DEF Single
  <2> HIDE DEF Lowest
  <2> QED
    BY <2>1, <2>2, <2>3
<1> QED
  BY <1>2, <1>3

(* Groups are planned with their teams and their addresses. *)
LEMMA ChangePlanIs ==
  ASSUME NEW q, NEW k \in ConcernedGroups(q)
  PROVE  LET plan == ChangePlan(q)
         IN  /\ DOMAIN plan.parts = ConcernedGroups(q) /\ DOMAIN plan.before = ConcernedGroups(q)
             /\ plan.before[k] = GroupPlan(k, group[k].team, AddressOf(k), member, mailbox)
             /\ \E M, B : plan.parts[k] =
                  GroupPlan(k, group[k].team \cup (IF q.kind = "member.create" THEN {q.member} ELSE {}), AddressOf(k), M, B)
  BY DEF ChangePlan

(* What a request is prepared for. *)
LEMMA PreparedParts ==
  ASSUME LocalTypes, NobodyAbsent, Single, NEW q \in Request, Fits(q), q.kind \in Composite, NEW k \in ConcernedGroups(q)
  PROVE  LET b == ChangePlan(q).before[k]
             p == ChangePlan(q).parts[k]
         IN  /\ k \in Groups /\ p.group = k /\ DOMAIN p.versions.members = p.team
             /\ \A m \in p.team : member[m].status # "absent" \/ (q.kind = "member.create" /\ m = q.member)
             /\ \A r, s \in DOMAIN p.rules : r = s
             /\ b.group = k /\ b.rev = group[k].rev /\ DOMAIN b.rules = DOMAIN p.rules
             /\ \A r \in DOMAIN b.rules : b.rules[r].rev = rule[r].rev /\ rule[r].group = k
             /\ Calm(k) => AddressesOf(k) \subseteq DOMAIN b.rules
<1> DEFINE b == ChangePlan(q).before[k]
           p == ChangePlan(q).parts[k]
           joins == IF q.kind = "member.create" THEN {q.member} ELSE {}
<1>1. k \in Groups
  BY ConcernedTyped
<1>2. b = GroupPlan(k, group[k].team, AddressOf(k), member, mailbox)
  BY ChangePlanIs
<1>3. PICK M, B : p = GroupPlan(k, group[k].team \cup joins, AddressOf(k), M, B)
  BY ChangePlanIs
<1> HIDE DEF b, p
<1>4. /\ b.group = k /\ b.rev = group[k].rev /\ DOMAIN b.rules = AddressOf(k)
      /\ \A r \in AddressOf(k) : b.rules[r].rev = rule[r].rev
  BY <1>2, GroupPlanIs
<1>5. p.group = k /\ p.team = group[k].team \cup joins /\ DOMAIN p.versions.members = p.team /\ DOMAIN p.rules = AddressOf(k)
  BY <1>3, GroupPlanIs
<1>6. \A m \in p.team : member[m].status # "absent" \/ (q.kind = "member.create" /\ m = q.member)
  BY <1>1, <1>5 DEF NobodyAbsent
<1>7. /\ \A r, s \in AddressOf(k) : r = s
      /\ Calm(k) => AddressesOf(k) = AddressOf(k)
  BY <1>1, AddressChosen
<1>8. \A r \in AddressOf(k) : rule[r].group = k
  BY AddressOfRules
<1> QED
  BY <1>1, <1>4, <1>5, <1>6, <1>7, <1>8 DEF b, p

(* Whom a request concerns when it is prepared. *)
LEMMA PreparedConcerns ==
  ASSUME LocalTypes, NEW q \in Request, Fits(q), q.kind \in Composite, Acceptable(q)
  PROVE  LET old == ChangePlan(q).old
         IN  /\ DOMAIN old.members = Concerned(q)
             /\ q.box # None => /\ q.box \in DOMAIN old.boxes /\ old.boxes[q.box] = mailbox[q.box].rev
                                /\ mailbox[q.box].owner \in Concerned(q) \cup {None} \/ mailbox[q.box].status = "absent"
<1> DEFINE old == ChangePlan(q).old
<1>1. /\ old.members = [x \in Concerned(q) |-> member[x].rev]
      /\ old.boxes = [b \in {q.box} \ {None} |-> mailbox[b].rev]
  BY ChangePlanTyped
<1> HIDE DEF old
<1>2. DOMAIN old.members = Concerned(q) /\ (q.box # None => q.box \in DOMAIN old.boxes /\ old.boxes[q.box] = mailbox[q.box].rev)
  BY <1>1
<1>3. ASSUME q.box # None
      PROVE  mailbox[q.box].owner \in Concerned(q) \cup {None} \/ mailbox[q.box].status = "absent"
  <2>1. CASE q.kind \in Mutations
    <3>1. Concerned(q) = {mailbox[q.box].owner, MailboxAfter(q).owner} \ {None}
      <4>1. q.kind # "mailbox.add"
        BY <2>1 DEF Mutations
      <4> QED
        BY <2>1, <4>1, Zenon DEF Concerned
    <3> QED
      BY <3>1
  <2>2. CASE q.kind = "mailbox.add"
    BY <2>2 DEF Acceptable
  <2>3. CASE q.kind = "member.create"
    <3>1. q.as \in {"create", "bind"}
      BY <1>3, <2>3 DEF Fits
    <3> QED
      BY <2>3, <3>1 DEF Acceptable
  <2>4. CASE q.kind \in {"member.enable", "member.disable"}
    BY <1>3, <2>4 DEF Fits
  <2> QED
    BY <2>1, <2>2, <2>3, <2>4 DEF Composite
<1> QED
  BY <1>2, <1>3 DEF old

(* A request is prepared. *)
LEMMA PrepareGroups ==
  ASSUME AddressInv, AddressInv', GroupInv, NEW o \in Ops, Prepare(o)
  PROVE  GroupInv'
<1> DEFINE q == op'[o].request
           plan == op'[o].plan
<1>1. Types /\ WellFormed /\ LocalTypes
  BY DEF AddressInv, Types
<1>2. /\ OnlyOp(o) /\ op[o].status = "idle" /\ op'[o].status = "prepared"
      /\ UNCHANGED <<localVars, remote, snap, stage, history>>
      /\ Acceptable(q) /\ q \in Request /\ Fits(q) /\ q.kind \in Composite /\ plan = ChangePlan(q)
  BY <1>1, PrepareStep
<1>3. UNCHANGED <<member, mailbox, group, rule, missed, abandoned>>
  BY <1>2 DEF localVars, history
<1> HIDE DEF q, plan
<1>4. op[o].status \notin Live /\ op'[o].status \notin Live
  BY <1>2, LiveFacts
<1>5. Busy(o) = {} /\ Busy(o)' = {} /\ Leaves(o) = {}
  BY <1>4 DEF Busy, Leaves
<1>6. \A g \in Groups : (Calm(g)' <=> Calm(g)) /\ (Departing(g) => Departing(g)')
  BY <1>2, <1>3, <1>5, WorkMoves DEF Calm
<1>7. DOMAIN plan.parts = DOMAIN plan.before /\ DOMAIN plan.parts = ConcernedGroups(q)
  <2>1. DOMAIN ChangePlan(q).parts = ConcernedGroups(q)
    BY DEF ChangePlan
  <2>2. DOMAIN ChangePlan(q).parts = DOMAIN ChangePlan(q).before
    BY <1>1, <1>2, ChangePlanTyped
  <2> QED
    BY <1>2, <2>1, <2>2
<1>8. ASSUME NEW k \in DOMAIN plan.parts PROVE PartFits(o, k)' /\ PreparedFor(o, k)'
  <2>1. k \in ConcernedGroups(q)
    BY <1>7
  <2> DEFINE b == plan.before[k]
             p == plan.parts[k]
  <2>2. /\ k \in Groups /\ p.group = k /\ DOMAIN p.versions.members = p.team
        /\ \A m \in p.team : member[m].status # "absent" \/ (q.kind = "member.create" /\ m = q.member)
        /\ \A r, s \in DOMAIN p.rules : r = s
        /\ b.group = k /\ b.rev = group[k].rev /\ DOMAIN b.rules = DOMAIN p.rules
        /\ \A r \in DOMAIN b.rules : b.rules[r].rev = rule[r].rev /\ rule[r].group = k
        /\ Calm(k) => AddressesOf(k) \subseteq DOMAIN b.rules
    BY <1>1, <1>2, <2>1, PreparedParts DEF GroupInv
  <2>3. q.kind # "group.delete"
    BY <1>2 DEF Composite, Mutations
  <2>4. group[k].rev \in Nat /\ DOMAIN b.rules \subseteq Rules
    <3>1. b \in PartRow
      <4>1. plan \in PlanRow
        BY <1>1, <1>2, ChangePlanTyped
      <4>2. plan.before \in PFun(Indices, PartRow)
        BY <4>1 DEF PlanRow
      <4> QED
        BY <1>7, <4>2, PartialApplied
    <3> QED
      BY <1>1, <2>2, <3>1, PartFields DEF LocalTypes, GroupRow
  <2>5. \A r \in DOMAIN b.rules : rule[r].rev \in Nat
    BY <1>1, <2>4 DEF LocalTypes, RuleRow
  <2>6. PartFits(o, k)'
    BY <1>2, <1>3, <2>2, <2>3 DEF PartFits, q, plan
  <2>7. AddressesOf(k)' = AddressesOf(k) /\ (Calm(k)' <=> Calm(k))
    BY <1>3, <1>6, <2>2 DEF AddressesOf
  <2> HIDE DEF b, p
  <2>8. /\ k \in Groups /\ b.group = k /\ b.rev <= group[k].rev
        /\ DOMAIN b.rules = DOMAIN p.rules
        /\ \A r \in DOMAIN b.rules : b.rules[r].rev <= rule[r].rev /\ (b.rules[r].rev = rule[r].rev => rule[r].group \in {0, k})
        /\ group[k].rev = b.rev /\ Calm(k) => AddressesOf(k) \subseteq DOMAIN b.rules
    BY <2>2, <2>4, <2>5
  <2>9. PreparedFor(o, k)'
    BY <1>3, <2>7, <2>8, Zenon DEF PreparedFor, b, p, plan
  <2> QED
    BY <2>6, <2>9
<1>9. OwnGroups(o)'
  <2>1. PartsFitOf(o)'
    BY <1>8 DEF PartsFitOf, plan
  <2>2. ConcernsOf(o)'
    <3> DEFINE old == plan.old
    <3>1. /\ DOMAIN old.members = Concerned(q)
          /\ q.box # None => /\ q.box \in DOMAIN old.boxes /\ old.boxes[q.box] = mailbox[q.box].rev
                             /\ mailbox[q.box].owner \in Concerned(q) \cup {None} \/ mailbox[q.box].status = "absent"
      BY <1>1, <1>2, PreparedConcerns
    <3>2. Concerned(op[o].request)' = Concerned(q)
      BY <1>3 DEF q, Concerned, MailboxAfter
    <3>3. \A b \in Mailboxes : mailbox[b].rev \in Nat
      BY <1>1 DEF LocalTypes, MailboxRow
    <3>4. q.box \in Mailboxes \cup {None}
      BY <1>2 DEF Request
    <3> HIDE DEF old
    <3>5. /\ q.kind \notin Mutations => DOMAIN old.members = Concerned(q)
          /\ q.box # None => /\ q.box \in DOMAIN old.boxes /\ old.boxes[q.box] <= mailbox[q.box].rev
                             /\ old.boxes[q.box] = mailbox[q.box].rev =>
                                  /\ DOMAIN old.members = Concerned(q)
                                  /\ mailbox[q.box].owner \in Concerned(q) \cup {None} \/ mailbox[q.box].status = "absent"
      BY <3>1, <3>3, <3>4
    <3> QED
      BY <1>3, <3>2, <3>5, Zenon DEF ConcernsOf, old, plan, q
  <2>3. PreparedOf(o)'
    <3>1. q.kind = "member.create" => member[q.member].status = "absent"
      BY <1>2 DEF Acceptable
    <3> QED
      BY <1>3, <1>7, <1>8, <3>1 DEF PreparedOf, plan, q
  <2>4. CoveredOf(o)' /\ WithinOf(o)'
    BY <1>4 DEF CoveredOf, WithinOf
  <2> QED
    BY <2>1, <2>2, <2>3, <2>4 DEF OwnGroups
<1>10. \A r \in Rules : StaysWith(rule'[r], rule[r])
  <2>1. \A r \in Rules : rule[r].rev \in Nat
    BY <1>1 DEF LocalTypes, RuleRow
  <2> QED
    BY <1>3, <2>1 DEF StaysWith
<1>11. RowsMove
  BY <1>3 DEF RowsMove
<1>12. missed \subseteq missed' /\ abandoned \subseteq abandoned' /\ group' = group
  BY <1>3
<1>13. \A g \in Groups : (Calm(g)' => Calm(g)) /\ (Departing(g) => Departing(g)')
  BY <1>6
<1>14. \A g \in Groups \ missed' : Calm(g)' /\ ~Departing(g)' /\ AddressesOf(g) # {} =>
         /\ Candidates(group[g].team, member', mailbox') = Candidates(group[g].team, member, mailbox)
         /\ \A r \in AddressesOf(g) : rule'[r].desired = rule[r].desired
  BY <1>3
<1> QED
  BY <1>2, <1>9, <1>10, <1>11, <1>12, <1>13, <1>14, QuietGroups, Zenon

(* What is reserved is the plan that was prepared, with its addresses counted up. *)
LEMMA ReservedPlan ==
  ASSUME Types, NEW o \in Ops, Reserve(o)
  PROVE  /\ op'[o].plan.parts = Bumped(op[o].plan.parts)
         /\ op'[o].plan.old.boxes = op[o].plan.old.boxes
         /\ rule' = Reserved(op[o].plan) /\ UNCHANGED <<group, abandoned>>
         /\ missed' = missed \cup (ConcernedGroups(op[o].request) \ DOMAIN op[o].plan.parts)
         /\ \A k \in DOMAIN op[o].plan.before : PartCurrent(op[o].plan.before[k])
<1> DEFINE q == op[o].request
           plan == op[o].plan
           bef == Bumped(plan.before)
           parts == Bumped(plan.parts)
           old == IF q.kind = "member.create" THEN [plan.old EXCEPT !.members = plan.new.members] ELSE plan.old
           next == [plan EXCEPT !.before = bef, !.parts = parts, !.old = old]
           com == q.kind \in Immediate \/ (q.kind = "member.create" /\ q.as = "none")
<1>1. op' = [op EXCEPT ![o].status = "queued", ![o].plan = next, ![o].committed = com]
  BY DEF Reserve
<1>2. /\ op \in [Ops -> OpRow] /\ op[o] \in OpRow /\ plan \in PlanRow /\ plan.old \in Versions
  BY OpRowFields DEF Types, OpTypes
<1>3. old.boxes = plan.old.boxes
  BY <1>2 DEF Versions
<1> HIDE DEF bef, parts, old
<1>4. next.parts = parts /\ next.old = old
  BY <1>2 DEF PlanRow
<1> HIDE DEF next, com
<1>5. op'[o].plan = next
  BY <1>1, <1>2 DEF OpRow
<1>6. /\ rule' = Reserved(op[o].plan) /\ UNCHANGED <<group, abandoned>>
      /\ missed' = missed \cup (ConcernedGroups(op[o].request) \ DOMAIN op[o].plan.parts)
      /\ \A k \in DOMAIN op[o].plan.before : PartCurrent(op[o].plan.before[k])
  BY DEF Reserve, Reservable
<1> QED
  BY <1>3, <1>4, <1>5, <1>6 DEF parts

(* The rules that a plan takes stay with their groups. *)
LEMMA ReservedStays ==
  ASSUME LocalTypes, NEW plan, plan.parts \in PFun(Indices, PartRow), rule' = Reserved(plan),
         \A r \in RulesOf(plan.parts) : rule[r].exists
  PROVE  \A r \in Rules : StaysWith(rule'[r], rule[r]) /\ (r \notin RulesOf(plan.parts) => rule'[r] = rule[r])
<1> SUFFICES ASSUME NEW r \in Rules
             PROVE  StaysWith(rule'[r], rule[r]) /\ (r \notin RulesOf(plan.parts) => rule'[r] = rule[r])
  OBVIOUS
<1>1. rule[r].rev \in Nat
  BY DEF LocalTypes, RuleRow
<1>2. CASE r \notin RulesOf(plan.parts)
  <2>1. rule'[r] = rule[r]
    BY <1>2, ReservedRow
  <2> QED
    BY <1>1, <2>1 DEF StaysWith
<1>3. CASE r \in RulesOf(plan.parts)
  <2>1. /\ Reserved(plan)[r].exists /\ Reserved(plan)[r].rev = rule[r].rev + 1
        /\ Reserved(plan)[r].group = rule[r].group /\ Reserved(plan)[r].kind = rule[r].kind
    BY <1>3, ReservedTyped
  <2>2. rule[r].exists = TRUE /\ Reserved(plan)[r].exists = TRUE
    <3>1. rule[r].exists \in BOOLEAN /\ Reserved(plan)[r].exists \in BOOLEAN
      BY ReservedTyped DEF LocalTypes, RuleRow
    <3> QED
      BY <1>3, <2>1, <3>1
  <2> DEFINE new == Reserved(plan)[r]
             row == rule[r]
  <2>3. rule'[r] = new
    OBVIOUS
  <2>4. /\ new.exists = row.exists /\ new.rev = row.rev + 1 /\ row.rev \in Nat
        /\ new.group = row.group /\ new.kind = row.kind
    BY <1>1, <1>3, <2>1, <2>2
  <2> HIDE DEF new, row
  <2>5. StaysWith(new, row)
    BY <2>4 DEF StaysWith
  <2> QED
    BY <1>3, <2>3, <2>5 DEF row
<1> QED
  BY <1>2, <1>3

(* A new member is in no team. *)
LEMMA NewInNoTeam ==
  ASSUME AddressInv, GroupInv, OwnerInv, NEW o \in Ops, op[o].status = "prepared", op[o].request.kind = "member.create",
         Current(op[o].plan.old)
  PROVE  /\ member[op[o].request.member].rev = 0
         /\ \A g \in Groups : op[o].request.member \notin group[g].team
<1> DEFINE x == op[o].request.member
<1>1. x \in DOMAIN op[o].plan.old.members /\ op[o].plan.old.members[x] = 0
  BY DEF OwnerInv, Prospective, ProspectiveOf
<1>2. member[x].rev = 0
  BY <1>1 DEF Current
<1>3. PreparedOf(o)
  BY DEF GroupInv, PreparedWell
<1>4. member[x].status = "absent"
  BY <1>2, <1>3 DEF PreparedOf
<1> QED
  BY <1>2, <1>4 DEF GroupInv, NobodyAbsent

(* What a request was prepared for is still all there is to change at the  *)
(* groups of its plan.                                                     *)
LEMMA ReservedFor ==
  ASSUME AddressInv, GroupInv, NEW o \in Ops, Reserve(o), NEW k \in DOMAIN op[o].plan.parts
  PROVE  /\ k \in Groups /\ PartFits(o, k)
         /\ \A r \in DOMAIN op[o].plan.parts[k].rules : rule[r].exists /\ rule[r].group \in {0, k}
         /\ k \notin abandoned => AddressesOf(k) \subseteq DOMAIN op[o].plan.parts[k].rules
<1> DEFINE p == op[o].plan.before[k]
<1>1. Types /\ WellFormed /\ Exclusive /\ LocalTypes
  BY DEF AddressInv, Types
<1>2. /\ op[o].status = "prepared" /\ op[o].request.kind \in Composite
      /\ Free(Keys(op[o].request, op[o].plan))
  BY <1>1, ReserveStep
<1>3. ~Offboards(o)
  BY <1>2 DEF Offboards, Composite, Mutations
<1>4. PartFits(o, k)
  BY <1>2, <1>3 DEF GroupInv, PartsFit, PartsFitOf
<1>5. PreparedOf(o)
  BY DEF GroupInv, PreparedWell
<1>6. k \in DOMAIN op[o].plan.before /\ PreparedFor(o, k)
  BY <1>2, <1>5 DEF PreparedOf
<1>7. PartCurrent(p)
  BY <1>1, <1>6, ReservedPlan
<1>8. /\ k \in Groups /\ p.group = k /\ DOMAIN p.rules = DOMAIN op[o].plan.parts[k].rules
      /\ \A r \in DOMAIN p.rules : p.rules[r].rev = rule[r].rev => rule[r].group \in {0, k}
      /\ group[k].rev = p.rev /\ Calm(k) => AddressesOf(k) \subseteq DOMAIN p.rules
  BY <1>6 DEF PreparedFor
<1>9. k # 0
  BY <1>8, IdsArePositive
<1>10. group[k].rev = p.rev /\ \A r \in DOMAIN p.rules : rule[r].exists /\ rule[r].rev = p.rules[r].rev
  BY <1>7, <1>8, <1>9 DEF PartCurrent
<1>11. ~InWork(k)
  <2> SUFFICES ASSUME NEW i \in Ops, op[i].status \in Live, ~Offboards(i), k \in DOMAIN op[i].plan.parts
               PROVE  FALSE
    BY DEF InWork
  <2>1. <<"group", k>> \in Held(i)
    BY <1>9, WorkHeld DEF GroupInv, PartsFit
  <2>2. <<"group", k>> \in Keys(op[o].request, op[o].plan)
    <3>1. op[o].plan.parts[k].group = k
      BY <1>4 DEF PartFits
    <3>2. <<"group", k>> \in PartKeys(op[o].plan.parts[k])
      BY <1>9, <3>1 DEF PartKeys
    <3>3. <<"group", k>> \in KeysOf(op[o].plan.parts)
      BY <3>2 DEF KeysOf
    <3> QED
      BY <3>3 DEF Keys
  <2> QED
    BY <1>2, <2>1, <2>2 DEF Free
<1> HIDE DEF p
<1> QED
  BY <1>4, <1>8, <1>10, <1>11 DEF Calm

(* What the operation of a request that was reserved is about. *)
LEMMA ReservedOwn ==
  ASSUME AddressInv, AddressInv', GroupInv, OwnerInv, NEW o \in Ops, Reserve(o), RowsMove,
         \A r \in Rules : StaysWith(rule'[r], rule[r])
  PROVE  PartsFitOf(o)' /\ PreparedOf(o)' /\ WithinOf(o)'
<1> DEFINE q == op[o].request
           plan == op[o].plan
<1>1. Types /\ WellFormed /\ Exclusive /\ LocalTypes
  BY DEF AddressInv, Types
<1>2. /\ OnlyOp(o) /\ op[o].status = "prepared" /\ op'[o].status = "queued" /\ op'[o].request = q
      /\ q.kind \in Composite /\ op'[o].done = {} /\ Free(Keys(q, plan)) /\ Current(plan.old)
      /\ mailbox' = IF q.kind \in Immediate THEN MailboxesAfter(q) ELSE mailbox
      /\ member' = IF q.kind \in Immediate THEN MembersAfter(q) ELSE Invited(q)
  BY <1>1, ReserveStep
<1>3. /\ op'[o].plan.parts = Bumped(plan.parts) /\ group' = group /\ abandoned' = abandoned
  BY <1>1, ReservedPlan
<1>4. plan.parts \in PFun(Indices, PartRow)
  BY <1>1, OpRowFields DEF Types
<1>5. DOMAIN Bumped(plan.parts) = DOMAIN plan.parts
  BY <1>4, BumpedTyped
<1>6. ~Offboards(o) /\ ~Offboards(o)'
  BY <1>2 DEF Offboards, Composite, Mutations
<1>7. ASSUME NEW k \in DOMAIN plan.parts PROVE PartFits(o, k)'
  <2> DEFINE p == plan.parts[k]
             b == Bumped(plan.parts)[k]
  <2>1. PartFits(o, k)
    BY ReservedFor
  <2>2. /\ p.group = k /\ DOMAIN p.versions.members = p.team
        /\ \A m \in p.team : \/ member[m].status # "absent"
                             \/ q.kind = "member.create" /\ m = q.member
        /\ \A r, s \in DOMAIN p.rules : ~p.rules[r].delete /\ ~p.rules[s].delete => r = s
    BY <1>2, <2>1 DEF PartFits, Composite, Mutations
  <2>3. /\ b.group = p.group /\ b.versions = p.versions /\ b.team = p.team /\ DOMAIN b.rules = DOMAIN p.rules
        /\ \A r \in DOMAIN p.rules : b.rules[r].delete = p.rules[r].delete
    BY <1>4, BumpedTyped
  <2>4. p.team \subseteq Members
    BY <1>1, PartsTyped, PartFields DEF Types
  <2>5. ASSUME NEW m \in p.team PROVE member'[m].status # "absent"
    <3>1. CASE member[m].status # "absent"
      BY <2>4, <3>1 DEF RowsMove
    <3>2. CASE q.kind = "member.create" /\ m = q.member
      <4>1. member' = Invited(q) /\ member \in [Members -> MemberRow] /\ m \in Members
        BY <1>1, <1>2, <2>4, <3>2 DEF Immediate, LocalTypes
      <4> QED
        BY <3>2, <4>1 DEF Invited
    <3> QED
      BY <2>2, <3>1, <3>2
  <2>6. op'[o].plan.parts[k] = b /\ q.kind # "group.delete" /\ op'[o].request.kind # "group.delete"
    BY <1>2, <1>3 DEF Composite, Mutations
  <2> HIDE DEF b, p
  <2>7. /\ b.group = k /\ DOMAIN b.versions.members = b.team /\ \A m \in b.team : member'[m].status # "absent"
        /\ \A r, s \in DOMAIN b.rules : ~b.rules[r].delete /\ ~b.rules[s].delete => r = s
    BY <2>2, <2>3, <2>5
  <2> QED
    BY <2>6, <2>7 DEF PartFits
<1>8. ASSUME NEW k \in DOMAIN plan.parts, k \notin abandoned, k # 0
      PROVE  AddressesOf(k)' \subseteq DOMAIN Bumped(plan.parts)[k].rules
  <2>1. k \in Groups /\ AddressesOf(k) \subseteq DOMAIN plan.parts[k].rules
    BY <1>8, ReservedFor
  <2>2. AddressesOf(k)' = AddressesOf(k)
    BY DEF AddressesOf, StaysWith
  <2> QED
    BY <1>4, <1>8, <2>1, <2>2, BumpedTyped
<1>9. PartsFitOf(o)'
  BY <1>3, <1>5, <1>7 DEF PartsFitOf
<1>10. PreparedOf(o)'
  BY <1>2 DEF PreparedOf
<1>11. WithinOf(o)'
  BY <1>2, <1>3, <1>5, <1>8 DEF WithinOf
<1> QED
  BY <1>9, <1>10, <1>11

(* A request is reserved: its plan takes every group it concerns, or those *)
(* it does not have been missed.                                           *)
LEMMA ReserveGroups ==
  ASSUME AddressInv, AddressInv', GroupInv, OwnerInv, NEW o \in Ops, Reserve(o)
  PROVE  GroupInv'
<1> DEFINE q == op[o].request
           plan == op[o].plan
           old == op[o].plan.old
<1>1. Types /\ WellFormed /\ Exclusive /\ LocalTypes
  BY DEF AddressInv, Types
<1>2. /\ OnlyOp(o) /\ op[o].status = "prepared" /\ op'[o].status = "queued" /\ op'[o].request = q
      /\ q.kind \in Composite /\ op'[o].done = {} /\ Free(Keys(q, plan)) /\ Current(old)
      /\ DOMAIN op'[o].plan.old.members = DOMAIN old.members
      /\ op'[o].committed <=> (q.kind \in Immediate \/ (q.kind = "member.create" /\ q.as = "none"))
      /\ mailbox' = IF q.kind \in Immediate THEN MailboxesAfter(q) ELSE mailbox
      /\ member' = IF q.kind \in Immediate THEN MembersAfter(q) ELSE Invited(q)
  BY <1>1, ReserveStep
<1>3. /\ op'[o].plan.parts = Bumped(plan.parts) /\ op'[o].plan.old.boxes = old.boxes
      /\ rule' = Reserved(plan) /\ group' = group /\ abandoned' = abandoned
      /\ missed' = missed \cup (ConcernedGroups(q) \ DOMAIN plan.parts)
  BY <1>1, ReservedPlan
<1>4. q \in Request /\ Fits(q) /\ plan.parts \in PFun(Indices, PartRow)
  BY <1>1, <1>2, OpRowFields DEF Types, WellFormed, Asked
<1>5. DOMAIN Bumped(plan.parts) = DOMAIN plan.parts
  BY <1>4, BumpedTyped
<1>6. /\ op[o].status \notin Live /\ op'[o].status \in Live /\ ~Offboards(o) /\ ~Offboards(o)'
      /\ (q.kind = "member.create" => q.kind \notin Immediate)
  BY <1>2, LiveFacts DEF Offboards, Composite, Mutations, Immediate
<1> HIDE DEF q, plan, old
<1>7. RowsMove
  <2>1. \A b \in Mailboxes : mailbox'[b] = mailbox[b] \/ mailbox'[b].rev > mailbox[b].rev
    BY <1>1, <1>2, <1>4, MovedBoxes
  <2>2. CASE member' = MembersAfter(q)
    BY <1>1, <1>2, <1>4, <2>1, <2>2, MovedMembers DEF RowsMove
  <2>3. CASE member' = Invited(q) /\ q.kind = "member.create"
    <3> DEFINE new == [status |-> "invited", rev |-> 1]
    <3>1. member[q.member].rev = 0
      BY <1>2, <2>3, NewInNoTeam DEF q, old
    <3>2. member \in [Members -> MemberRow] /\ member' = [member EXCEPT ![q.member] = new]
      BY <1>1, <2>3 DEF LocalTypes, Invited
    <3>3. new.rev > member[q.member].rev /\ new.status # "absent"
      BY <3>1
    <3> HIDE DEF new
    <3>4. \A m \in Members : member'[m] = member[m] \/ (m = q.member /\ member'[m] = new)
      BY <3>2
    <3> QED
      BY <2>1, <3>3, <3>4 DEF RowsMove
  <2>4. CASE member' = Invited(q) /\ q.kind # "member.create"
    BY <2>1, <2>4 DEF RowsMove, Invited
  <2> QED
    BY <1>2, <2>2, <2>3, <2>4
<1>8. \A r \in RulesOf(plan.parts) : rule[r].exists
  BY ReservedFor DEF RulesOf, plan
<1>9. \A r \in Rules : StaysWith(rule'[r], rule[r]) /\ (r \notin RulesOf(plan.parts) => rule'[r] = rule[r])
  BY <1>1, <1>3, <1>4, <1>8, ReservedStays
<1>10. /\ q.kind \notin Mutations => DOMAIN old.members = Concerned(q)
       /\ q.box # None => /\ q.box \in DOMAIN old.boxes /\ old.boxes[q.box] <= mailbox[q.box].rev
                          /\ old.boxes[q.box] = mailbox[q.box].rev =>
                               /\ DOMAIN old.members = Concerned(q)
                               /\ mailbox[q.box].owner \in Concerned(q) \cup {None} \/ mailbox[q.box].status = "absent"
  BY <1>2 DEF GroupInv, Concerns, ConcernsOf, q, old
<1>11. DOMAIN old.members = Concerned(q)
       /\ (q.box # None => mailbox[q.box].owner \in Concerned(q) \cup {None} \/ mailbox[q.box].status = "absent")
  <2>1. q.kind \in Mutations => q.box # None
    BY <1>4, NoneIsNothing DEF Fits
  <2> QED
    BY <1>2, <1>10, <2>1 DEF Current
<1>12. ASSUME NEW g \in Groups \ missed', group[g].exists, g \notin DOMAIN plan.parts
       PROVE  group[g].team \cap Concerned(q) = {}
  <2>1. CASE q.kind = "member.create"
    <3>1. q.member \notin group[g].team
      BY <1>2, <2>1, NewInNoTeam DEF q, old
    <3>2. Concerned(q) = {q.member}
      BY <2>1 DEF Concerned, Mutations
    <3> QED
      BY <3>1, <3>2
  <2>2. CASE q.kind # "member.create"
    <3>1. g \notin ConcernedGroups(q)
      BY <1>3, <1>12
    <3> QED
      BY <1>12, <2>2, <3>1 DEF ConcernedGroups
  <2> QED
    BY <2>1, <2>2
<1>13. OwnGroups(o)'
  <2>1. PartsFitOf(o)' /\ PreparedOf(o)' /\ WithinOf(o)'
    BY <1>7, <1>9, ReservedOwn
  <2>2. ConcernsOf(o)'
    <3> SUFFICES ASSUME ~op'[o].committed PROVE ConcernsOf(o)'
      BY <1>2 DEF ConcernsOf
    <3>1. mailbox' = mailbox
      BY <1>2
    <3>3. Concerned(op[o].request)' = Concerned(op[o].request)
      BY <1>2, <3>1, ConcernedSame DEF q
    <3> QED
      BY <1>2, <1>3, <1>10, <1>11, <3>1, <3>3 DEF ConcernsOf, q
  <2>3. CoveredOf(o)'
    <3> SUFFICES ASSUME NEW g \in Groups \ missed', group[g].exists, group[g].team \cap DOMAIN op'[o].plan.old.members # {}
                 PROVE  g \in DOMAIN op'[o].plan.parts
      BY <1>3 DEF CoveredOf
    <3> QED
      BY <1>2, <1>3, <1>5, <1>11, <1>12
  <2> QED
    BY <2>1, <2>2, <2>3 DEF OwnGroups
<1>14. Busy(o) = {} /\ Leaves(o) = {} /\ Busy(o)' = DOMAIN plan.parts
  BY <1>2, <1>3, <1>5, <1>6 DEF Busy, Leaves
<1>15. \A g \in Groups : (Calm(g)' => Calm(g)) /\ (Departing(g) => Departing(g)')
  BY <1>2, <1>3, <1>14, WorkMoves DEF Calm
<1>16. ASSUME NEW g \in Groups \ missed', Calm(g)', AddressesOf(g) # {}
       PROVE  /\ Candidates(group[g].team, member', mailbox') = Candidates(group[g].team, member, mailbox)
              /\ \A r \in AddressesOf(g) : rule'[r].desired = rule[r].desired
  <2>1. group[g].exists
    BY <1>16, AddressedExists DEF GroupInv
  <2>2. g \notin DOMAIN plan.parts
    BY <1>2, <1>14, <1>16, WorkMoves DEF Calm
  <2>3. group[g].team \cap Concerned(q) = {}
    BY <1>12, <1>16, <2>1, <2>2
  <2>4. group[g].team \in SUBSET Members
    BY <1>1 DEF LocalTypes, GroupRow
  <2>5. Candidates(group[g].team, member', mailbox') = Candidates(group[g].team, member, mailbox)
    BY <1>1, <1>2, <1>4, <1>11, <2>3, <2>4, ChangeElsewhere
  <2>6. ASSUME NEW r \in AddressesOf(g) PROVE rule'[r].desired = rule[r].desired
    <3>1. r \in Rules /\ rule[r].group = g /\ g # 0
      BY <2>6, IdsArePositive DEF AddressesOf
    <3>2. r \notin RulesOf(plan.parts)
      <4> SUFFICES ASSUME NEW k \in DOMAIN plan.parts, r \in DOMAIN plan.parts[k].rules PROVE FALSE
        BY DEF RulesOf
      <4>1. rule[r].group \in {0, k}
        BY ReservedFor DEF plan
      <4> QED
        BY <2>2, <3>1, <4>1
    <3> QED
      BY <1>9, <3>1, <3>2
  <2> QED
    BY <2>5, <2>6
<1>17. \A g \in Groups \ missed' : Calm(g)' /\ ~Departing(g)' /\ AddressesOf(g) # {} =>
         /\ Candidates(group[g].team, member', mailbox') = Candidates(group[g].team, member, mailbox)
         /\ \A r \in AddressesOf(g) : rule'[r].desired = rule[r].desired
  BY <1>16
<1>18. missed \subseteq missed' /\ abandoned \subseteq abandoned' /\ \A r \in Rules : StaysWith(rule'[r], rule[r])
  BY <1>3, <1>9
<1> QED
  BY <1>2, <1>3, <1>7, <1>13, <1>15, <1>17, <1>18, QuietGroups, Zenon

(* Somebody leaves: the groups that distribute to them are about to be     *)
(* counted up.                                                             *)
LEMMA DepartGroups ==
  ASSUME AddressInv, AddressInv', GroupInv, NEW o \in Ops, Depart(o)
  PROVE  GroupInv'
<1> DEFINE m == op'[o].request.member
           parts == op'[o].plan.parts
<1>1. Types /\ WellFormed /\ Exclusive /\ LocalTypes
  BY DEF AddressInv, Types
<1>2. /\ OnlyOp(o) /\ op[o].status = "idle" /\ op'[o].status \in Live /\ ~op'[o].committed
      /\ op'[o].request.kind = "member.offboard" /\ UNCHANGED <<mailbox, group, rule>>
  BY <1>1, DepartStep
<1>3. /\ m \in Members /\ member'[m].status = "departed" /\ member'[m].rev = member[m].rev + 1
      /\ \A x \in Members \ {m} : member'[x] = member[x]
      /\ \A r \in Follows(m) : r \in DOMAIN parts /\ parts[r].group = rule[r].group
  BY <1>1, DepartStep
<1>4. UNCHANGED <<mailbox, group, rule, missed, abandoned>>
  BY DEF Depart, history
<1>5. op[o].status \notin Live /\ op'[o].status \notin {"prepared"} /\ Offboards(o)'
  BY <1>2, LiveFacts DEF Offboards
<1> HIDE DEF m
<1>6. RowsMove
  <2>1. member[m].rev \in Nat
    BY <1>1, <1>3 DEF LocalTypes, MemberRow
  <2>2. member'[m].rev > member[m].rev /\ member'[m].status # "absent"
    BY <1>3, <2>1
  <2> QED
    BY <1>3, <1>4, <2>2 DEF RowsMove
<1>7. \A r \in Rules : StaysWith(rule'[r], rule[r])
  <2>1. \A r \in Rules : rule[r].rev \in Nat
    BY <1>1 DEF LocalTypes, RuleRow
  <2> QED
    BY <1>4, <2>1 DEF StaysWith
<1>8. OwnGroups(o)'
  <2>1. op'[o].request.kind \notin Composite
    BY <1>2 DEF Composite, Mutations
  <2> QED
    BY <1>5, <2>1 DEF OwnGroups, PartsFitOf, ConcernsOf, PreparedOf, CoveredOf, WithinOf
<1>9. Busy(o) = {} /\ Busy(o)' = {} /\ Leaves(o) = {} /\ Leaves(o)' = {parts[k].group : k \in DOMAIN parts}
  BY <1>2, <1>5 DEF Busy, Leaves
<1> HIDE DEF parts
<1>10. \A g \in Groups : (Calm(g)' => Calm(g)) /\ (Departing(g) => Departing(g)')
  BY <1>2, <1>4, <1>9, WorkMoves DEF Calm
<1>11. ASSUME NEW g \in Groups \ missed', Calm(g)', ~Departing(g)', AddressesOf(g) # {}
       PROVE  Candidates(group[g].team, member', mailbox') = Candidates(group[g].team, member, mailbox)
  <2>1. g \notin Leaves(o)'
    BY <1>2, <1>11, WorkMoves
  <2>2. PICK r \in Rules : rule[r].exists /\ rule[r].group = g
    BY <1>11 DEF AddressesOf
  <2>3. g # 0 /\ rule[r].kind = "group"
    BY <2>2, IdsArePositive DEF GroupInv, AddressesFit
  <2>4. ~(m \in group[g].team /\ member[m].status \in Eligible)
    <3> SUFFICES ASSUME m \in group[g].team, member[m].status \in Eligible PROVE FALSE
      OBVIOUS
    <3>1. r \in Follows(m)
      BY <2>2, <2>3 DEF Follows
    <3> QED
      BY <1>3, <1>9, <2>1, <2>2, <3>1
  <2>5. \A x \in group[g].team : x \in Members
    BY <1>1 DEF LocalTypes, GroupRow
  <2>6. \A x \in group[g].team : member[x].status \in Eligible <=> member'[x].status \in Eligible
    BY <1>3, <2>4, <2>5 DEF Eligible
  <2> QED
    BY <1>4, <2>6, CandidatesSame
<1>12. \A g \in Groups \ missed' : Calm(g)' /\ ~Departing(g)' /\ AddressesOf(g) # {} =>
         /\ Candidates(group[g].team, member', mailbox') = Candidates(group[g].team, member, mailbox)
         /\ \A r \in AddressesOf(g) : rule'[r].desired = rule[r].desired
  BY <1>4, <1>11
<1>13. missed \subseteq missed' /\ abandoned \subseteq abandoned' /\ group' = group
  BY <1>4
<1> QED
  BY <1>2, <1>6, <1>7, <1>8, <1>10, <1>12, <1>13, QuietGroups, Zenon

(* The mailboxes and the groups of somebody who left follow: groups lose   *)
(* the member, and their addresses follow or the group was missed.         *)
LEMMA HandOverGroups ==
  ASSUME AddressInv, AddressInv', GroupInv, NEW o \in Ops, HandOver(o)
  PROVE  GroupInv'
<1> DEFINE q == op[o].request
           plan == op[o].plan
           listed == {plan.parts[r].group : r \in DOMAIN plan.parts}
           left == {g \in Groups : q.leave /\ q.member \in group[g].team}
           rev(g) == IF g \in listed \cup left THEN group[g].rev + 1 ELSE group[g].rev
           team(g) == IF g \in left THEN group[g].team \ {q.member} ELSE group[g].team
           new(g) == [group[g] EXCEPT !.rev = rev(g), !.team = team(g)]
<1>1. Types /\ Types' /\ WellFormed /\ Exclusive /\ LocalTypes
  BY DEF AddressInv, Types
<1>2. /\ OnlyOp(o) /\ op[o].status \in Live /\ op'[o].status \in Live /\ op'[o].request = op[o].request /\ Offboards(o)
      /\ member' = member
      /\ \A b \in Mailboxes : mailbox'[b] = mailbox[b] \/ mailbox'[b].rev = mailbox[b].rev + 1
  BY <1>1, HandOverStep
<1>3. /\ group' = [g \in Groups |-> [group[g] EXCEPT !.rev = IF g \in listed \cup left THEN @ + 1 ELSE @,
                                                     !.team = IF g \in left THEN @ \ {q.member} ELSE @]]
      /\ rule' = Reserved(plan) /\ abandoned' = abandoned
      /\ missed' = missed \cup {g \in Groups : \E r \in AddressOf(g) :
                                  rule'[r].desired # Candidates(group'[g].team, member, mailbox')}
  BY DEF HandOver
<1>4. group' = [g \in Groups |-> new(g)]
  BY <1>3
<1>5. plan.parts \in PFun(Indices, PartRow)
  BY <1>1, OpRowFields DEF Types
<1>6. Offboards(o)' /\ op'[o].request.kind \notin Composite /\ op'[o].status # "prepared"
  BY <1>2, LiveFacts DEF Offboards, Composite, Mutations
<1> HIDE DEF q, plan, listed, left
<1>7. ASSUME NEW g \in Groups
      PROVE  group'[g].rev >= group[g].rev /\ group'[g].team \subseteq group[g].team /\ group'[g].exists = group[g].exists
  <2>1. group[g] \in GroupRow
    BY <1>1 DEF LocalTypes
  <2>2. group[g].rev \in Nat /\ DOMAIN group[g] = {"exists", "rev", "team"}
    BY <2>1 DEF GroupRow
  <2>3. rev(g) >= group[g].rev /\ team(g) \subseteq group[g].team
    BY <2>2
  <2> HIDE DEF rev, team
  <2>4. new(g).rev = rev(g) /\ new(g).team = team(g) /\ new(g).exists = group[g].exists
    BY <2>2
  <2> HIDE DEF new
  <2> QED
    BY <1>4, <2>3, <2>4
<1>8. ASSUME NEW r \in Rules
      PROVE  /\ rule'[r].group = rule[r].group /\ rule'[r].kind = rule[r].kind /\ rule'[r].rev >= rule[r].rev
             /\ rule'[r].exists => rule[r].exists \/ rule[r].group = 0
             /\ rule[r].exists => rule'[r].exists
  <2>1. rule[r].rev \in Nat
    BY <1>1 DEF LocalTypes, RuleRow
  <2>2. CASE r \in RulesOf(plan.parts)
    <3>1. /\ rule'[r].exists /\ rule'[r].rev = rule[r].rev + 1
          /\ rule'[r].group = rule[r].group /\ rule'[r].kind = rule[r].kind
      BY <1>1, <1>3, <1>5, <2>2, ReservedTyped
    <3>2. rule[r].group # 0 => rule[r].exists
      BY DEF GroupInv, AddressesFit
    <3> QED
      BY <2>1, <3>1, <3>2
  <2>3. CASE r \notin RulesOf(plan.parts)
    <3>1. rule'[r] = rule[r]
      BY <1>1, <1>3, <1>5, <2>3, ReservedRow
    <3> QED
      BY <2>1, <3>1
  <2> QED
    BY <2>2, <2>3
<1>9. \A g \in Groups : AddressesOf(g)' = AddressesOf(g)
  BY <1>8, IdsArePositive DEF AddressesOf
<1>10. \A g \in Groups : Calm(g)' <=> Calm(g)
  <2>1. Busy(o) = {} /\ Busy(o)' = {}
    BY <1>2, <1>6 DEF Busy
  <2> QED
    BY <1>2, <1>3, <2>1, WorkMoves DEF Calm
<1>11. 0 \notin Groups
  BY IdsArePositive
<1>12. Works(o, 0) /\ Settles(o, 0) /\ OfGroupX(0)'
  BY <1>11 DEF Works, Settles, OfGroupX
<1>13. GroupsMove(0)
  BY <1>3, <1>7, <1>9, <1>10 DEF GroupsMove, Loses
<1>14. RulesMove
  BY <1>8 DEF RulesMove
<1>15. RowsMove
  <2>1. \A b \in Mailboxes : mailbox[b].rev \in Nat
    BY <1>1 DEF LocalTypes, MailboxRow
  <2> QED
    BY <1>2, <2>1 DEF RowsMove
<1>16. OwnGroups(o)'
  BY <1>6 DEF OwnGroups, PartsFitOf, ConcernsOf, PreparedOf, CoveredOf, WithinOf
<1>17. AddressesFit'
  <2>1. \A r \in Rules : rule[r].group # 0 => rule[r].exists /\ rule[r].kind = "group" /\ group[rule[r].group].exists
    BY DEF GroupInv, AddressesFit
  <2>2. \A r \in Rules : rule[r].group # 0 => rule[r].group \in Groups
    BY <1>1 DEF LocalTypes, RuleRow
  <2> QED
    BY <1>7, <1>8, <2>1, <2>2 DEF AddressesFit
<1>18. Follow'
  <2> SUFFICES ASSUME NEW g \in Groups \ missed', Calm(g)', NEW r \in AddressesOf(g)'
               PROVE  rule'[r].desired = Candidates(group'[g].team, member', mailbox')
    BY DEF Follow, Following
  <2>1. r \in AddressOf(g)
    BY <1>1, <1>9, <1>10, AddressChosen DEF GroupInv
  <2> QED
    BY <1>2, <1>3, <2>1
<1> QED
  BY <1>1, <1>2, <1>12, <1>13, <1>14, <1>15, <1>16, <1>17, <1>18, GroupsKept

(* The plan of a request for a group takes all its addresses, keeps at     *)
(* most one and names every member of the team.                            *)
LEMMA RoutePlanOfGroup ==
  ASSUME LocalTypes, Single, NEW q \in Request, Fits(q), q.kind \in {"group.create", "group.update", "group.delete"}
  PROVE  LET p == RoutePlan(q)
         IN  /\ AddressOf(q.group) \subseteq DOMAIN p.rules
             /\ \A r \in DOMAIN p.rules : r \in AddressOf(q.group) \/ (q.kind # "group.delete" /\ q.address = "set" /\ r = q.rule)
             /\ q.kind # "group.delete" => DOMAIN p.versions.members = p.team
             /\ q.kind = "group.delete" => \A r \in DOMAIN p.rules : p.rules[r].delete
             /\ \A r, s \in DOMAIN p.rules : ~p.rules[r].delete /\ ~p.rules[s].delete => r = s
<1> DEFINE old == AddressOf(q.group)
           T == IF q.kind = "group.delete" THEN group[q.group].team ELSE q.team
           R == IF q.address = "remove" THEN {} ELSE IF q.address = "set" THEN {q.rule} ELSE old
           kept == GroupPlan(q.group, T, R, member, mailbox)
           both == [r \in old \cup DOMAIN kept.rules |->
                      IF r \in DOMAIN kept.rules THEN kept.rules[r] ELSE Removal(old)[r]]
           p == RoutePlan(q)
<1>1. q.group \in Groups
  BY DEF Fits
<1>2. \A r, s \in old : r = s
  BY <1>1, AddressChosen
<1>3. q.address \in {"keep", "remove", "set"}
  BY DEF Request
<1>4. mailbox \in [Mailboxes -> MailboxRow] /\ member \in [Members -> MemberRow] /\ T \in SUBSET Members /\ R \in SUBSET Rules
  <2>1. old \subseteq Rules
    BY AddressOfRules
  <2>2. q.team \subseteq Members /\ group[q.group].team \subseteq Members /\ (q.address = "set" => q.rule \in Rules)
    BY <1>1 DEF LocalTypes, GroupRow, Request, Fits
  <2> HIDE DEF old
  <2> QED
    BY <2>1, <2>2 DEF LocalTypes
<1>5. /\ q.kind = "group.delete" => p = [kept EXCEPT !.rules = Removal(old), !.versions = NoRows]
      /\ q.kind # "group.delete" /\ q.address = "keep" => p = kept
      /\ q.kind # "group.delete" /\ q.address # "keep" => p = [kept EXCEPT !.rules = both]
  BY DEF RoutePlan
<1>6. /\ kept \in PartRow /\ kept.team = T /\ DOMAIN kept.versions.members = T /\ DOMAIN kept.rules = R
      /\ \A r \in R : ~kept.rules[r].delete
  BY <1>1, <1>4, GroupPlanIs, GroupPlanTyped
<1>7. DOMAIN Removal(old) = old /\ \A r \in old : Removal(old)[r].delete
  BY DEF Removal
<1>8. R = IF q.address = "remove" THEN {} ELSE IF q.address = "set" THEN {q.rule} ELSE old
  OBVIOUS
<1>9. q.kind # "group.delete" => T = q.team
  OBVIOUS
<1> HIDE DEF kept, T, R, p, old
<1>10. /\ DOMAIN both = old \cup R
       /\ \A r \in R : both[r] = kept.rules[r]
       /\ \A r \in old \ R : both[r] = Removal(old)[r]
  BY <1>6
<1> HIDE DEF both
<1>11. DOMAIN kept = {"group", "rev", "team", "versions", "rules"}
  BY <1>6 DEF PartRow
<1>12. CASE q.kind = "group.delete"
  <2>1. p.rules = Removal(old)
    BY <1>5, <1>11, <1>12
  <2> QED
    BY <1>7, <1>12, <2>1 DEF old, p
<1>13. CASE q.kind # "group.delete" /\ q.address = "keep"
  <2>1. p = kept /\ R = old
    BY <1>5, <1>8, <1>13
  <2> QED
    BY <1>2, <1>6, <1>13, <2>1 DEF old, p
<1>14. CASE q.kind # "group.delete" /\ q.address # "keep"
  <2>1. p.rules = both /\ p.versions = kept.versions /\ p.team = kept.team
    BY <1>5, <1>11, <1>14
  <2>2. \A r \in R : q.address = "set" /\ r = q.rule
    BY <1>3, <1>8, <1>14
  <2>3. \A r \in old \cup R : ~both[r].delete => r \in R
    BY <1>7, <1>10
  <2>4. /\ old \subseteq DOMAIN p.rules
        /\ \A r \in DOMAIN p.rules : r \in old \/ (q.address = "set" /\ r = q.rule)
        /\ DOMAIN p.versions.members = p.team
        /\ \A r, s \in DOMAIN p.rules : ~p.rules[r].delete /\ ~p.rules[s].delete => r = s
    BY <1>6, <1>10, <2>1, <2>2, <2>3
  <2> QED
    BY <1>14, <2>4 DEF old, p
<1> QED
  BY <1>12, <1>13, <1>14

(* The plan of a request for an address is about that address. *)
LEMMA RoutePlanOfOne ==
  ASSUME NEW q \in Request, Fits(q), q.kind \in {"address.create", "address.update", "address.delete"}
  PROVE  LET p == RoutePlan(q)
         IN  /\ DOMAIN p.rules = {q.rule} /\ DOMAIN p.versions.members = {} /\ p.team = {}
<1>1. NoGroup \in PartRow /\ NoGroup.team = {} /\ DOMAIN NoGroup.versions.members = {}
  BY NothingTyped DEF NoGroup, NoRows, Empty
<1>2. DOMAIN NoGroup = {"group", "rev", "team", "versions", "rules"}
  BY DEF NoGroup
<1>3. CASE q.kind = "address.delete"
  <2>1. RoutePlan(q) = [NoGroup EXCEPT !.rules = Removal({q.rule})]
    BY <1>3, RoutePlanOfAddress
  <2>2. DOMAIN Removal({q.rule}) = {q.rule}
    BY DEF Removal
  <2> HIDE DEF NoGroup
  <2> QED
    BY <1>1, <1>2, <2>1, <2>2
<1>4. CASE q.kind \in {"address.create", "address.update"}
  <2> DEFINE v == RowVersions({}, member, {q.box}, mailbox)
             rs == [r \in {q.rule} |-> [rev |-> rule[r].rev, targets |-> {q.box}, delete |-> FALSE]]
  <2>1. RoutePlan(q) = [NoGroup EXCEPT !.versions = v, !.rules = rs]
    BY <1>4, RoutePlanOfAddress
  <2>2. DOMAIN v.members = {} /\ DOMAIN rs = {q.rule}
    BY DEF RowVersions
  <2> HIDE DEF v, rs
  <2> QED
    BY <1>1, <1>2, <2>1, <2>2
<1> QED
  BY <1>3, <1>4

\* A request for a group or an address is taken.
Takes(o, q) ==
  /\ q.kind \in Routes /\ Routable(q) /\ Free(Keys(q, SubmitPlan(q)))
  /\ \A m \in RoutePlan(q).team : member[m].status # "absent"
  /\ rule' = [r \in Rules |-> IF r \notin {s \in DOMAIN RoutePlan(q).rules : ~rule[s].exists}
                              THEN Reserved(SubmitPlan(q))[r] ELSE NewRow(q, Reserved(SubmitPlan(q))[r])]
  /\ group' = IF q.kind = "group.create"
              THEN [group EXCEPT ![q.group] = [exists |-> TRUE, rev |-> @.rev + 1, team |-> {}]] ELSE group
  /\ op' = [op EXCEPT ![o] = SubmitRow(q)]
  /\ op[o].status = "idle"
  /\ UNCHANGED <<member, mailbox, missed, abandoned>>

(* What a request for a group or an address does. *)
LEMMA SubmitTakes ==
  ASSUME NEW o \in Ops, Submit(o)
  PROVE  \E q \in RequestsOf[o] : q \in Request /\ Fits(q) /\ Takes(o, q)
<1>1. PICK q \in RequestsOf[o] :
        /\ q.kind \in Routes /\ Routable(q) /\ Free(Keys(q, SubmitPlan(q)))
        /\ \A m \in RoutePlan(q).team : member[m].status # "absent"
        /\ rule' = [r \in Rules |-> IF r \notin {s \in DOMAIN RoutePlan(q).rules : ~rule[s].exists}
                                    THEN Reserved(SubmitPlan(q))[r] ELSE NewRow(q, Reserved(SubmitPlan(q))[r])]
        /\ group' = IF q.kind = "group.create"
                    THEN [group EXCEPT ![q.group] = [exists |-> TRUE, rev |-> @.rev + 1, team |-> {}]] ELSE group
        /\ op' = [op EXCEPT ![o] = SubmitRow(q)]
  BY Zenon DEF Submit, SubmitPlan, SubmitRow, NewRow, CountedUp
<1>2. op[o].status = "idle" /\ UNCHANGED <<member, mailbox, missed, abandoned>>
  BY DEF Submit, history
<1>3. q \in Request /\ Fits(q)
  BY RequestsFit
<1>4. Takes(o, q)
  BY <1>1, <1>2, Zenon DEF Takes
<1> QED
  BY <1>3, <1>4

(* The row of a new address exists, in the group it was asked for. *)
LEMMA NewRowIs ==
  ASSUME NEW q, NEW row \in RuleRow
  PROVE  /\ NewRow(q, row).exists = row.exists /\ NewRow(q, row).rev = row.rev /\ NewRow(q, row).group = q.group
         /\ q.group # 0 => NewRow(q, row).kind = "group"
<1> DEFINE g == q.group
           kind == IF q.group = 0 THEN "alias" ELSE "group"
           box == IF q.group = 0 THEN q.box ELSE None
<1>1. DOMAIN row = {"exists", "kind", "group", "box", "rev", "desired", "targets", "observed", "state", "rows"}
  BY DEF RuleRow
<1>2. NewRow(q, row) = [row EXCEPT !.group = g, !.targets = {}, !.observed = {}, !.rows = {}, !.kind = kind, !.box = box]
  BY DEF NewRow
<1>3. g # 0 => kind = "group"
  OBVIOUS
<1> HIDE DEF kind, box
<1> QED
  BY <1>1, <1>2, <1>3

(* The addresses that a request takes exist in its group, or are new. *)
LEMMA SubmitRules ==
  ASSUME LocalTypes, Single, AddressesFit, NEW o \in Ops, NEW q \in Request, Fits(q), Takes(o, q), NEW r \in Rules
  PROVE  /\ r \notin DOMAIN RoutePlan(q).rules => rule'[r] = rule[r]
         /\ r \in DOMAIN RoutePlan(q).rules =>
              /\ rule'[r].exists /\ rule'[r].rev = rule[r].rev + 1 /\ rule'[r].group = q.group
              /\ q.group # 0 => rule'[r].kind = "group"
              /\ rule[r].exists => rule[r].group = q.group
<1> DEFINE plan == SubmitPlan(q)
           R == DOMAIN RoutePlan(q).rules
           r1 == Reserved(plan)
           new == {s \in R : ~rule[s].exists}
<1>1. q.kind \in Routes /\ Routable(q) /\ rule' = [s \in Rules |-> IF s \notin new THEN r1[s] ELSE NewRow(q, r1[s])]
  BY DEF Takes
<1>2. plan \in PlanRow /\ plan.parts = [k \in {q.group} |-> RoutePlan(q)]
  BY <1>1, SubmitPlanTyped
<1>3. plan.parts \in PFun(Indices, PartRow) /\ RulesOf(plan.parts) = R
  BY <1>2 DEF PlanRow, RulesOf
<1> HIDE DEF plan
<1>4. /\ r1[r] \in RuleRow
      /\ r \in R => r1[r].exists /\ r1[r].rev = rule[r].rev + 1 /\ r1[r].group = rule[r].group /\ r1[r].kind = rule[r].kind
      /\ r \notin R => r1[r] = rule[r]
  BY <1>3, ReservedTyped, ReservedRow
<1>5. /\ NewRow(q, r1[r]).exists = r1[r].exists /\ NewRow(q, r1[r]).rev = r1[r].rev /\ NewRow(q, r1[r]).group = q.group
      /\ q.group # 0 => NewRow(q, r1[r]).kind = "group"
  BY <1>4, NewRowIs
<1>6. r \in R /\ rule[r].exists => rule[r].group = q.group
  <2> SUFFICES ASSUME r \in R, rule[r].exists PROVE rule[r].group = q.group
    OBVIOUS
  <2>1. CASE q.kind \in {"group.create", "group.update", "group.delete"}
    <3>1. q.group \in Groups
      BY <2>1 DEF Fits
    <3>2. r \in AddressOf(q.group) \/ (q.kind # "group.delete" /\ q.address = "set" /\ r = q.rule)
      BY <2>1, RoutePlanOfGroup
    <3>3. q.kind = "group.create" /\ q.address = "set" => ~rule[q.rule].exists
      BY <1>1 DEF Routable
    <3>4. q.kind = "group.update" /\ q.address = "set" => ~rule[q.rule].exists \/ q.rule \in AddressOf(q.group)
      BY <1>1 DEF Routable
    <3>5. r \in AddressOf(q.group)
      BY <2>1, <3>2, <3>3, <3>4
    <3> QED
      BY <3>1, <3>5, AddressChosen DEF AddressesOf
  <2>2. CASE q.kind \in {"address.create", "address.update", "address.delete"}
    <3>1. q.group = 0 /\ r = q.rule
      BY <2>2, RoutePlanOfOne DEF Fits
    <3>2. rule[q.rule].exists => rule[q.rule].kind # "group"
      BY <1>1, <2>2 DEF Routable
    <3> QED
      BY <3>1, <3>2 DEF AddressesFit
  <2> QED
    BY <1>1, <2>1, <2>2 DEF Routes
<1>7. r \in R /\ rule[r].exists /\ q.group # 0 => rule[r].kind = "group"
  BY <1>6 DEF AddressesFit
<1> HIDE DEF R, r1
<1>8. rule'[r] = IF r \in R /\ ~rule[r].exists THEN NewRow(q, r1[r]) ELSE r1[r]
  BY <1>1
<1>9. CASE r \notin R
  BY <1>4, <1>8, <1>9 DEF R
<1>10. CASE r \in R /\ rule[r].exists
  BY <1>4, <1>6, <1>7, <1>8, <1>10 DEF R
<1>11. CASE r \in R /\ ~rule[r].exists
  <2>1. rule'[r] = NewRow(q, r1[r])
    BY <1>8, <1>11
  <2>2. rule'[r].exists /\ rule'[r].rev = rule[r].rev + 1 /\ rule'[r].group = q.group /\ (q.group # 0 => rule'[r].kind = "group")
    BY <1>4, <1>5, <1>11, <2>1
  <2> QED
    BY <1>11, <2>2 DEF R
<1> QED
  BY <1>9, <1>10, <1>11

(* The row of the operation that is asked for.                             *)
LEMMA SubmitAsks ==
  ASSUME AddressInv, NEW o \in Ops, NEW q \in Request, Fits(q), Takes(o, q)
  PROVE  /\ OnlyOp(o) /\ op'[o].status = "queued" /\ op'[o].request = q /\ op'[o].done = {}
         /\ DOMAIN op'[o].plan.parts = {q.group}
         /\ AsAsked(op'[o].plan.parts[q.group], RoutePlan(q))
         /\ ~Offboards(o)' /\ q.kind \notin Composite
<1>1. LocalTypes /\ op \in [Ops -> OpRow] /\ q.kind \in Routes /\ op' = [op EXCEPT ![o] = SubmitRow(q)]
  BY DEF AddressInv, Types, OpTypes, Takes
<1> DEFINE row == SubmitRow(q)
           parts == SubmitPlan(q).parts
<1>2. /\ row \in OpRow /\ row.status = "queued" /\ row.request = q /\ row.done = {}
      /\ DOMAIN row.plan.parts = DOMAIN parts
      /\ \A k \in DOMAIN parts : AsAsked(row.plan.parts[k], parts[k])
  BY <1>1, SubmitRowTyped
<1>3. parts = [k \in {q.group} |-> RoutePlan(q)]
  BY <1>1, SubmitPlanTyped
<1>4. op' = [op EXCEPT ![o] = row]
  BY <1>1
<1> HIDE DEF row, parts
<1>5. OnlyOp(o) /\ op'[o] = row
  BY <1>1, <1>4, <1>2 DEF OnlyOp
<1>6. DOMAIN parts = {q.group} /\ parts[q.group] = RoutePlan(q)
  BY <1>3
<1>7. q.kind # "member.offboard" /\ q.kind \notin Composite
  BY <1>1 DEF Routes, Composite, Mutations
<1> QED
  BY <1>2, <1>5, <1>6, <1>7 DEF Offboards

(* Nobody is at work on the group of a request that is taken. *)
LEMMA SubmitAlone ==
  ASSUME AddressInv, GroupInv, NEW o \in Ops, NEW q \in Request, Fits(q), Takes(o, q), q.group # 0
  PROVE  Works(o, q.group) /\ ~InWork(q.group)
<1>1. LocalTypes /\ q.kind \in Routes /\ Free(Keys(q, SubmitPlan(q)))
  BY DEF AddressInv, Types, Takes
<1>2. SubmitPlan(q).parts = [k \in {q.group} |-> RoutePlan(q)] /\ RoutePlan(q).group = q.group
  BY <1>1, SubmitPlanTyped, RoutePlanTyped
<1>3. <<"group", q.group>> \in Keys(q, SubmitPlan(q))
  <2>1. <<"group", q.group>> \in PartKeys(RoutePlan(q))
    BY <1>2 DEF PartKeys
  <2>2. PartKeys(RoutePlan(q)) \subseteq KeysOf(SubmitPlan(q).parts)
    BY <1>2 DEF KeysOf
  <2> QED
    BY <2>1, <2>2 DEF Keys
<1>4. \A p \in Ops : <<"group", q.group>> \notin Held(p)
  BY <1>1, <1>3 DEF Free
<1>5. ~InWork(q.group)
  <2> SUFFICES ASSUME NEW p \in Ops, op[p].status \in Live, ~Offboards(p), q.group \in DOMAIN op[p].plan.parts PROVE FALSE
    BY DEF InWork
  <2>1. PartsFitOf(p)
    BY DEF GroupInv, PartsFit
  <2>2. <<"group", q.group>> \in Held(p)
    BY <2>1, WorkHeld
  <2> QED
    BY <1>4, <2>2
<1> QED
  BY <1>4, <1>5 DEF Works

(* The plan of the operation that is asked for fits its group. *)
LEMMA SubmitOwn ==
  ASSUME AddressInv, GroupInv, NEW o \in Ops, NEW q \in Request, Fits(q), Takes(o, q)
  PROVE  OwnGroups(o)'
<1> DEFINE p == RoutePlan(q)
           n == op'[o].plan.parts[q.group]
<1>1. LocalTypes /\ Single /\ AddressesFit /\ q.kind \in Routes
  BY DEF AddressInv, Types, Takes, GroupInv
<1>2. /\ OnlyOp(o) /\ op'[o].status = "queued" /\ op'[o].request = q /\ op'[o].done = {}
      /\ DOMAIN op'[o].plan.parts = {q.group} /\ AsAsked(n, p) /\ ~Offboards(o)' /\ q.kind \notin Composite
  BY SubmitAsks
<1>3. member' = member /\ abandoned' = abandoned /\ \A m \in p.team : member[m].status # "absent"
  BY DEF Takes
<1>4. /\ q.kind # "group.delete" => DOMAIN p.versions.members = p.team
      /\ q.kind = "group.delete" => \A r \in DOMAIN p.rules : p.rules[r].delete
      /\ \A r, s \in DOMAIN p.rules : ~p.rules[r].delete /\ ~p.rules[s].delete => r = s
  <2>1. CASE q.kind \in {"group.create", "group.update", "group.delete"}
    BY <1>1, <2>1, RoutePlanOfGroup
  <2>2. CASE q.kind \in {"address.create", "address.update", "address.delete"}
    <3>1. DOMAIN p.rules = {q.rule} /\ DOMAIN p.versions.members = {} /\ p.team = {}
      BY <2>2, RoutePlanOfOne
    <3> QED
      BY <2>2, <3>1
  <2> QED
    BY <1>1, <2>1, <2>2 DEF Routes
<1>5. p.group = q.group
  BY <1>1, RoutePlanTyped
<1> HIDE DEF p, n
<1>6. /\ DOMAIN n.rules = DOMAIN p.rules /\ \A r \in DOMAIN p.rules : n.rules[r].delete = p.rules[r].delete
      /\ n.group = q.group /\ n.team = p.team /\ n.versions = p.versions
  BY <1>2, <1>5 DEF AsAsked
<1>7. PartsFitOf(o)'
  <2>1. /\ q.kind # "group.delete" => DOMAIN n.versions.members = n.team
        /\ \A m \in n.team : member'[m].status # "absent"
        /\ q.kind = "group.delete" => \A r \in DOMAIN n.rules : n.rules[r].delete
        /\ \A r, s \in DOMAIN n.rules : ~n.rules[r].delete /\ ~n.rules[s].delete => r = s
    BY <1>3, <1>4, <1>6
  <2>2. PartFits(o, q.group)'
    BY <1>2, <1>6, <2>1 DEF PartFits, n
  <2> QED
    BY <1>2, <2>2 DEF PartsFitOf
<1>8. ConcernsOf(o)' /\ PreparedOf(o)' /\ CoveredOf(o)'
  BY <1>2, Zenon DEF ConcernsOf, PreparedOf, CoveredOf
<1>9. WithinOf(o)'
  <2> SUFFICES ASSUME q.group # 0, q.group \notin abandoned
               PROVE  AddressesOf(q.group)' \subseteq DOMAIN p.rules
    BY <1>2, <1>3, <1>6 DEF WithinOf, n
  <2>1. q.kind \in {"group.create", "group.update", "group.delete"} /\ q.group \in Groups
    BY <1>1 DEF Routes, Fits
  <2>2. AddressesOf(q.group) \subseteq DOMAIN p.rules
    <3>1. Calm(q.group)
      BY SubmitAlone DEF Calm
    <3> QED
      BY <1>1, <2>1, <3>1, AddressChosen, RoutePlanOfGroup DEF p
  <2> SUFFICES ASSUME NEW r \in Rules, r \notin DOMAIN p.rules, r \in AddressesOf(q.group)' PROVE FALSE
    BY DEF AddressesOf
  <2>3. rule'[r] = rule[r]
    BY <1>1, SubmitRules DEF p
  <2> QED
    BY <2>2, <2>3 DEF AddressesOf
<1> QED
  BY <1>7, <1>8, <1>9 DEF OwnGroups

(* A request for a group or an address is taken. *)
LEMMA SubmitGroups ==
  ASSUME AddressInv, AddressInv', GroupInv, NEW o \in Ops, Submit(o)
  PROVE  GroupInv'
<1>1. PICK q \in RequestsOf[o] : q \in Request /\ Fits(q) /\ Takes(o, q)
  BY SubmitTakes
<1> DEFINE x == q.group
<1>2. Types /\ Types' /\ WellFormed /\ LocalTypes /\ Single /\ AddressesFit
  BY DEF AddressInv, GroupInv, Types
<1>3. /\ q.kind \in Routes /\ Routable(q) /\ op[o].status = "idle" /\ UNCHANGED <<member, mailbox, missed, abandoned>>
      /\ group' = IF q.kind = "group.create"
                  THEN [group EXCEPT ![x] = [exists |-> TRUE, rev |-> @.rev + 1, team |-> {}]] ELSE group
  BY <1>1 DEF Takes
<1>4. /\ OnlyOp(o) /\ op'[o].status = "queued" /\ op'[o].request = q /\ op'[o].done = {}
      /\ DOMAIN op'[o].plan.parts = {x} /\ ~Offboards(o)'
  BY <1>1, SubmitAsks DEF GroupInv
<1>5. Busy(o) = {} /\ Busy(o)' = {x} /\ Leaves(o) = {} /\ Leaves(o)' = {}
  BY <1>3, <1>4, LiveFacts DEF Busy, Leaves
<1>6. 0 \notin Groups /\ x \in Groups \cup {0} /\ (x = 0 \/ q.kind \in {"group.create", "group.update", "group.delete"})
      /\ (q.kind = "group.create" => x \in Groups)
  BY <1>1, <1>3, IdsArePositive DEF Routes, Fits, Request
<1>7. \A g \in Groups : /\ Calm(g)' => Calm(g)
                        /\ Departing(g)' <=> Departing(g)
                        /\ g = x => ~Calm(g)'
  BY <1>3, <1>4, <1>5, WorkMoves DEF Calm
<1>8. ASSUME NEW g \in Groups
      PROVE  /\ group'[g].rev >= group[g].rev /\ (group[g].exists => group'[g].exists)
             /\ group'[g] = group[g] \/ (g = x /\ group'[g].team = {} /\ group'[g].exists)
             /\ g = x => group'[g].exists
  <2>1. group \in [Groups -> GroupRow] /\ group[g].rev \in Nat
    BY <1>2 DEF LocalTypes, GroupRow
  <2>2. q.kind \in {"group.update", "group.delete"} => group[x].exists
    BY <1>3 DEF Routable
  <2>3. g = x => q.kind \in {"group.create", "group.update", "group.delete"}
    BY <1>6
  <2> QED
    BY <1>3, <1>6, <2>1, <2>2, <2>3
<1>9. ASSUME NEW r \in Rules
      PROVE  /\ r \notin DOMAIN RoutePlan(q).rules => rule'[r] = rule[r]
             /\ r \in DOMAIN RoutePlan(q).rules =>
                  /\ rule'[r].exists /\ rule'[r].rev = rule[r].rev + 1 /\ rule'[r].group = x
                  /\ x # 0 => rule'[r].kind = "group"
                  /\ rule[r].exists => rule[r].group = x
  BY <1>1, <1>2, SubmitRules
<1> DEFINE R == DOMAIN RoutePlan(q).rules
<1> HIDE DEF x, R
<1>10. \A g \in Groups \ {x} : AddressesOf(g)' = AddressesOf(g) /\ \A r \in AddressesOf(g) : rule'[r] = rule[r]
  BY <1>9 DEF AddressesOf
<1>11. GroupsMove(x)
  BY <1>3, <1>7, <1>8, <1>10 DEF GroupsMove, Loses
<1>12. Works(o, x)
  BY <1>1, SubmitAlone DEF Works, x
<1>13. Settles(o, x)
  BY <1>3, <1>7, <1>8 DEF Settles
<1>14. RulesMove
  <2>1. \A r \in Rules : rule[r].rev \in Nat
    BY <1>2 DEF LocalTypes, RuleRow
  <2> QED
    BY <1>9, <2>1 DEF RulesMove
<1>15. RowsMove
  BY <1>3 DEF RowsMove
<1>16. OwnGroups(o)'
  BY <1>1, SubmitOwn
<1>17. OfGroupX(x)'
  <2> SUFFICES ASSUME x \in Groups
               PROVE  /\ \A m \in group'[x].team : member'[m].status # "absent"
                      /\ Calm(x)' => \A r, s \in AddressesOf(x)' : r = s
    BY DEF OfGroupX
  <2> QED
    BY <1>3, <1>7, <1>8 DEF GroupInv, NobodyAbsent
<1>18. AddressesFit'
  <2> SUFFICES ASSUME NEW r \in Rules, rule'[r].group # 0
               PROVE  rule'[r].exists /\ rule'[r].kind = "group" /\ group'[rule'[r].group].exists
    BY DEF AddressesFit
  <2>1. rule'[r].group \in Groups
    BY <1>2 DEF Types, LocalTypes, RuleRow
  <2>2. CASE r \in DOMAIN RoutePlan(q).rules
    BY <1>8, <1>9, <2>1, <2>2
  <2>3. CASE r \notin DOMAIN RoutePlan(q).rules
    BY <1>2, <1>8, <1>9, <2>1, <2>3 DEF AddressesFit
  <2> QED
    BY <2>2, <2>3
<1>19. Follow'
  <2> SUFFICES ASSUME NEW g \in Groups \ missed', Calm(g)', ~Departing(g)', NEW r \in AddressesOf(g)'
               PROVE  rule'[r].desired = Candidates(group'[g].team, member', mailbox')
    BY DEF Follow, Following
  <2>1. g # x /\ g \notin missed /\ Calm(g) /\ ~Departing(g)
    BY <1>3, <1>7
  <2>2. r \in AddressesOf(g) /\ rule'[r] = rule[r] /\ group'[g] = group[g]
    BY <1>8, <1>10, <2>1
  <2> QED
    BY <1>3, <2>1, <2>2 DEF GroupInv, Follow, Following
<1> QED
  BY <1>2, <1>4, <1>11, <1>12, <1>13, <1>14, <1>15, <1>16, <1>17, <1>18, <1>19, GroupsKept

(* What the end of a part leaves of the place of an address. *)
LEMMA RuleAfterIs ==
  ASSUME Types, WellFormed, NEW o \in Ops, op[o].part # None, NEW r \in Rules
  PROVE  LET p == PartOf(o)
             new == RuleAfter(o, r)
             old == rule[r]
         IN  /\ new.rev = old.rev
             /\ new.exists => old.exists /\ new.kind = old.kind /\ new.desired = old.desired
             /\ new.exists /\ r \in DOMAIN p.rules => ~p.rules[r].delete
             /\ new.group \in {0, old.group}
             /\ new.group # 0 => /\ old.exists => new.exists
                                 /\ new.kind = old.kind
                                 /\ op[o].request.kind = "group.delete" =>
                                      old.group # p.group \/ (r \in DOMAIN p.rules /\ ~p.rules[r].delete)
             /\ (r \in DOMAIN p.rules => ~p.rules[r].delete) /\ op[o].request.kind # "group.delete" =>
                  new.exists = old.exists /\ new.group = old.group /\ new.kind = old.kind /\ new.desired = old.desired
<1> DEFINE p == PartOf(o)
           R == DOMAIN p.rules
           wanted == p.rules[r]
           to == wanted.targets
           row == rule[r]
           box == IF op[o].request.kind \in {"address.create", "address.update"} THEN op[o].request.box ELSE rule[r].box
           rows == (IF row.rows = {} THEN {} ELSE {"missing"}) \cup (IF to = {} THEN {} ELSE {"current"})
           grp == IF op[o].request.kind = "group.delete" /\ row.group = p.group THEN 0 ELSE row.group
           a == NoRule(r)
           b == [row EXCEPT !.targets = to, !.box = box, !.state = "unknown"]
           c == [row EXCEPT !.targets = to, !.observed = to, !.box = box, !.state = "synced", !.rows = rows]
           d == [row EXCEPT !.group = grp]
<1>1. DOMAIN row = {"exists", "kind", "group", "box", "rev", "desired", "targets", "observed", "state", "rows"}
  BY DEF Types, LocalTypes, RuleRow
<1>2. RuleAfter(o, r) = CASE r \in R /\ wanted.delete -> a
                          [] r \in R \cap External /\ ~wanted.delete -> b
                          [] r \in R \ External /\ ~wanted.delete -> c
                          [] r \notin R -> d
  BY DEF RuleAfter
<1>3. a.exists = FALSE /\ a.group = 0 /\ a.rev = row.rev
  BY DEF NoRule
<1> HIDE DEF R, wanted, to, row, box, rows, grp, a
<1>4. /\ b.exists = row.exists /\ b.desired = row.desired /\ b.group = row.group /\ b.kind = row.kind /\ b.rev = row.rev
      /\ c.exists = row.exists /\ c.desired = row.desired /\ c.group = row.group /\ c.kind = row.kind /\ c.rev = row.rev
      /\ d.exists = row.exists /\ d.desired = row.desired /\ d.group = grp /\ d.kind = row.kind /\ d.rev = row.rev
  BY <1>1
<1> HIDE DEF b, c, d, p
<1>5. CASE r \in R /\ wanted.delete
  <2>1. RuleAfter(o, r) = a
    BY <1>2, <1>5
  <2> QED
    BY <1>3, <1>5, <2>1 DEF row, R, wanted, p
<1>6. CASE r \in R /\ ~wanted.delete
  <2>1. RuleAfter(o, r) = b \/ RuleAfter(o, r) = c
    BY <1>2, <1>6
  <2>2. LET new == RuleAfter(o, r)
        IN  new.exists = row.exists /\ new.desired = row.desired /\ new.group = row.group /\ new.kind = row.kind /\ new.rev = row.rev
    BY <1>4, <2>1
  <2> QED
    BY <1>6, <2>2 DEF row, R, wanted, p
<1>7. CASE r \notin R
  <2>1. RuleAfter(o, r) = d
    BY <1>2, <1>7
  <2>2. LET new == RuleAfter(o, r)
        IN  new.exists = row.exists /\ new.desired = row.desired /\ new.group = grp /\ new.kind = row.kind /\ new.rev = row.rev
    BY <1>4, <2>1
  <2>3. grp = IF op[o].request.kind = "group.delete" /\ row.group = p.group THEN 0 ELSE row.group
    BY DEF grp
  <2> QED
    BY <1>7, <2>2, <2>3 DEF row, R, p
<1> QED
  BY <1>5, <1>6, <1>7

(* The end of a part of an offboarding leaves its groups as they are. *)
LEMMA OffboardPartGroups ==
  ASSUME AddressInv, AddressInv', GroupInv, NEW o \in Ops, PartCommit(o), Offboards(o)
  PROVE  GroupInv'
<1>1. Types /\ WellFormed
  BY DEF AddressInv
<1>2. /\ op[o].part # None /\ UNCHANGED <<member, mailbox>> /\ \A r \in Rules : rule'[r] = RuleAfter(o, r)
      /\ GoesOn(o) \/ op[o].request.kind \in Routes
  BY <1>1, PartCommitStep
<1>3. op[o].request.kind \notin Routes /\ op[o].request.kind # "group.delete"
  BY DEF Offboards, Routes
<1>4. UNCHANGED <<group, missed, abandoned>>
  BY DEF PartCommit, GroupsAfter
<1>5. \A r \in DOMAIN PartOf(o).rules : ~PartOf(o).rules[r].delete
  BY <1>1, <1>2, <1>3, PartTyped DEF WellFormed, Asked, Keeping, PartOf, Types
<1>6. \A r \in Rules : StaysWith(rule'[r], rule[r]) /\ rule'[r].desired = rule[r].desired
  <2> SUFFICES ASSUME NEW r \in Rules PROVE StaysWith(rule'[r], rule[r]) /\ rule'[r].desired = rule[r].desired
    OBVIOUS
  <2>1. rule[r].rev \in Nat
    BY <1>1 DEF Types, LocalTypes, RuleRow
  <2>2. LET new == RuleAfter(o, r)
        IN  /\ new.rev = rule[r].rev /\ new.exists = rule[r].exists /\ new.group = rule[r].group
            /\ new.kind = rule[r].kind /\ new.desired = rule[r].desired
    BY <1>1, <1>2, <1>3, <1>5, RuleAfterIs
  <2> QED
    BY <1>2, <2>1, <2>2 DEF StaysWith
<1> QED
  BY <1>2, <1>3, <1>4, <1>6, GoesOnGroups

(* What is known of a part of a plan when it is committed: it was made for *)
(* the team and the addresses its group has after it.                      *)
LEMMA PartAtCommit ==
  ASSUME AddressInv, GroupInv, NEW o \in Ops, PartCommit(o), ~Offboards(o)
  PROVE  LET k == op[o].part
             p == PartOf(o)
             gone == op[o].request.kind = "group.delete"
         IN  /\ k \in DOMAIN op[o].plan.parts \ op[o].done /\ k \in Groups \cup {0} /\ p.group = k /\ p = op[o].plan.parts[k]
             /\ p.team \subseteq Members /\ DOMAIN p.rules \subseteq Rules
             /\ ~gone => \A m \in p.team : member[m].status # "absent" /\ <<"member", m>> \in Held(o)
             /\ gone => \A r \in DOMAIN p.rules : p.rules[r].delete
             /\ \A r, s \in DOMAIN p.rules : ~p.rules[r].delete /\ ~p.rules[s].delete => r = s
             /\ k # 0 => /\ <<"group", k>> \in Held(o)
                         /\ k \notin abandoned' => AddressesOf(k) \subseteq DOMAIN p.rules
                         /\ \A r \in DOMAIN p.rules : ~p.rules[r].delete =>
                              rule[r].desired = Candidates(p.team, member, mailbox)
             /\ missed' = missed \ {k} /\ abandoned \ {k} \subseteq abandoned' /\ abandoned' \subseteq abandoned
             /\ group' = IF k = 0 THEN group
                         ELSE IF gone THEN [group EXCEPT ![k].exists = FALSE, ![k].team = {}]
                         ELSE [group EXCEPT ![k].rev = @ + 1, ![k].team = p.team]
<1> DEFINE k == op[o].part
           p == PartOf(o)
           gone == op[o].request.kind = "group.delete"
<1>1. Types /\ WellFormed
  BY DEF AddressInv
<1>2. /\ op[o].status = "running" /\ k # None /\ PartValid(o) /\ group' = GroupsAfter(o)
      /\ missed' = missed \ {p.group}
      /\ abandoned' = IF AddressesOf(p.group) \subseteq DOMAIN p.rules THEN abandoned \ {p.group} ELSE abandoned
  BY DEF PartCommit, ReadBack, Working, Running
<1>3. op[o].status \in Live /\ op[o].status # "prepared"
  BY <1>2, LiveFacts
<1>4. k \in DOMAIN op[o].plan.parts \ op[o].done /\ p = op[o].plan.parts[k] /\ PlannedOf(o) /\ Reserving(o)
  BY <1>2, <1>3, PartOfLive
<1>5. p.group = k /\ k \in Groups \cup {0} /\ PartFits(o, k) /\ p \in PartRow
  BY <1>1, <1>3, <1>4, GroupPartOf DEF GroupInv, PartsFit
<1>6. p.team \subseteq Members /\ DOMAIN p.rules \subseteq Rules
  BY <1>5, PartFields
<1>7. /\ ~gone => DOMAIN p.versions.members = p.team /\ \A m \in p.team : member[m].status # "absent"
      /\ gone => \A r \in DOMAIN p.rules : p.rules[r].delete
      /\ \A r, s \in DOMAIN p.rules : ~p.rules[r].delete /\ ~p.rules[s].delete => r = s
  BY <1>3, <1>4, <1>5 DEF PartFits
<1>8. /\ k # 0 => <<"group", k>> \in Held(o)
      /\ \A m \in DOMAIN p.versions.members : <<"member", m>> \in Held(o)
  BY <1>3, <1>4, <1>5, KeyOfGroup
<1>9. ASSUME k # 0, k \notin abandoned' PROVE AddressesOf(k) \subseteq DOMAIN p.rules
  <2>1. CASE k \notin abandoned
    BY <1>3, <1>4, <1>9, <2>1 DEF GroupInv, Within, WithinOf
  <2>2. CASE k \in abandoned
    BY <1>2, <1>5, <1>9, <2>2
  <2> QED
    BY <2>1, <2>2
<1>10. ASSUME k # 0, NEW r \in DOMAIN p.rules, ~p.rules[r].delete
       PROVE  rule[r].desired = Candidates(p.team, member, mailbox)
  <2>1. p.rules[r].targets = Candidates(p.team, member, mailbox)
    BY <1>2, <1>5, <1>10 DEF PartValid, CandidatesCurrent
  <2>2. rule[r].desired = p.rules[r].targets
    BY <1>4 DEF PlannedOf
  <2> QED
    BY <2>1, <2>2
<1>11. group' = IF k = 0 THEN group
                ELSE IF gone THEN [group EXCEPT ![k].exists = FALSE, ![k].team = {}]
                ELSE [group EXCEPT ![k].rev = @ + 1, ![k].team = p.team]
  BY <1>2, <1>5 DEF GroupsAfter
<1>12. missed' = missed \ {k} /\ abandoned \ {k} \subseteq abandoned' /\ abandoned' \subseteq abandoned
  BY <1>2, <1>5
<1> HIDE DEF k, p, gone
<1>13. ~gone => \A m \in p.team : member[m].status # "absent" /\ <<"member", m>> \in Held(o)
  BY <1>7, <1>8
<1>14. k # 0 => /\ <<"group", k>> \in Held(o)
                /\ k \notin abandoned' => AddressesOf(k) \subseteq DOMAIN p.rules
                /\ \A r \in DOMAIN p.rules : ~p.rules[r].delete =>
                     rule[r].desired = Candidates(p.team, member, mailbox)
  BY <1>8, <1>9, <1>10
<1> QED
  BY <1>4, <1>5, <1>6, <1>7, <1>11, <1>12, <1>13, <1>14, Zenon DEF k, p, gone

(* What is left of the plan when a part is done. *)
LEMMA PartCommitOwn ==
  ASSUME AddressInv, GroupInv, NEW o \in Ops, PartCommit(o), ~Offboards(o),
         \A g \in Groups \ {op[o].part} : AddressesOf(g)' \subseteq AddressesOf(g)
  PROVE  /\ OnlyOp(o) /\ OwnGroups(o)' /\ Leaves(o) = {} /\ Leaves(o)' = {}
         /\ Busy(o) \ {op[o].part} \subseteq Busy(o)' /\ op[o].part \in Busy(o)
<1> DEFINE k == op[o].part
<1>1. Types /\ WellFormed
  BY DEF AddressInv
<1>2. /\ k # None /\ op[o].status \in Live /\ UNCHANGED <<member, mailbox>>
      /\ \/ GoesOn(o) /\ op[o].request.kind \notin Routes /\ op'[o].done = op[o].done \cup {k}
         \/ Ends(o) /\ op[o].request.kind \in Routes
  BY <1>1, PartCommitStep, LiveFacts
<1>3. /\ k \in DOMAIN op[o].plan.parts \ op[o].done /\ op[o].committed
  BY <1>2, PartOfLive
<1>4. abandoned \ {k} \subseteq abandoned'
  BY PartAtCommit
<1> HIDE DEF k
<1>5. CASE Ends(o) /\ op[o].request.kind \in Routes
  <2>1. OnlyOp(o) /\ op'[o].status \in {"rejected", "succeeded", "cancelled"}
    <3>1. \A s \in {"rejected", "succeeded", "cancelled"} : Settled(s).status = s
      BY IdleTyped
    <3> QED
      BY <1>5, <3>1 DEF Ends
  <2>2. op'[o].status \notin Live \cup {"prepared"}
    BY <2>1, LiveFacts
  <2>3. OwnGroups(o)' /\ Leaves(o)' = {}
    BY <2>2 DEF OwnGroups, PartsFitOf, ConcernsOf, PreparedOf, CoveredOf, WithinOf, Leaves
  <2>4. DOMAIN op[o].plan.parts = {op[o].request.group}
    BY <1>1, <1>2, <1>5 DEF WellFormed, Asked
  <2> QED
    BY <1>2, <1>3, <2>1, <2>3, <2>4 DEF Busy, Leaves, k
<1>6. CASE GoesOn(o) /\ op[o].request.kind \notin Routes /\ op'[o].done = op[o].done \cup {k}
  <2>1. /\ OnlyOp(o) /\ op'[o].status \in Live
        /\ op'[o].request = op[o].request /\ op'[o].plan = op[o].plan /\ op'[o].committed
    BY <1>3, <1>6 DEF GoesOn
  <2>2. op[o].status # "prepared" /\ op'[o].status # "prepared" /\ ~Offboards(o)'
    BY <1>2, <2>1, LiveFacts DEF Offboards
  <2>3. PartsFitOf(o)'
    <3>1. SUFFICES ASSUME NEW l \in DOMAIN op[o].plan.parts PROVE PartFits(o, l)'
      BY <2>1 DEF PartsFitOf
    <3>2. PartFits(o, l)
      BY <1>2 DEF GroupInv, PartsFit, PartsFitOf
    <3> QED
      BY <1>2, <2>1, <2>2, <3>2 DEF PartFits
  <2>4. ConcernsOf(o)' /\ PreparedOf(o)' /\ CoveredOf(o)'
    BY <2>1, <2>2, Zenon DEF ConcernsOf, PreparedOf, CoveredOf
  <2>5. WithinOf(o)'
    <3>1. SUFFICES ASSUME NEW l \in (DOMAIN op[o].plan.parts \ (op[o].done \cup {k})) \ abandoned', l # 0
                   PROVE  AddressesOf(l)' \subseteq DOMAIN op[o].plan.parts[l].rules
      BY <1>6, <2>1 DEF WithinOf
    <3>2. l \in Groups
      BY <1>1, <1>2, <3>1, GroupPartOf DEF GroupInv, PartsFit
    <3>3. AddressesOf(l)' \subseteq AddressesOf(l) /\ l \notin abandoned
      BY <1>4, <3>1, <3>2 DEF k
    <3>4. AddressesOf(l) \subseteq DOMAIN op[o].plan.parts[l].rules
      BY <1>2, <3>1, <3>3 DEF GroupInv, Within, WithinOf
    <3> QED
      BY <3>3, <3>4
  <2> QED
    BY <1>2, <1>3, <1>6, <2>1, <2>2, <2>3, <2>4, <2>5 DEF OwnGroups, Busy, Leaves, k
<1> QED
  BY <1>2, <1>5, <1>6

(* A part is done: its group has its new team, and the address that        *)
(* follows it.                                                             *)
LEMMA PartCommitGroups ==
  ASSUME AddressInv, AddressInv', GroupInv, NEW o \in Ops, PartCommit(o)
  PROVE  GroupInv'
<1> DEFINE p == PartOf(o)
           gone == op[o].request.kind = "group.delete"
<1> SUFFICES ASSUME ~Offboards(o) PROVE GroupInv'
  BY OffboardPartGroups
<1>0. PICK x : x = op[o].part
  OBVIOUS
<1>1. Types /\ Types' /\ WellFormed /\ Exclusive /\ LocalTypes /\ AddressesFit
  BY DEF AddressInv, Types, GroupInv
<1>2. x # None /\ UNCHANGED <<member, mailbox>> /\ \A r \in Rules : rule'[r] = RuleAfter(o, r)
  BY <1>0, <1>1, PartCommitStep
<1>3. /\ x \in Groups \cup {0} /\ p.group = x /\ p.team \subseteq Members /\ DOMAIN p.rules \subseteq Rules
      /\ ~gone => \A m \in p.team : member[m].status # "absent" /\ <<"member", m>> \in Held(o)
      /\ gone => \A r \in DOMAIN p.rules : p.rules[r].delete
      /\ \A r, s \in DOMAIN p.rules : ~p.rules[r].delete /\ ~p.rules[s].delete => r = s
      /\ x # 0 => /\ <<"group", x>> \in Held(o)
                  /\ x \notin abandoned' => AddressesOf(x) \subseteq DOMAIN p.rules
                  /\ \A r \in DOMAIN p.rules : ~p.rules[r].delete =>
                       rule[r].desired = Candidates(p.team, member, mailbox)
  BY <1>0, PartAtCommit
<1>4. /\ missed' = missed \ {x} /\ abandoned \ {x} \subseteq abandoned'
      /\ group' = IF x = 0 THEN group
                  ELSE IF gone THEN [group EXCEPT ![x].exists = FALSE, ![x].team = {}]
                  ELSE [group EXCEPT ![x].rev = @ + 1, ![x].team = p.team]
  BY <1>0, PartAtCommit
<1>5. ASSUME NEW r \in Rules
      PROVE  /\ rule'[r].rev = rule[r].rev
             /\ rule'[r].exists => rule[r].exists /\ rule'[r].kind = rule[r].kind /\ rule'[r].desired = rule[r].desired
             /\ rule'[r].exists /\ r \in DOMAIN p.rules => ~p.rules[r].delete
             /\ rule'[r].group \in {0, rule[r].group}
             /\ rule'[r].group # 0 => /\ rule[r].exists => rule'[r].exists
                                      /\ rule'[r].kind = rule[r].kind
                                      /\ gone => rule[r].group # x
  BY <1>0, <1>1, <1>2, <1>3, RuleAfterIs
<1> HIDE DEF p, gone
<1>6. ASSUME NEW g \in Groups
      PROVE  /\ group'[g].rev >= group[g].rev
             /\ g # x => group'[g] = group[g]
             /\ g = x /\ ~gone => /\ group'[g].rev > group[g].rev /\ group'[g].team = p.team
                                  /\ group'[g].exists = group[g].exists
             /\ g = x /\ gone => ~group'[g].exists /\ group'[g].team = {}
  <2>1. group \in [Groups -> GroupRow] /\ group[g].rev \in Nat /\ DOMAIN group[g] = {"exists", "rev", "team"}
    BY <1>1 DEF LocalTypes, GroupRow
  <2>2. 0 \notin Groups
    BY IdsArePositive
  <2>3. CASE g # x
    BY <1>4, <2>1, <2>3
  <2>4. CASE g = x /\ gone
    <3>1. group' = [group EXCEPT ![x].exists = FALSE, ![x].team = {}]
      BY <1>4, <2>2, <2>4
    <3>2. group'[g].exists = FALSE /\ group'[g].team = {} /\ group'[g].rev = group[g].rev
      BY <2>1, <2>4, <3>1
    <3> QED
      BY <2>1, <2>4, <3>2
  <2>5. CASE g = x /\ ~gone
    <3>1. group' = [group EXCEPT ![x].rev = @ + 1, ![x].team = p.team]
      BY <1>4, <2>2, <2>5
    <3>2. group'[g].exists = group[g].exists /\ group'[g].team = p.team /\ group'[g].rev = group[g].rev + 1
      BY <2>1, <2>5, <3>1
    <3> QED
      BY <2>1, <2>5, <3>2
  <2> QED
    BY <2>3, <2>4, <2>5
<1>7. \A g \in Groups : AddressesOf(g)' \subseteq AddressesOf(g)
  BY <1>5, IdsArePositive DEF AddressesOf
<1>8. gone /\ x \in Groups => AddressesOf(x)' = {}
  BY <1>5, IdsArePositive DEF AddressesOf
<1>9. /\ OnlyOp(o) /\ OwnGroups(o)' /\ Leaves(o) = {} /\ Leaves(o)' = {}
      /\ Busy(o) \ {x} \subseteq Busy(o)' /\ x \in Busy(o)
  BY <1>0, <1>7, PartCommitOwn
<1>10. \A g \in Groups : (Departing(g)' <=> Departing(g)) /\ (g # x /\ Calm(g)' => Calm(g))
  BY <1>4, <1>9, WorkMoves DEF Calm
<1>11. GroupsMove(x)
  BY <1>4, <1>6, <1>7, <1>10 DEF GroupsMove, Loses
<1>12. Works(o, x)
  BY <1>1, <1>3 DEF Works, Exclusive
<1>13. Settles(o, x)
  <2> SUFFICES ASSUME x \in Groups
               PROVE  /\ group'[x].rev >= group[x].rev
                      /\ group'[x].rev > group[x].rev \/ AddressesOf(x)' = {}
                      /\ \/ ~group'[x].exists
                         \/ \A m \in group'[x].team : \A q \in Ops \ {o} : <<"member", m>> \notin Held(q)
    BY DEF Settles
  <2>1. CASE gone
    BY <1>6, <1>8, <2>1
  <2>2. CASE ~gone
    <3>1. \A m \in p.team : \A q \in Ops \ {o} : <<"member", m>> \notin Held(q)
      BY <1>1, <1>3, <2>2 DEF Exclusive
    <3> QED
      BY <1>6, <2>2, <3>1
  <2> QED
    BY <2>1, <2>2
<1>14. RulesMove
  <2>1. \A r \in Rules : rule[r].rev \in Nat
    BY <1>1 DEF LocalTypes, RuleRow
  <2> QED
    BY <1>5, <2>1 DEF RulesMove
<1>15. RowsMove
  BY <1>2 DEF RowsMove
<1>16. x \in Groups /\ x \notin abandoned' => \A r \in AddressesOf(x)' : r \in DOMAIN p.rules /\ ~p.rules[r].delete
  <2> SUFFICES ASSUME x \in Groups, x \notin abandoned', NEW r \in AddressesOf(x)'
               PROVE  r \in DOMAIN p.rules /\ ~p.rules[r].delete
    OBVIOUS
  <2>1. x # 0 /\ r \in Rules /\ rule'[r].exists
    BY IdsArePositive DEF AddressesOf
  <2>2. r \in DOMAIN p.rules
    BY <1>3, <1>7, <2>1
  <2> QED
    BY <1>5, <2>1, <2>2
<1>17. OfGroupX(x)'
  <2> SUFFICES ASSUME x \in Groups
               PROVE  /\ \A m \in group'[x].team : member'[m].status # "absent"
                      /\ Calm(x)' => \A r, s \in AddressesOf(x)' : r = s
    BY DEF OfGroupX
  <2>1. \A m \in group'[x].team : member'[m].status # "absent"
    BY <1>2, <1>3, <1>6
  <2>2. Calm(x)' => \A r, s \in AddressesOf(x)' : r = s
    BY <1>3, <1>16 DEF Calm
  <2> QED
    BY <2>1, <2>2
<1>18. AddressesFit'
  <2> SUFFICES ASSUME NEW r \in Rules, rule'[r].group # 0
               PROVE  rule'[r].exists /\ rule'[r].kind = "group" /\ group'[rule'[r].group].exists
    BY DEF AddressesFit
  <2>1. rule'[r].group = rule[r].group /\ rule[r].group \in Groups
    BY <1>1, <1>5 DEF LocalTypes, RuleRow
  <2>2. rule[r].exists /\ rule[r].kind = "group" /\ group[rule[r].group].exists
    BY <1>1, <2>1 DEF AddressesFit
  <2>3. group'[rule[r].group].exists
    BY <1>5, <1>6, <2>1, <2>2
  <2> QED
    BY <1>5, <2>1, <2>2, <2>3
<1>19. Follow'
  <2> SUFFICES ASSUME NEW g \in Groups \ missed', Calm(g)', ~Departing(g)', NEW r \in AddressesOf(g)'
               PROVE  rule'[r].desired = Candidates(group'[g].team, member', mailbox')
    BY DEF Follow, Following
  <2>1. r \in AddressesOf(g) /\ r \in Rules /\ rule'[r].desired = rule[r].desired
    BY <1>5, <1>7 DEF AddressesOf
  <2>2. CASE g # x
    <3>1. g \notin missed /\ Calm(g) /\ ~Departing(g) /\ group'[g] = group[g]
      BY <1>4, <1>6, <1>10, <2>2
    <3> QED
      BY <1>2, <2>1, <3>1 DEF GroupInv, Follow, Following
  <2>3. CASE g = x
    <3>1. ~gone /\ x # 0 /\ group'[g].team = p.team
      BY <1>6, <1>8, <2>3, IdsArePositive
    <3>2. r \in DOMAIN p.rules /\ ~p.rules[r].delete
      BY <1>16, <2>3 DEF Calm
    <3> QED
      BY <1>2, <1>3, <2>1, <3>1, <3>2
  <2> QED
    BY <2>2, <2>3
<1> QED
  BY <1>1, <1>9, <1>11, <1>12, <1>13, <1>14, <1>15, <1>17, <1>18, <1>19, GroupsKept

-----------------------------------------------------------------------------
(* What is read from the provider changes no address of a group. *)

\* An address stays with its group, or is none of a group before and after.
StaysPut(new, old) ==
  \/ StaysWith(new, old) /\ new.desired = old.desired
  \/ old.group = 0 /\ new.group = 0 /\ new.rev >= old.rev

\* The group distributes to the mailbox as before, or to neither row of it.
AsBefore(g, b) ==
  \/ mailbox'[b].status = mailbox[b].status /\ mailbox'[b].kind = mailbox[b].kind /\ mailbox'[b].owner = mailbox[b].owner
  \/ NotFor(group[g].team, mailbox[b]) /\ NotFor(group[g].team, mailbox'[b])

(* What is so of groups stays so when mailboxes and addresses change for   *)
(* none that is not known to be missed.                                    *)
LEMMA IdleGroups ==
  ASSUME AddressInv, AddressInv', GroupInv, UNCHANGED <<op, member, group, abandoned>>, missed \subseteq missed',
         \A b \in Mailboxes : mailbox'[b] = mailbox[b] \/ mailbox'[b].rev > mailbox[b].rev,
         \A g \in Groups \ missed' : \A b \in Mailboxes : AsBefore(g, b),
         \A r \in Rules : StaysPut(rule'[r], rule[r])
  PROVE  GroupInv'
<1>1. Types /\ Types' /\ WellFormed
  BY DEF AddressInv
<1>2. 0 \notin Groups
  BY IdsArePositive
<1> DEFINE o == CHOOSE x : x \notin Ops
<1>3. o \notin Ops
  BY NoSetContainsEverything
<1> HIDE DEF o
<1>4. OnlyOp(o)
  BY <1>1 DEF OnlyOp, Types, OpTypes
<1>5. Works(o, 0) /\ Settles(o, 0) /\ OfGroupX(0)'
  BY <1>2 DEF Works, Settles, OfGroupX
<1>6. \A g \in Groups : (Calm(g)' <=> Calm(g)) /\ (Departing(g)' <=> Departing(g))
  BY DEF Calm, InWork, Departing, Offboards
<1>7. \A g \in Groups : AddressesOf(g)' = AddressesOf(g)
  BY <1>2 DEF AddressesOf, StaysPut, StaysWith
<1>8. GroupsMove(0)
  <2>1. \A g \in Groups : group[g].rev \in Nat
    BY <1>1 DEF Types, LocalTypes, GroupRow
  <2> QED
    BY <1>6, <1>7, <2>1 DEF GroupsMove, Loses
<1>9. RulesMove
  BY DEF RulesMove, StaysPut, StaysWith
<1>10. RowsMove
  BY DEF RowsMove
<1>11. AddressesFit'
  <2>1. AddressesFit
    BY DEF GroupInv
  <2> SUFFICES ASSUME NEW r \in Rules, rule'[r].group # 0
               PROVE  rule'[r].exists /\ rule'[r].kind = "group" /\ group'[rule'[r].group].exists
    BY DEF AddressesFit
  <2>2. StaysWith(rule'[r], rule[r])
    BY DEF StaysPut
  <2> QED
    BY <2>1, <2>2 DEF AddressesFit, StaysWith
<1>12. Follow'
  <2> SUFFICES ASSUME NEW g \in Groups \ missed', Calm(g)', ~Departing(g)', NEW r \in AddressesOf(g)'
               PROVE  rule'[r].desired = Candidates(group'[g].team, member', mailbox')
    BY DEF Follow, Following
  <2>1. r \in AddressesOf(g)
    BY <1>7
  <2>2. rule[r].desired = Candidates(group[g].team, member, mailbox)
    BY <1>6, <2>1 DEF GroupInv, Follow, Following
  <2>3. rule'[r].desired = rule[r].desired
    BY <1>2, <2>1 DEF AddressesOf, StaysPut
  <2>5. \A b \in Mailboxes : \/ mailbox'[b].status = mailbox[b].status /\ mailbox'[b].kind = mailbox[b].kind
                                /\ mailbox'[b].owner = mailbox[b].owner
                             \/ NotFor(group[g].team, mailbox[b]) /\ NotFor(group[g].team, mailbox'[b])
    BY DEF AsBefore
  <2>6. \A m \in group[g].team : member[m].status \in Eligible <=> member'[m].status \in Eligible
    OBVIOUS
  <2>7. Candidates(group[g].team, member', mailbox') = Candidates(group[g].team, member, mailbox)
    BY <2>5, <2>6, CandidatesSame
  <2> QED
    BY <2>2, <2>3, <2>7
<1> QED
  BY <1>1, <1>3, <1>4, <1>5, <1>8, <1>9, <1>10, <1>11, <1>12, GroupsKept

(* Somebody reads at the provider, or a mailbox comes that belongs to      *)
(* nobody.                                                                 *)
LEMMA ReadGroups ==
  ASSUME AddressInv, AddressInv', GroupInv, UNCHANGED <<op, member, group, missed, abandoned>>,
         \A b \in Mailboxes : \/ mailbox'[b] = mailbox[b]
                              \/ mailbox'[b].rev > mailbox[b].rev /\ mailbox[b].status = "absent" /\ mailbox'[b].owner = None,
         \A r \in Rules : StaysPut(rule'[r], rule[r])
  PROVE  GroupInv'
<1>1. ASSUME NEW g \in Groups, NEW b \in Mailboxes PROVE AsBefore(g, b)
  <2>1. None \notin group[g].team
    BY NoneIsNothing DEF AddressInv, Types, LocalTypes, GroupRow
  <2> QED
    BY <2>1 DEF AsBefore, NotFor
<1> QED
  BY <1>1, IdleGroups

(* A set-up gives a mailbox away; the groups of the new owner are missed.  *)
LEMMA SetupGroups ==
  ASSUME AddressInv, AddressInv', GroupInv, NEW b \in Mailboxes, NEW m \in Members, CompleteConnectionSetup(b, m)
  PROVE  GroupInv'
<1>1. Types
  BY DEF AddressInv
<1>2. /\ UNCHANGED <<member, group, rule, op, abandoned>>
      /\ mailbox[b].owner \in {None, m} /\ mailbox'[b].owner = m /\ mailbox'[b].rev > mailbox[b].rev
      /\ mailbox'[b].status = mailbox[b].status /\ mailbox'[b].kind = mailbox[b].kind
      /\ \A x \in Mailboxes \ {b} : mailbox'[x] = mailbox[x]
      /\ missed \subseteq missed'
      /\ mailbox[b].owner = None => \A g \in Groups \ missed' : m \notin group[g].team
  BY <1>1, SetupStep
<1>3. ASSUME NEW g \in Groups \ missed', NEW x \in Mailboxes PROVE AsBefore(g, x)
  <2>1. CASE x # b \/ mailbox[b].owner = m
    BY <1>2, <2>1 DEF AsBefore
  <2>2. CASE x = b /\ mailbox[b].owner = None
    <3>1. None \notin group[g].team
      BY <1>1, NoneIsNothing DEF Types, LocalTypes, GroupRow
    <3> QED
      BY <1>2, <2>2, <3>1 DEF AsBefore, NotFor
  <2> QED
    BY <1>2, <2>1, <2>2
<1>4. \A r \in Rules : StaysPut(rule'[r], rule[r])
  <2>1. \A r \in Rules : rule[r].rev \in Nat
    BY <1>1 DEF Types, LocalTypes, RuleRow
  <2> QED
    BY <1>2, <2>1 DEF StaysPut, StaysWith
<1>5. \A x \in Mailboxes : mailbox'[x] = mailbox[x] \/ mailbox'[x].rev > mailbox[x].rev
  BY <1>2
<1> QED
  BY <1>2, <1>3, <1>4, <1>5, IdleGroups

(* A synchronisation changes what an address is shown to be. *)
LEMMA ComparedStays ==
  ASSUME LocalTypes, NEW r \in Rules
  PROVE  StaysWith(Compared(r), rule[r]) /\ Compared(r).desired = rule[r].desired
<1> DEFINE row == rule[r]
           there == remote[r]
           lost == IF "missing" \in row.rows THEN [row EXCEPT !.state = "unknown", !.rev = @ + 1] ELSE row
           next == IF there = row.desired THEN "synced" ELSE "error"
           new == [lost EXCEPT !.observed = there, !.state = next, !.rev = @ + 1]
<1>1. row.rev \in Nat
      /\ DOMAIN row = {"exists", "kind", "group", "box", "rev", "desired", "targets", "observed", "state", "rows"}
  BY DEF LocalTypes, RuleRow
<1>2. Compared(r) = IF "current" \notin row.rows \/ (lost.observed = there /\ lost.state = next) THEN lost ELSE new
  BY DEF Compared
<1>3. row = rule[r]
  OBVIOUS
<1> HIDE DEF row, there, next
<1>4. /\ lost.rev \in Nat /\ StaysWith(lost, row) /\ lost.desired = row.desired
      /\ DOMAIN lost = DOMAIN row
  BY <1>1 DEF StaysWith
<1> HIDE DEF lost
<1>5. StaysWith(new, row) /\ new.desired = row.desired
  <2>1. /\ new.exists = lost.exists /\ new.group = lost.group /\ new.kind = lost.kind /\ new.desired = lost.desired
        /\ new.rev = lost.rev + 1
    BY <1>1, <1>4
  <2> HIDE DEF new
  <2>2. row.rev \in Nat /\ lost.rev >= row.rev
    BY <1>1, <1>4 DEF StaysWith
  <2> QED
    BY <1>4, <2>1, <2>2 DEF StaysWith
<1> HIDE DEF new
<1> QED
  BY <1>2, <1>3, <1>4, <1>5

(* So does an import, unless it makes an address of no group. *)
LEMMA ImportedStays ==
  ASSUME LocalTypes, AddressesFit, NEW r \in Rules
  PROVE  StaysPut(Imported(r), rule[r])
<1> DEFINE row == rule[r]
           seen == snap[r].targets
           rows == row.rows \cup {IF snap[r].live THEN "current" ELSE "stale"}
           state == IF row.desired = seen THEN "synced" ELSE "error"
           box == IF Cardinality(seen) = 1 THEN CHOOSE b \in seen : TRUE ELSE None
           old == [row EXCEPT !.observed = seen, !.rows = rows, !.state = state]
           new == [exists |-> TRUE, kind |-> "alias", group |-> 0, rev |-> row.rev + 1, desired |-> seen, targets |-> seen,
                   observed |-> seen, state |-> "synced", rows |-> rows \ {"missing"}, box |-> box]
<1>1. row.rev \in Nat
      /\ DOMAIN row = {"exists", "kind", "group", "box", "rev", "desired", "targets", "observed", "state", "rows"}
  BY DEF LocalTypes, RuleRow
<1>2. Imported(r) = IF row.exists THEN old ELSE new
  BY DEF Imported
<1>3. ~row.exists => row.group = 0
  BY DEF AddressesFit
<1>4. row = rule[r]
  OBVIOUS
<1> HIDE DEF row, seen, rows, state, box
<1>5. StaysPut(old, row)
  BY <1>1 DEF StaysPut, StaysWith
<1>6. new.group = 0 /\ new.rev >= row.rev
  BY <1>1
<1> HIDE DEF old, new
<1>7. CASE row.exists
  BY <1>2, <1>4, <1>5, <1>7
<1>8. CASE ~row.exists
  BY <1>2, <1>3, <1>4, <1>6, <1>8 DEF StaysPut
<1> QED
  BY <1>7, <1>8

-----------------------------------------------------------------------------
(* The group invariant is kept by every step. *)

(* Every step of an operation keeps what is so of groups. *)
LEMMA GroupsStep ==
  ASSUME AddressInv, AddressInv', OwnerInv, GroupInv, NEW o \in Ops, OpStep(o)
  PROVE  GroupInv'
BY PacesGroups, RemoteCallGroups, ClosesGroups, FinishOffboardGroups, CancelGroups, PartCommitGroups, CommitChangeGroups,
   PrepareGroups, ReserveGroups, SubmitGroups, HandOverGroups, DepartGroups DEF OpStep

(* Every step of the specification keeps it. *)
LEMMA GroupsNext ==
  ASSUME AddressInv, OwnerInv, GroupInv, Next
  PROVE  GroupInv'
<1>0. AddressInv' /\ Types /\ LocalTypes /\ AddressesFit
  BY AddressNext DEF AddressInv, GroupInv, Types
<1>1. CASE \E o \in Ops : OpStep(o)
  BY <1>0, <1>1, GroupsStep
<1>2. \A r \in Rules : StaysWith(rule[r], rule[r])
  <2>1. \A r \in Rules : rule[r].rev \in Nat
    BY <1>0 DEF LocalTypes, RuleRow
  <2> QED
    BY <2>1 DEF StaysWith
<1>3. ASSUME NEW c \in Connections, Sync(c) PROVE GroupInv'
  <2>1. UNCHANGED <<op, member, group, missed, abandoned>> /\ mailbox' = mailbox
    BY <1>3 DEF Sync, Reads
  <2>2. \A r \in Rules : rule'[r] = IF ConnectionOf[r] = c THEN Compared(r) ELSE rule[r]
    BY <1>0, <1>3, SyncStep
  <2>3. \A r \in Rules : StaysPut(rule'[r], rule[r])
    BY <1>0, <1>2, <2>2, ComparedStays DEF StaysPut
  <2> QED
    BY <1>0, <2>1, <2>3, ReadGroups
<1>4. ASSUME NEW c \in Connections, Discover(c) PROVE GroupInv'
  <2>1. UNCHANGED <<op, member, group, missed, abandoned>> /\ mailbox' = mailbox /\ rule' = rule
    BY <1>4 DEF Discover, Reads
  <2>2. \A r \in Rules : StaysPut(rule'[r], rule[r])
    BY <1>2, <2>1 DEF StaysPut
  <2> QED
    BY <1>0, <2>1, <2>2, ReadGroups
<1>5. ASSUME NEW r \in Rules, Import(r) PROVE GroupInv'
  <2>1. UNCHANGED <<op, member, group, missed, abandoned>> /\ mailbox' = mailbox
    BY <1>5 DEF Import, Reads
  <2>2. rule'[r] = Imported(r) /\ \A s \in Rules \ {r} : rule'[s] = rule[s]
    BY <1>0, <1>5, ImportStep
  <2>3. \A s \in Rules : StaysPut(rule'[s], rule[s])
    BY <1>0, <1>2, <2>2, ImportedStays DEF StaysPut
  <2> QED
    BY <1>0, <2>1, <2>3, ReadGroups
<1>6. ASSUME NEW r \in Rules, Foreign(r) PROVE GroupInv'
  <2>1. UNCHANGED <<op, member, group, missed, abandoned>> /\ mailbox' = mailbox
    BY <1>6 DEF Foreign
  <2>2. rule' = rule \/ rule' = [rule EXCEPT ![r].rows = Outdated(@)]
    BY <1>6 DEF Foreign
  <2>3. \A s \in Rules : StaysPut(rule'[s], rule[s])
    BY <1>0, <2>2, OutdatedStays DEF StaysPut
  <2> QED
    BY <1>0, <2>1, <2>3, ReadGroups
<1>7. ASSUME NEW b \in Mailboxes, ImportMailbox(b) PROVE GroupInv'
  <2>1. UNCHANGED <<op, member, group, missed, abandoned>> /\ rule' = rule /\ mailbox[b].status = "absent"
    BY <1>7 DEF ImportMailbox, Reads
  <2>2. /\ mailbox'[b].owner = None /\ mailbox'[b].rev = mailbox[b].rev + 1
        /\ \A x \in Mailboxes \ {b} : mailbox'[x] = mailbox[x]
    BY <1>0, <1>7, ImportMailboxStep
  <2>3. mailbox[b].rev \in Nat
    BY <1>0 DEF LocalTypes, MailboxRow
  <2>4. mailbox'[b].rev > mailbox[b].rev
    BY <2>2, <2>3
  <2>5. \A x \in Mailboxes : \/ mailbox'[x] = mailbox[x]
                             \/ mailbox'[x].rev > mailbox[x].rev /\ mailbox[x].status = "absent" /\ mailbox'[x].owner = None
    BY <2>1, <2>2, <2>4
  <2>6. \A r \in Rules : StaysPut(rule'[r], rule[r])
    BY <1>2, <2>1 DEF StaysPut
  <2> QED
    BY <1>0, <2>1, <2>5, <2>6, ReadGroups
<1>8. ASSUME NEW b \in Mailboxes, NEW m \in Members, CompleteConnectionSetup(b, m) PROVE GroupInv'
  BY <1>0, <1>8, SetupGroups
<1> QED
  BY <1>1, <1>3, <1>4, <1>5, <1>6, <1>7, <1>8, NextCases

(* So does a step that changes nothing. *)
LEMMA GroupsStutter ==
  ASSUME AddressInv, GroupInv, UNCHANGED vars
  PROVE  GroupInv'
<1>1. AddressInv'
  BY AddressStutter
<1>2. UNCHANGED <<op, member, group, missed, abandoned>> /\ mailbox' = mailbox /\ rule' = rule
  BY DEF vars, localVars, history
<1>3. \A r \in Rules : StaysPut(rule'[r], rule[r])
  <2>1. \A r \in Rules : rule[r].rev \in Nat
    BY DEF AddressInv, Types, LocalTypes, RuleRow
  <2> QED
    BY <1>2, <2>1 DEF StaysPut, StaysWith
<1> QED
  BY <1>1, <1>2, <1>3, ReadGroups

(* What an operation changes of members: those it was asked about. *)
LEMMA OnlyTheMember ==
  ASSUME LocalTypes, NEW q, NEW m \in Members
  PROVE  /\ m # q.member => MembersAfter(q)[m] = member[m] /\ Invited(q)[m] = member[m]
         /\ q.kind \notin {"member.enable", "member.disable"} => MembersAfter(q)[m] = member[m]
         /\ q.kind # "member.create" => Invited(q)[m] = member[m]
<1>1. \/ MembersAfter(q) = member /\ Invited(q) = member
      \/ \E row : MembersAfter(q) = [member EXCEPT ![q.member] = row] /\ Invited(q) = member
      \/ \E row : Invited(q) = [member EXCEPT ![q.member] = row] /\ MembersAfter(q) = member
  BY Zenon DEF MembersAfter, Invited
<1>2. member \in [Members -> MemberRow]
  BY DEF LocalTypes
<1>3. m # q.member => MembersAfter(q)[m] = member[m] /\ Invited(q)[m] = member[m]
  BY <1>1, <1>2
<1>4. q.kind \notin {"member.enable", "member.disable"} => MembersAfter(q) = member
  BY DEF MembersAfter
<1>5. q.kind # "member.create" => Invited(q) = member
  BY DEF Invited
<1> QED
  BY <1>3, <1>4, <1>5

\* A step of o brings back nobody who left and whom another operation holds.
NobodyBack(o) ==
  \A m \in Members : \/ member'[m] = member[m] \/ member[m].status # "departed"
                      \/ \A p \in Ops \ {o} : <<"member", m>> \notin Held(p)

(* Whoever is leaving has left. *)
LEMMA GoneKept ==
  ASSUME Types, OwnerInv, Gone, NEW o \in Ops, OnlyOp(o), NobodyBack(o), GoneOf(o)'
  PROVE  Gone'
<1>1. ASSUME NEW p \in Ops \ {o} PROVE GoneOf(p)'
  <2> SUFFICES ASSUME op[p].status \in Live, Offboards(p)
               PROVE  member'[op[p].request.member].status = "departed"
    BY DEF OnlyOp, GoneOf, Offboards
  <2> DEFINE m == op[p].request.member
  <2>1. m \in DOMAIN op[p].plan.old.members /\ member[m].status = "departed"
    BY DEF OwnerInv, Leaving, LeavingOf, Gone, GoneOf
  <2>2. <<"member", m>> \in Held(p) /\ m \in Members
    BY <2>1, MemberHeld, OldTyped DEF Types
  <2> QED
    BY <2>1, <2>2 DEF NobodyBack
<1> QED
  BY <1>1 DEF Gone

(* A change of a member locks the member. *)
LEMMA ChangeGone ==
  ASSUME AddressInv, OwnerInv, Gone, GroupInv, NEW o \in Ops, CommitChange(o) \/ Reserve(o)
  PROVE  Gone'
<1> DEFINE q == op[o].request
<1>1. Types /\ WellFormed /\ Exclusive /\ LocalTypes
  BY DEF AddressInv, Types
<1>2. /\ OnlyOp(o) /\ op'[o].request = q /\ q.kind \in Composite
      /\ member' = MembersAfter(q) \/ member' = Invited(q)
  BY <1>1, CommitChangeStep, ReserveStep DEF CommitChange
<1>3. GoneOf(o)'
  BY <1>2 DEF GoneOf, Offboards, Composite, Mutations
<1>4. ASSUME q.kind \in {"member.enable", "member.disable", "member.create"}, NEW p \in Ops \ {o}
      PROVE  <<"member", q.member>> \notin Held(p)
  <2>1. ConcernsOf(o)
    BY DEF GroupInv, Concerns
  <2>2. q.kind \notin Mutations /\ Concerned(q) = {q.member}
    BY <1>4 DEF Mutations, Concerned
  <2>3. CASE CommitChange(o)
    <3>1. op[o].status \in Live /\ ~op[o].committed
      BY <1>1, <2>3, CommitChangeStep, LiveFacts
    <3>2. q.member \in DOMAIN op[o].plan.old.members
      BY <1>2, <2>1, <2>2, <3>1 DEF ConcernsOf
    <3>3. <<"member", q.member>> \in Held(o)
      BY <3>1, <3>2, MemberHeld
    <3> QED
      BY <1>1, <3>3 DEF Exclusive
  <2>4. CASE Reserve(o)
    <3>1. op[o].status = "prepared" /\ Free(Keys(q, op[o].plan))
      BY <1>1, <2>4, ReserveStep
    <3>2. q.member \in DOMAIN op[o].plan.old.members
      BY <2>1, <2>2, <3>1 DEF ConcernsOf
    <3>3. <<"member", q.member>> \in Keys(q, op[o].plan)
      BY <3>2, KeyOfMember
    <3> QED
      BY <3>1, <3>3 DEF Free
  <2> QED
    BY <2>3, <2>4
<1> HIDE DEF q
<1>5. NobodyBack(o)
  <2> SUFFICES ASSUME NEW m \in Members, member'[m] # member[m]
               PROVE  \A p \in Ops \ {o} : <<"member", m>> \notin Held(p)
    BY DEF NobodyBack
  <2>1. m = q.member /\ q.kind \in {"member.enable", "member.disable", "member.create"}
    BY <1>1, <1>2, OnlyTheMember
  <2> QED
    BY <1>4, <2>1
<1> QED
  BY <1>1, <1>2, <1>3, <1>5, GoneKept

(* The end of an operation brings back nobody: a new member is invited.    *)
LEMMA ClosesGone ==
  ASSUME AddressInv, OwnerInv, Gone, NEW o \in Ops, Closes(o)
  PROVE  Gone'
<1>1. Types /\ WellFormed /\ LocalTypes
  BY DEF AddressInv, Types
<1>2. Ends(o)
  BY <1>1, ClosesStep
<1>3. OnlyOp(o) /\ GoneOf(o)'
  BY <1>2, EndsNotLive DEF Ends, GoneOf
<1>4. CASE Refuse(o) \/ Confirm(o)
  <2>1. member' = member
    BY <1>4 DEF Refuse, Confirm, localVars
  <2> QED
    BY <1>1, <1>3, <2>1, GoneKept DEF NobodyBack
<1>5. CASE Finish(o)
  <2> DEFINE x == op[o].request.member
             new == [status |-> Enabled(x), rev |-> member[x].rev + 1]
  <2>1. member' = IF op[o].request.kind = "member.create" THEN [member EXCEPT ![x] = new] ELSE member
    BY <1>5 DEF Finish
  <2>2. op[o].request.kind = "member.create" => member[x].status = "invited"
    BY <1>5 DEF Finish, FinishValid, Mutations
  <2>3. member \in [Members -> MemberRow]
    BY <1>1 DEF LocalTypes
  <2> HIDE DEF new
  <2>4. \A m \in Members : member'[m] = member[m] \/ member[m].status # "departed"
    BY <2>1, <2>2, <2>3
  <2> QED
    BY <1>1, <1>3, <2>4, GoneKept DEF NobodyBack
<1> QED
  BY <1>4, <1>5 DEF Closes

(* Somebody departs: they have left. *)
LEMMA DepartGone ==
  ASSUME AddressInv, OwnerInv, Gone, NEW o \in Ops, Depart(o)
  PROVE  Gone'
<1>1. Types /\ WellFormed /\ Exclusive
  BY DEF AddressInv
<1> DEFINE m == op'[o].request.member
<1>2. /\ OnlyOp(o) /\ m \in Members /\ member'[m].status = "departed" /\ member[m].status # "departed"
      /\ \A x \in Members \ {m} : member'[x] = member[x]
  BY <1>1, DepartStep
<1>3. GoneOf(o)'
  BY <1>2 DEF GoneOf
<1> HIDE DEF m
<1>4. NobodyBack(o)
  BY <1>2 DEF NobodyBack
<1> QED
  BY <1>1, <1>2, <1>3, <1>4, GoneKept

(* Every step of an operation keeps it. *)
LEMMA GoneStep ==
  ASSUME AddressInv, OwnerInv, Gone, GroupInv, NEW o \in Ops, OpStep(o)
  PROVE  Gone'
<1>1. Types /\ WellFormed /\ Exclusive
  BY DEF AddressInv
<1>2. ASSUME OnlyOp(o), member' = member, GoneOf(o)' PROVE Gone'
  BY <1>1, <1>2, GoneKept DEF NobodyBack
<1>3. ASSUME GoesOn(o), member' = member PROVE Gone'
  BY <1>2, <1>3 DEF GoesOn, Gone, GoneOf, Offboards
<1>4. ASSUME Ends(o), member' = member PROVE Gone'
  <2>1. OnlyOp(o) /\ op'[o].status \notin Live
    BY <1>4, EndsNotLive DEF Ends
  <2> QED
    BY <1>2, <1>4, <2>1 DEF GoneOf
<1>5. CASE Paces(o) \/ RemoteCall(o)
  <2>1. GoesOn(o) /\ member' = member
    BY <1>1, <1>5, PacesGoesOn, RemoteCallStep DEF Types
  <2> QED
    BY <1>3, <2>1
<1>6. CASE FinishOffboard(o) \/ Cancel(o) \/ PartCommit(o)
  <2>1. (GoesOn(o) \/ Ends(o)) /\ member' = member
    BY <1>1, <1>6, FinishOffboardStep, CancelStep, PartCommitStep DEF localVars
  <2> QED
    BY <1>3, <1>4, <2>1
<1>7. CASE Prepare(o)
  <2>1. OnlyOp(o) /\ op'[o].status = "prepared" /\ member' = member
    BY <1>1, <1>7, PrepareStep DEF localVars
  <2> QED
    BY <1>2, <2>1, LiveFacts DEF GoneOf
<1>8. CASE Submit(o)
  <2>1. OnlyOp(o) /\ op'[o].request.kind \in Routes /\ member' = member
    BY <1>1, <1>8, SubmitStep
  <2> QED
    BY <1>2, <2>1 DEF GoneOf, Offboards, Routes
<1>9. CASE HandOver(o)
  <2>1. /\ OnlyOp(o) /\ op[o].status \in Live /\ op'[o].request = op[o].request /\ Offboards(o) /\ member' = member
    BY <1>1, <1>9, HandOverStep
  <2> QED
    BY <1>2, <2>1 DEF Gone, GoneOf
<1> QED
  BY <1>5, <1>6, <1>7, <1>8, <1>9, ChangeGone, ClosesGone, DepartGone DEF OpStep

(* Every step of the specification keeps it. *)
LEMMA GoneNext ==
  ASSUME AddressInv, OwnerInv, Gone, GroupInv, Next
  PROVE  Gone'
<1>1. CASE \E o \in Ops : OpStep(o)
  BY <1>1, GoneStep
<1>2. ASSUME NEW c \in Connections, Sync(c) \/ Discover(c) PROVE op' = op /\ member' = member
  BY <1>2 DEF Sync, Discover, Reads
<1>3. ASSUME NEW r \in Rules, Import(r) \/ Foreign(r) PROVE op' = op /\ member' = member
  BY <1>3 DEF Import, Foreign, Reads
<1>4. ASSUME NEW b \in Mailboxes, ImportMailbox(b) PROVE op' = op /\ member' = member
  BY <1>4 DEF ImportMailbox, Reads
<1>5. ASSUME NEW b \in Mailboxes, NEW m \in Members, CompleteConnectionSetup(b, m) PROVE op' = op /\ member' = member
  BY <1>5 DEF CompleteConnectionSetup
<1>6. ASSUME op' = op, member' = member PROVE Gone'
  BY <1>6 DEF Gone, GoneOf, Offboards
<1> QED
  BY <1>1, <1>2, <1>3, <1>4, <1>5, <1>6, NextCases

(* So does a step that changes nothing. *)
LEMMA GoneStutter ==
  ASSUME Gone, UNCHANGED vars
  PROVE  Gone'
BY DEF vars, localVars, Gone, GoneOf, Offboards

(* It holds at the beginning. *)
LEMMA GoneInit ==
  ASSUME Init
  PROVE  Gone
<1>1. PICK i \in Initially : op = [o \in Ops |-> IF o \in i.asking THEN Idle ELSE Settled("rejected")]
  BY DEF Init
<1> QED
  BY <1>1, IdleTyped, LiveFacts DEF Gone, GoneOf

(* It holds at the beginning. *)
LEMMA GroupsInit ==
  ASSUME Init
  PROVE  GroupInv
<1>1. PICK i \in Initially :
        /\ member = i.member /\ mailbox = i.mailbox /\ group = i.group /\ rule = i.rule
        /\ op = [o \in Ops |-> IF o \in i.asking THEN Idle ELSE Settled("rejected")]
  BY DEF Init
<1>2. Consistent(i)
  BY InitiallyConsistent
<1>3. \A o \in Ops : op[o].status \notin Live \cup {"prepared"}
  BY <1>1, IdleTyped, LiveFacts
<1>4. \A o \in Ops : PartsFitOf(o) /\ ConcernsOf(o) /\ PreparedOf(o) /\ CoveredOf(o) /\ WithinOf(o)
  BY <1>3 DEF PartsFitOf, ConcernsOf, PreparedOf, CoveredOf, WithinOf
<1>5. NobodyAbsent
  BY <1>1, <1>2 DEF Consistent, NobodyAbsent
<1>6. \A r \in Rules : rule[r].group # 0 =>
        /\ rule[r].exists /\ rule[r].kind = "group" /\ group[rule[r].group].exists
        /\ rule[r].desired = Candidates(group[rule[r].group].team, member, mailbox)
        /\ \A s \in Rules : rule[s].group = rule[r].group => s = r
  BY <1>1, <1>2 DEF Consistent
<1>7. 0 \notin Groups
  BY IdsArePositive
<1>8. AddressesFit
  BY <1>6 DEF AddressesFit
<1>9. Single
  BY <1>6, <1>7 DEF Single, AddressesOf
<1>10. Follow
  BY <1>6, <1>7 DEF Follow, Following, AddressesOf
<1> QED
  BY <1>4, <1>5, <1>8, <1>9, <1>10 DEF GroupInv, PartsFit, Concerns, PreparedWell, Covered, Within

(* What a group that nobody holds distributes to. *)
LEMMA UnheldFollows ==
  ASSUME Types, GroupInv
  PROVE  GroupFollowsTeam
<1> SUFFICES ASSUME NEW g \in Groups \ (missed \cup abandoned), NEW r \in AddressOf(g), ~HeldGroup(g)
             PROVE  rule[r].desired = Candidates(group[g].team, member, mailbox)
  BY DEF GroupFollowsTeam
<1>1. \A p \in Ops : <<"group", g>> \notin Held(p)
  BY DEF HeldGroup
<1>2. g # 0
  BY IdsArePositive
<1>3. Calm(g)
  <2>1. ASSUME NEW p \in Ops, op[p].status \in Live, ~Offboards(p), g \in DOMAIN op[p].plan.parts \ op[p].done PROVE FALSE
    <3>1. PartsFitOf(p)
      BY DEF GroupInv, PartsFit
    <3> QED
      BY <1>1, <1>2, <2>1, <3>1, WorkHeld
  <2> QED
    BY <2>1 DEF Calm, InWork
<1>4. ~Departing(g)
  <2>1. ASSUME NEW p \in Ops, op[p].status \in Live, NEW k \in DOMAIN op[p].plan.parts, op[p].plan.parts[k].group = g PROVE FALSE
    BY <1>1, <1>2, <2>1, KeyOfGroup
  <2> QED
    BY <2>1 DEF Departing
<1>5. r \in AddressesOf(g)
  <2>1. AddressOf(g) \subseteq AddressesOf(g)
    BY AddressChosen DEF Types, GroupInv
  <2> QED
    BY <2>1
<1> QED
  BY <1>3, <1>4, <1>5 DEF GroupInv, Follow, Following

-----------------------------------------------------------------------------
(* Everything together. *)

\* The inductive invariant.
RoutingInv == AddressInv /\ OwnerInv /\ Gone /\ GroupInv

(* It holds at the beginning and is kept by every step. *)
LEMMA RoutingAlways == Spec => []RoutingInv
<1>1. Init => RoutingInv
  BY AddressInit, OwnersInit, GoneInit, GroupsInit DEF RoutingInv
<1>2. RoutingInv /\ [Next]_vars => RoutingInv'
  <2>1. ASSUME RoutingInv, Next PROVE RoutingInv'
    BY <2>1, AddressNext, OwnersNext, GoneNext, GroupsNext DEF RoutingInv
  <2>2. ASSUME RoutingInv, UNCHANGED vars PROVE RoutingInv'
    BY <2>2, AddressStutter, OwnersStutter, GoneStutter, GroupsStutter DEF RoutingInv
  <2> QED
    BY <2>1, <2>2
<1> QED
  BY <1>1, <1>2, PTL DEF Spec

(* A mailbox belongs to somebody who left only while their offboarding is  *)
(* under way and has not handed it over (core/offboarding_operations.go,   *)
(* core/mailbox_mutations.go, core/mailbox_additions.go,                   *)
(* core/member_creation.go, core/setup.go).                                *)
THEOREM LeaversLeaveNothing == Spec => []NoMailboxLeftBehind
<1>1. RoutingInv => NoMailboxLeftBehind
  BY DEF RoutingInv, OwnerInv
<1> QED
  BY <1>1, RoutingAlways, PTL

(* A group that no operation holds, that no stale plan, hand-over or set-up *)
(* missed and whose update was not given up distributes to the active      *)
(* mailboxes of its members when its address is in step                    *)
(* (core/routing_operations.go, core/mailbox_mutations.go,                 *)
(* core/mailbox_additions.go, core/member_status_operations.go,            *)
(* core/member_creation.go, core/offboarding_operations.go, core/setup.go). *)
THEOREM GroupsFollow == Spec => []GroupFollowsTeam
<1>1. RoutingInv => GroupFollowsTeam
  BY UnheldFollows DEF RoutingInv, AddressInv
<1> QED
  BY <1>1, RoutingAlways, PTL
=============================================================================
