----------------------------- MODULE MCRouting -----------------------------
(* Instances of Routing for TLC: two members with a mailbox each, a group  *)
(* with an address, a second group whose address is kept by hand or has    *)
(* none, and a spare address.                                              *)
EXTENDS Routing, TLC

CONSTANTS m1, m2, m3, b1, b2, b3, b4, c1, o1, o2, o3, o4

MCMembers == {m1, m2, m3}
MCMailboxes == {b1, b2, b3, b4}
OneConnection == [x \in MCMailboxes \cup Rules |-> c1]

Member(s) == [status |-> s, rev |-> IF s = "absent" THEN 0 ELSE 1]
Box(s, m) == [status |-> s, kind |-> "personal", owner |-> m, rev |-> IF s = "absent" THEN 0 ELSE 1]
Team(T) == [exists |-> TRUE, rev |-> 1, team |-> T]
Spare == [exists |-> FALSE, kind |-> "alias", group |-> 0, box |-> None, rev |-> 0, desired |-> {},
          targets |-> {}, observed |-> {}, state |-> "pending", rows |-> {}]
AddressTo(g, B) == [Spare EXCEPT !.exists = TRUE, !.kind = "group", !.group = g, !.rev = 1, !.desired = B,
                                 !.targets = B, !.observed = B, !.state = "synced", !.rows = {"current"}]

(* Two members with a mailbox each, the first one with a suspended mailbox *)
(* as well, and a group with an address for each.                          *)
Small ==
  [member |-> (m1 :> Member("active")) @@ (m2 :> Member("active")) @@ (m3 :> Member("absent")),
   mailbox |-> (b1 :> Box("active", m1)) @@ (b2 :> Box("active", m2)) @@ (b3 :> Box("absent", None))
               @@ (b4 :> Box("suspended", m1)),
   group |-> [g \in Groups |-> CASE g = 1 -> Team({m1}) [] g = 2 -> Team({m2})
                                [] OTHER -> [Team({}) EXCEPT !.exists = FALSE]],
   rule |-> [r \in Rules |-> CASE r = 1 -> AddressTo(1, {b1}) [] r = 4 -> AddressTo(2, {b2}) [] OTHER -> Spare],
   remote |-> [r \in Rules |-> CASE r = 1 -> {b1} [] r = 4 -> {b2} [] OTHER -> {}],
   asking |-> {o1}, foreign |-> 0, reads |-> 0]

On(kind, b) == [Ask(kind) EXCEPT !.box = b]
Status(kind, m) == [Ask(kind) EXCEPT !.member = m]
Change(b, m, k) == [On("mailbox.update", b) EXCEPT !.owner = m, !.as = k]
Join(m, b, as, G) == [Ask("member.create") EXCEPT !.member = m, !.box = b, !.as = as, !.groups = G]
Update(g, T, address, r) == [Ask("group.update") EXCEPT !.group = g, !.team = T, !.address = address, !.rule = r]
Leave(m, as, heir) == [Ask("member.offboard") EXCEPT !.member = m, !.as = as, !.owner = heir, !.leave = TRUE]
Alias(kind, r, b) == [Ask(kind) EXCEPT !.rule = r, !.box = b]

(* Three requests meet; a third member is in no group.                     *)
Race == [Small EXCEPT !.member[m3] = Member("active"), !.asking = {o1, o2, o3},
                      !.foreign = MaxForeign, !.reads = MaxReads - 1]

(* Every kind of request, beside others who read and change the provider;  *)
(* in Watched few requests, and what was discovered is imported as well:   *)
(* the second member is disabled, the rule of group 2 is kept by hand,     *)
(* address 3 is an alias of the first mailbox.                             *)
Wide == [Small EXCEPT !.member[m2] = Member("disabled"), !.asking = {o4}, !.reads = MaxReads - 1,
                      !.remote = [@ EXCEPT ![3] = {b1}, ![4] = {}],
                      !.rule = [@ EXCEPT ![2] = [AddressTo(2, {}) EXCEPT !.state = "unknown", !.rows = {}],
                                         ![3] = [AddressTo(0, {b1}) EXCEPT !.kind = "alias", !.box = b1],
                                         ![4] = Spare]]

Watched == [Wide EXCEPT !.asking = {o1}, !.reads = 0]

Organisations == {Race, Wide, Watched}
Requests ==
  (o1 :> {Change(b1, m2, "personal"), Change(b1, m3, "personal"), Status("member.disable", m1)})
  @@ (o2 :> {Update(1, {m1, m2}, "keep", 0), Update(1, {m2}, "set", 3)})
  @@ (o3 :> {Leave(m1, "handover", m2), Leave(m3, "suspend", None)})
  @@ (o4 :> {Status("member.enable", m2), Change(b1, None, "shared"), On("mailbox.archive", b1), On("mailbox.reactivate", b4),
             On("mailbox.deleteRemote", b2), [On("mailbox.add", b3) EXCEPT !.owner = m1],
             Join(m3, b3, "create", {1, 2}), Join(m3, None, "none", {1}), Leave(m1, "shared", None),
             Update(1, {m1, m2}, "set", 4), [Ask("group.delete") EXCEPT !.group = 1],
             [Update(3, {m1}, "set", 4) EXCEPT !.kind = "group.create"],
             Alias("address.create", 4, b1), Alias("address.update", 3, b2), Alias("address.delete", 3, None)})

(* Somebody hands over a mailbox that is suspended.                        *)
SmallOnly == {Small}
HandOverRequests == (o1 :> {Leave(m1, "handover", m2)})

=============================================================================
