------------------------------ MODULE MCImapPool ------------------------------
(***************************************************************************)
(* Small instances of ImapPool: mailboxes of one provider connection.      *)
(***************************************************************************)
EXTENDS ImapPool, TLC

CONSTANTS c1, c2, c3, b1, b2, link, box1, box2, cred1, cred2, inbox, inv, close

PoolPlaces == cred1 :> {link, box1} @@ cred2 :> {link, box2}
PoolTargets == inv :> box1

\* Two of the callers want the second mailbox, everybody else the first; one slot of the
\* connection is kept from watchers.
ClientCreds == [x \in Clients |-> IF x \in {c1, c2} THEN cred2 ELSE cred1]
ClientFolders == [b \in Subscribers |-> inbox]
ClientMax == link :> 2 @@ box1 :> 2 @@ box2 :> 1
ClientReserve == link :> 1 @@ box1 :> 0 @@ box2 :> 0

\* Three callers, two subscribers of one folder, or one of each.
ClientParties == {{c1, c2, c3}, {b1, b2}, {c3, b1}}
================================================================================
