--------------------------- MODULE MCCredentials ---------------------------
(* Instances of Credentials for TLC: a mailbox that is to be created or    *)
(* attached, one that uses an app password for IMAP and SMTP, and one that *)
(* logs in to IMAP with its password.                                      *)
EXTENDS Credentials, TLC

CONSTANTS o1, o2

Connection == [enabled |-> TRUE, templates |-> Protocols, revision |-> 1]
With(state, c) == [source |-> IF c = 2 THEN "managed" ELSE "entered", state |-> state, key |-> c, secret |-> TRUE]
Uses(c) == [mode |-> "inherit", cred |-> c, checked |-> 1]

Nothing == [conn |-> Connection, mailbox |-> Unregistered, endpoint |-> [p \in Protocols |-> Off], cred |-> <<>>,
            account |-> [exists |-> FALSE, primary |-> 0, accepted |-> {}], fresh |-> 1,
            asking |-> {o1}, foreign |-> 0, changes |-> 0, trouble |-> 0]
Present == [Nothing EXCEPT !.account = [exists |-> TRUE, primary |-> 1, accepted |-> {1}], !.fresh = 2]
Mixed == [Present EXCEPT
            !.mailbox = [status |-> "active", mode |-> "api", remote |-> "present", revision |-> 1],
            !.cred = <<With("active", 1), With("active", 2)>>, !.account.accepted = {1, 2}, !.fresh = 3,
            !.endpoint = [p \in Protocols |-> IF p = IMAP THEN Uses(1) ELSE Uses(2)]]
Rotated == [Mixed EXCEPT !.endpoint = [p \in Protocols |-> Uses(1)], !.cred = <<With("active", 2)>>]
Twice == [Rotated EXCEPT !.asking = Ops, !.trouble = 1]
Mailboxes == {Nothing, Present, Mixed, Rotated, Twice}

=============================================================================
