----------------------------- MODULE MCOperations -----------------------------
(***************************************************************************)
(* Small instances of Operations.                                          *)
(***************************************************************************)
EXTENDS Operations, TLC

CONSTANTS create, sync, depart, again, configure, r1, r2, mb, q1, q2, q3, w1, w2, c1, c2

KindsAre(s) == [k \in Positions |-> IF k <= Len(s) THEN s[k] ELSE "none"]

\* Competition for resources: a creation that commits a mailbox in between, a local
\* operation on the same connection, and an operation on the mailbox once it exists.
LockRequests == create :> q1 @@ sync :> q2 @@ depart :> q3
LockKeys == create :> {r1} @@ sync :> {r1, r2} @@ depart :> {r2, mb}
LockKinds == create :> KindsAre(<<"commit">>) @@ sync :> KindsAre(<<>>)
             @@ depart :> KindsAre(<<"external", "credential">>)
LockMailboxes == create :> mb @@ sync :> mb @@ depart :> mb
LockPrepared == {depart}

\* One request sent three times: twice with two provider calls, the second of which creates a
\* credential, and once with other contents, a change of a domain, whose call reads back what
\* it wrote.
StepRequests == [o \in Ops |-> q1]
StepKeys == [o \in Ops |-> {r1}]
StepKinds == [o \in Ops |-> KindsAre(IF o = configure THEN <<"readback">>
                                                     ELSE <<"remote", "credential">>)]
StepMailboxes == [o \in Ops |-> mb]

WorkerSymmetry == Permutations(Workers)
ControllerSymmetry == Permutations(Controllers)
Symmetry == WorkerSymmetry \cup ControllerSymmetry
================================================================================
