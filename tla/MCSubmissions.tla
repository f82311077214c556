----------------------------- MODULE MCSubmissions -----------------------------
(* Small instances of Submissions. *)
EXTENDS Submissions, TLC

CONSTANTS a1, a2, a3, b1, b2, m1, m2, s1, s2

\* Two calls of one browser that repeat the same request, one mailbox, and a colleague; the
\* provider files the Sent copy.
RaceAttempts == {a1, a2}
RaceMailboxOf == [a \in RaceAttempts |-> b1]
RaceSessionOf == [a \in RaceAttempts |-> s1]
RaceRequestOf == [a \in RaceAttempts |-> 1]
RaceDigestOf == [a \in RaceAttempts |-> 1]
RaceModeOf == [b \in {b1} |-> "server"]
RaceMemberOf == (s1 :> m1) @@ (s2 :> m2)
RaceLevel == [b \in {b1} |-> (m1 :> "send") @@ (m2 :> "full")]
RaceSymmetry == Permutations(RaceAttempts)

\* One message followed through several interruptions, retries and slow appends.
OneAttempt == {a1}
OneMailboxOf == [a \in OneAttempt |-> b1]
OneSessionOf == [a \in OneAttempt |-> s1]
OneRequestOf == [a \in OneAttempt |-> 1]
OneModeOf == [b \in {b1} |-> "append"]
OneDigestOf == [a \in OneAttempt |-> 1]

\* Two different requests waiting for one mailbox.
PairAttempts == {a1, a2}
PairRequestOf == (a1 :> 1) @@ (a2 :> 2)

QueueModeOf == (b1 :> "append") @@ (b2 :> "server")
QueueMemberOf == (s1 :> m1)
QueueLevel == [b \in {b1, b2} |-> (m1 :> "full")]
================================================================================
