--------------------------------- MODULE Outbox ---------------------------------
(***************************************************************************)
(* What the submission pipeline promises about delivery, whatever happens  *)
(* to the process: a request opens at most one message, a message is       *)
(* handed to the SMTP server at most once, and the answer that is reported *)
(* never contradicts what the server did.  Once settled, a message stays   *)
(* settled.                                                                *)
(***************************************************************************)
EXTENDS Naturals

CONSTANTS
    Messages,
    Key         \* [Messages -> request identity]

VARIABLES
    phase,      \* how far the delivery of each message has come, as it is reported
    taken       \* how often the SMTP server took responsibility for it

vars == <<phase, taken>>

Phases == {"absent", "open", "handing", "accepted", "refused", "doubtful"}

Init ==
    /\ phase = [m \in Messages |-> "absent"]
    /\ taken = [m \in Messages |-> 0]

\* A message is accepted for sending; a second message for the same request is not.
Open(m) ==
    /\ \A n \in Messages : Key[n] = Key[m] => phase[n] = "absent"
    /\ phase' = [phase EXCEPT ![m] = "open"]
    /\ UNCHANGED taken

\* The intention to hand the message over is recorded before the hand-over.
Hand(m) ==
    /\ phase[m] = "open"
    /\ phase' = [phase EXCEPT ![m] = "handing"]
    /\ UNCHANGED taken

\* The SMTP server takes the message.
Take(m) ==
    /\ phase[m] = "handing"
    /\ taken[m] = 0
    /\ taken' = [taken EXCEPT ![m] = 1]
    /\ UNCHANGED phase

\* The result is reported: truthfully, or as doubtful.
Report(m) ==
    /\ phase[m] = "handing"
    /\ \/ taken[m] = 1 /\ phase' = [phase EXCEPT ![m] = "accepted"]
       \/ taken[m] = 0 /\ phase' = [phase EXCEPT ![m] = "refused"]
       \/ phase' = [phase EXCEPT ![m] = "doubtful"]
    /\ UNCHANGED taken

\* The process was interrupted: everything being handed over becomes doubtful.
Interrupt ==
    /\ phase' = [m \in Messages |-> IF phase[m] = "handing" THEN "doubtful" ELSE phase[m]]
    /\ UNCHANGED taken

Next == \/ \E m \in Messages : Open(m) \/ Hand(m) \/ Take(m) \/ Report(m)
        \/ Interrupt

Spec == Init /\ [][Next]_vars
================================================================================
