------------------------------ MODULE Reservations ------------------------------
(***************************************************************************)
(* What the operation engine promises to the rest of the program: an       *)
(* operation that is open holds its resources alone, providers are called  *)
(* only on behalf of open operations, and a closed operation stays closed. *)
(***************************************************************************)
EXTENDS Naturals

CONSTANTS Tasks, Resources, Needs   \* Needs \in [Tasks -> SUBSET Resources]

VARIABLES
    phase,      \* "idle": holds nothing, may be taken up; "open"; "closed": final
    held,       \* the resources each task holds
    calls       \* calls made to providers on behalf of each task

vars == <<phase, held, calls>>

Phases == {"idle", "open", "closed"}

Init ==
    /\ phase = [t \in Tasks |-> "idle"]
    /\ held = [t \in Tasks |-> {}]
    /\ calls = [t \in Tasks |-> 0]

Free(R, t) == \A u \in Tasks \ {t} : held[u] \cap R = {}

\* A task opens with everything it needs, and possibly what it made in an earlier attempt.
Open(t) ==
    /\ phase[t] = "idle"
    /\ \E R \in SUBSET Resources :
        /\ Needs[t] \subseteq R
        /\ Free(R, t)
        /\ held' = [held EXCEPT ![t] = R]
    /\ phase' = [phase EXCEPT ![t] = "open"]
    /\ UNCHANGED calls

\* An open task adds a resource to those it holds.
Extend(t) ==
    /\ phase[t] = "open"
    /\ \E r \in Resources :
        /\ Free({r}, t)
        /\ held' = [held EXCEPT ![t] = @ \cup {r}]
    /\ UNCHANGED <<phase, calls>>

Call(t) ==
    /\ phase[t] = "open"
    /\ calls' = [calls EXCEPT ![t] = @ + 1]
    /\ UNCHANGED <<phase, held>>

\* The task gives everything back, for now or for good.
Release(t) ==
    /\ phase[t] = "open"
    /\ phase' \in {[phase EXCEPT ![t] = p] : p \in {"idle", "closed"}}
    /\ held' = [held EXCEPT ![t] = {}]
    /\ UNCHANGED calls

\* A task that is not open is given up.
Abandon(t) ==
    /\ phase[t] = "idle"
    /\ phase' = [phase EXCEPT ![t] = "closed"]
    /\ UNCHANGED <<held, calls>>

Next == \E t \in Tasks : Open(t) \/ Extend(t) \/ Call(t) \/ Release(t) \/ Abandon(t)

Spec == Init /\ [][Next]_vars
================================================================================
