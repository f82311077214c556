-------------------------- MODULE CredentialsProofs -------------------------
(***************************************************************************)
(* The last part of the proofs about Credentials: one row knows each app   *)
(* password, whatever the provider still accepts is known to a row or to   *)
(* an operation, a revoked credential is refused, passwords are known,     *)
(* and the endpoints in use go on. The theorems are at the end.            *)
(***************************************************************************)
EXTENDS CredentialsRows

(* No two rows are about one app password. *)
LEMMA DistinctStep ==
  ASSUME NoneIsNoOp, IMAPIsProtocol, LimitsAreNat, LocalTypes, OpTypes, RemoteTypes, Control, References, Secrets, Creations, Next
  PROVE  Distinct'
<1> USE NoneIsNoOp, IMAPIsProtocol, LimitsAreNat DEF vars, localVars, opVars, bounds, history, remoteVars
<1> SUFFICES ASSUME NEW c \in Rows', NEW d \in Rows', cred'[c].source = "managed" /\ cred'[d].source = "managed" /\ cred'[c].key = cred'[d].key PROVE c = d
  BY DEF Distinct, Rows
<1>1. ASSUME KeysSame PROVE c = d
  BY <1>1 DEF Secrets, Distinct, KeysSame, RowsKeep
<1>2. ASSUME NEW o \in Ops, NEW kd \in Kinds, Queue(o, kd) PROVE c = d
  <2>1. QueueKeys BY <1>2, QueueKeysHold
  <2> QED BY <2>1 DEF Secrets, Distinct, Rows, QueueKeys
<1>3. ASSUME Provider PROVE c = d
  BY <1>3, ProviderDoes DEF Secrets, Distinct, Rows
<1>4. ASSUME Keep PROVE c = d
  <2>1. KeepKeys BY <1>4, KeepKeysHold
  <2>2. \A r \in Rows : cred[r].key # run.secret
    BY <2>1 DEF KeepKeys, NoRow
  <2> QED BY <2>1, <2>2 DEF Secrets, Distinct, KeepKeys
<1>5. ASSUME Reserve \/ Password PROVE c = d
  <2>1. PasswordKeys BY <1>5, PasswordKeysHold
  <2> QED BY <2>1 DEF Secrets, Distinct, Rows, PasswordKeys
<1>6. ASSUME Land PROVE c = d
  BY <1>6, LandDoes DEF Secrets, Distinct, Rows
<1>7. ASSUME Foreign PROVE c = d
  BY <1>7, ForeignDoes DEF Secrets, Distinct, Rows
<1>8. ASSUME EntersRow PROVE c = d
  <2>1. EnteredKeys BY <1>8, EnteredKeysHold
  <2>2. c \in Rows /\ d \in Rows
    BY <2>1 DEF EnteredKeys
  <2> QED BY <2>1, <2>2 DEF Secrets, Distinct, EnteredKeys
<1>9. ASSUME Unregister PROVE c = d
  BY <1>9, UnregisterDoes DEF Rows
<1> QED BY <1>1, <1>2, <1>3, <1>4, <1>5, <1>6, <1>7, <1>8, <1>9, KeysKept DEF KeysMove

(* What is about to be revoked is not in use. *)
LEMMA LateRevocationsStep ==
  ASSUME NoneIsNoOp, IMAPIsProtocol, LimitsAreNat, LocalTypes, OpTypes, RemoteTypes, Control, References, Secrets, Creations, Next
  PROVE  LateRevocations'
<1> USE NoneIsNoOp, IMAPIsProtocol, LimitsAreNat DEF vars, localVars, opVars, bounds, history, remoteVars
<1> SUFFICES ASSUME NEW call \in late', call.name = "credential.revoke", NEW c \in Rows', cred'[c].key = call.key PROVE cred'[c].state \notin {"active", "candidate"}
  BY DEF LateRevocations, Rows
<1>1. ASSUME KeysSame PROVE cred'[c].state \notin {"active", "candidate"}
  BY <1>1 DEF Secrets, LateRevocations, KeysSame, RowsKeep
<1>2. ASSUME NEW o \in Ops, NEW kd \in Kinds, Queue(o, kd) PROVE cred'[c].state \notin {"active", "candidate"}
  <2>1. QueueKeys BY <1>2, QueueKeysHold
  <2> QED BY <2>1 DEF Secrets, LateRevocations, Rows, QueueKeys
<1>3. ASSUME Provider PROVE cred'[c].state \notin {"active", "candidate"}
  <2>1. run.op # None /\ run.pc \in Calls /\ (late' = late \/ late' = late \cup {Call}) /\ UNCHANGED cred
    BY <1>3, ProviderDoes
  <2>2. CASE call \in late
    BY <2>1, <2>2 DEF Secrets, LateRevocations, Rows
  <2>3. CASE call = Call
    BY <2>1, <2>3, CallKey DEF Rows
  <2> QED BY <2>1, <2>2, <2>3
<1>4. ASSUME Keep PROVE cred'[c].state \notin {"active", "candidate"}
  <2>1. KeepKeys BY <1>4, KeepKeysHold
  <2>2. call.key # run.secret
    BY <2>1 DEF KeepKeys, InLate
  <2> QED BY <2>1, <2>2 DEF Secrets, LateRevocations, KeepKeys
<1>5. ASSUME Reserve \/ Password PROVE cred'[c].state \notin {"active", "candidate"}
  <2>1. PasswordKeys BY <1>5, PasswordKeysHold
  <2> QED BY <2>1 DEF Secrets, LateRevocations, Rows, PasswordKeys
<1>6. ASSUME Land PROVE cred'[c].state \notin {"active", "candidate"}
  BY <1>6, LandDoes DEF Secrets, LateRevocations, Rows
<1>7. ASSUME Foreign PROVE cred'[c].state \notin {"active", "candidate"}
  BY <1>7, ForeignDoes DEF Secrets, LateRevocations, Rows
<1>8. ASSUME EntersRow PROVE cred'[c].state \notin {"active", "candidate"}
  <2>1. EnteredKeys BY <1>8, EnteredKeysHold
  <2>2. call \in late
    BY <2>1 DEF EnteredKeys
  <2>3. call.key \in Keys /\ AppPassword(call.key)
    BY <2>2, LateKey DEF Calls
  <2>4. op[run.op].request.secret # call.key
    BY <2>1, <2>3 DEF EnteredKeys, Secrets, Apart, ApartOps
  <2> QED BY <2>1, <2>2, <2>4 DEF Secrets, LateRevocations, EnteredKeys
<1>9. ASSUME Unregister PROVE cred'[c].state \notin {"active", "candidate"}
  BY <1>9, UnregisterDoes DEF Rows
<1> QED BY <1>1, <1>2, <1>3, <1>4, <1>5, <1>6, <1>7, <1>8, <1>9, KeysKept DEF KeysMove

(* Together. *)
LEMMA SecretsStep ==
  ASSUME NoneIsNoOp, IMAPIsProtocol, LimitsAreNat, LocalTypes, OpTypes, RemoteTypes, Control, References, Secrets, Creations, Next
  PROVE  Secrets'
<1>1. Below'
  BY AcceptedBelowStep, RowsBelowStep, PrivateBelowStep, LateBelowStep, MadeBelowStep DEF Below
<1>2. Apart'
  BY ApartPrimaryStep, ApartOpsStep, ApartLateStep, ApartRowsStep DEF Apart
<1> QED BY <1>1, <1>2, BalanceStep, DistinctStep, LateRevocationsStep DEF Secrets

-----------------------------------------------------------------------------
(* What becomes of an app password that an operation had created. *)

\* The creation is at rest: nothing about it changes, or its operation goes on with something else.
AtRest(o) == /\ op'[o] = op[o] /\ step'[o][Creation] = step[o][Creation]
             /\ run' = run \/ (run.op # o /\ run'.op # o)
Elsewhere(o) == /\ run.op = o /\ run.pc \notin Calls \cup {"failing"} /\ run.op # None
                /\ op'[o].cand = op[o].cand /\ step'[o][Creation] = step[o][Creation] /\ run'.answer = "none"
\* What its operation does about it, and what is done about its operation.
Proceeds(o) == run.op = o /\ (Begin \/ Provider \/ Refused \/ Keep \/ Record \/ GiveUp \/ Interrupt)
Handled(o) == \/ \E k \in Kinds : Queue(o, k)
              \/ Execute(o) \/ ConfirmExternal(o) \/ ReconcileStep(o) \/ Reconcile(o) \/ Retry(o) \/ Cancel(o)
              \/ Report(o) \/ ClaimSecret(o) \/ Expire(o)

(* No other step concerns it. *)
LEMMA CreationMoves ==
  ASSUME NoneIsNoOp, IMAPIsProtocol, LimitsAreNat, LocalTypes, OpTypes, RemoteTypes, Control, References, Next, NEW o \in Ops
  PROVE  AtRest(o) \/ Elsewhere(o) \/ Proceeds(o) \/ Handled(o)
<1> USE NoneIsNoOp, IMAPIsProtocol, LimitsAreNat DEF vars, localVars, opVars, bounds, history, remoteVars
<1>0. Creation \in Steps /\ None \notin Ops
  BY DEF Creation, Steps
<1>1. ASSUME NEW p \in Ops, NEW k \in Kinds, Queue(p, k) PROVE AtRest(o) \/ Elsewhere(o) \/ Proceeds(o) \/ Handled(o)
  <2>1. CASE p = o
    BY <1>1, <2>1 DEF Handled
  <2>2. CASE p # o
    <3>1. op'[o] = op[o] /\ UNCHANGED <<step, run>>
      BY <1>1, <2>2, QueueDoes DEF Became
    <3> QED BY <3>1 DEF AtRest
  <2> QED BY <2>1, <2>2
<1>2. ASSUME NEW p \in Ops, Execute(p) PROVE AtRest(o) \/ Elsewhere(o) \/ Proceeds(o) \/ Handled(o)
  <2>1. CASE p = o
    BY <1>2, <2>1 DEF Handled
  <2>2. CASE p # o
    BY <1>0, <1>2, <2>2, ExecuteDoes DEF AtRest, Turned, Ended, Dropped, Became, Idle
  <2> QED BY <2>1, <2>2
<1>3. ASSUME NEW p \in Ops, ConfirmExternal(p) PROVE AtRest(o) \/ Elsewhere(o) \/ Proceeds(o) \/ Handled(o)
  <2>1. CASE p = o
    BY <1>3, <2>1 DEF Handled
  <2>2. CASE p # o
    BY <1>0, <1>3, <2>2, ConfirmExternalDoes DEF AtRest, Turned, Ended, Dropped, Became
  <2> QED BY <2>1, <2>2
<1>4. ASSUME NEW p \in Ops, ReconcileStep(p) PROVE AtRest(o) \/ Elsewhere(o) \/ Proceeds(o) \/ Handled(o)
  <2>1. CASE p = o
    BY <1>4, <2>1 DEF Handled
  <2>2. CASE p # o
    BY <1>0, <1>4, <2>2, ReconcileStepDoes DEF AtRest, Marked
  <2> QED BY <2>1, <2>2
<1>5. ASSUME NEW p \in Ops, Reconcile(p) PROVE AtRest(o) \/ Elsewhere(o) \/ Proceeds(o) \/ Handled(o)
  <2>1. CASE p = o
    BY <1>5, <2>1 DEF Handled
  <2>2. CASE p # o
    BY <1>0, <1>5, <2>2, ReconcileDoes DEF AtRest, Turned, Ended, Dropped, Became
  <2> QED BY <2>1, <2>2
<1>6. ASSUME NEW p \in Ops, Retry(p) PROVE AtRest(o) \/ Elsewhere(o) \/ Proceeds(o) \/ Handled(o)
  <2>1. CASE p = o
    BY <1>6, <2>1 DEF Handled
  <2>2. CASE p # o
    BY <1>0, <1>6, <2>2, RetryDoes DEF AtRest, Turned, Ended, Dropped, Became, Marked
  <2> QED BY <2>1, <2>2
<1>7. ASSUME NEW p \in Ops, Cancel(p) PROVE AtRest(o) \/ Elsewhere(o) \/ Proceeds(o) \/ Handled(o)
  <2>1. CASE p = o
    BY <1>7, <2>1 DEF Handled
  <2>2. CASE p # o
    BY <1>0, <1>7, <2>2, CancelDoes DEF AtRest, Turned, Ended, Dropped, Became
  <2> QED BY <2>1, <2>2
<1>8. ASSUME NEW p \in Ops, Report(p) PROVE AtRest(o) \/ Elsewhere(o) \/ Proceeds(o) \/ Handled(o)
  <2>1. CASE p = o
    BY <1>8, <2>1 DEF Handled
  <2>2. CASE p # o
    BY <1>0, <1>8, <2>2, ReportDoes DEF AtRest, Turned, Ended, Dropped, Became, Marked
  <2> QED BY <2>1, <2>2
<1>9. ASSUME NEW p \in Ops, ClaimSecret(p) PROVE AtRest(o) \/ Elsewhere(o) \/ Proceeds(o) \/ Handled(o)
  <2>1. CASE p = o
    BY <1>9, <2>1 DEF Handled
  <2>2. CASE p # o
    BY <1>0, <1>9, <2>2, ClaimSecretDoes DEF AtRest, Turned, Ended, Dropped, Became
  <2> QED BY <2>1, <2>2
<1>10. ASSUME NEW p \in Ops, Expire(p) PROVE AtRest(o) \/ Elsewhere(o) \/ Proceeds(o) \/ Handled(o)
  <2>1. CASE p = o
    BY <1>10, <2>1 DEF Handled
  <2>2. CASE p # o
    BY <1>0, <1>10, <2>2, ExpireDoes DEF AtRest, Turned, Ended, Dropped, Became
  <2> QED BY <2>1, <2>2
<1>11. ASSUME Failure PROVE AtRest(o) \/ Elsewhere(o) \/ Proceeds(o) \/ Handled(o)
  <2>1. CASE run.op = o
    BY <1>0, <1>11, <2>1, FailureDoes DEF Elsewhere, Calls, Creation, Control, Answers, Turned, Became, Concluded, Stops, Idle
  <2>2. CASE run.op # o
    BY <1>0, <1>11, <2>2, FailureDoes DEF AtRest, Turned, Became, Concluded, Stops, Idle
  <2> QED BY <2>1, <2>2
<1>12. ASSUME Start PROVE AtRest(o) \/ Elsewhere(o) \/ Proceeds(o) \/ Handled(o)
  <2>1. CASE run.op = o
    BY <1>0, <1>12, <2>1, StartDoes DEF Elsewhere, Calls, Creation, Control, Answers, Moved, Stops, Idle
  <2>2. CASE run.op # o
    BY <1>0, <1>12, <2>2, StartDoes DEF AtRest, Moved, Stops, Idle
  <2> QED BY <2>1, <2>2
<1>13. ASSUME Complete PROVE AtRest(o) \/ Elsewhere(o) \/ Proceeds(o) \/ Handled(o)
  <2>1. CASE run.op = o
    BY <1>0, <1>13, <2>1, CompleteDoes DEF Elsewhere, Calls, Creation, Control, Answers, Turned, Ended, Became, Concluded,
       Moved, Stops, Idle
  <2>2. CASE run.op # o
    BY <1>0, <1>13, <2>2, CompleteDoes DEF AtRest, Turned, Ended, Became, Concluded, Moved, Stops, Idle
  <2> QED BY <2>1, <2>2
<1>14. ASSUME Begin PROVE AtRest(o) \/ Elsewhere(o) \/ Proceeds(o) \/ Handled(o)
  <2>1. CASE run.op = o
    BY <1>14, <2>1 DEF Proceeds
  <2>2. CASE run.op # o
    BY <1>0, <1>14, <2>2, BeginDoes DEF AtRest, Turned, Ended, Became, Concluded, Marked, Moved, Stops, Idle
  <2> QED BY <2>1, <2>2
<1>15. ASSUME Provider PROVE AtRest(o) \/ Elsewhere(o) \/ Proceeds(o) \/ Handled(o)
  <2>1. CASE run.op = o
    BY <1>15, <2>1 DEF Proceeds
  <2>2. CASE run.op # o
    BY <1>0, <1>15, <2>2, ProviderDoes DEF AtRest, Moved, Stops, Idle
  <2> QED BY <2>1, <2>2
<1>16. ASSUME Refused PROVE AtRest(o) \/ Elsewhere(o) \/ Proceeds(o) \/ Handled(o)
  <2>1. CASE run.op = o
    BY <1>16, <2>1 DEF Proceeds
  <2>2. CASE run.op # o
    BY <1>0, <1>16, <2>2, RefusedDoes DEF AtRest, Moved, Stops, Idle
  <2> QED BY <2>1, <2>2
<1>17. ASSUME Keep PROVE AtRest(o) \/ Elsewhere(o) \/ Proceeds(o) \/ Handled(o)
  <2>1. CASE run.op = o
    BY <1>17, <2>1 DEF Proceeds
  <2>2. CASE run.op # o
    BY <1>0, <1>17, <2>2, KeepDoes DEF AtRest, Turned, Ended, Became, Concluded, Moved, Stops, Idle
  <2> QED BY <2>1, <2>2
<1>18. ASSUME Record PROVE AtRest(o) \/ Elsewhere(o) \/ Proceeds(o) \/ Handled(o)
  <2>1. CASE run.op = o
    BY <1>18, <2>1 DEF Proceeds
  <2>2. CASE run.op # o
    BY <1>0, <1>18, <2>2, RecordDoes DEF AtRest, Marked, Moved, Stops, Idle
  <2> QED BY <2>1, <2>2
<1>19. ASSUME GiveUp PROVE AtRest(o) \/ Elsewhere(o) \/ Proceeds(o) \/ Handled(o)
  <2>1. CASE run.op = o
    BY <1>19, <2>1 DEF Proceeds
  <2>2. CASE run.op # o
    BY <1>0, <1>19, <2>2, GiveUpDoes DEF AtRest, Turned, Ended, Became, Concluded, Moved, Stops, Idle
  <2> QED BY <2>1, <2>2
<1>20. ASSUME Reserve PROVE AtRest(o) \/ Elsewhere(o) \/ Proceeds(o) \/ Handled(o)
  <2>1. CASE run.op = o
    BY <1>0, <1>20, <2>1, ReserveDoes DEF Elsewhere, Calls, Creation, Control, Answers, Turned, Ended, Became, Concluded,
       Marked, Moved, Stops, Idle, Reservation
  <2>2. CASE run.op # o
    BY <1>0, <1>20, <2>2, ReserveDoes DEF AtRest, Turned, Ended, Became, Concluded, Marked, Moved, Stops, Idle, Reservation
  <2> QED BY <2>1, <2>2
<1>21. ASSUME Confirm PROVE AtRest(o) \/ Elsewhere(o) \/ Proceeds(o) \/ Handled(o)
  <2>1. CASE run.op = o
    BY <1>0, <1>21, <2>1, ConfirmDoes DEF Elsewhere, Calls, Creation, Control, Answers, Moved, Stops, Idle
  <2>2. CASE run.op # o
    BY <1>0, <1>21, <2>2, ConfirmDoes DEF AtRest, Moved, Stops, Idle
  <2> QED BY <2>1, <2>2
<1>22. ASSUME Candidate PROVE AtRest(o) \/ Elsewhere(o) \/ Proceeds(o) \/ Handled(o)
  <2>1. CASE run.op = o
    BY <1>0, <1>22, <2>1, CandidateDoes DEF Elsewhere, Calls, Creation, Control, Answers, Moved, Stops, Idle
  <2>2. CASE run.op # o
    BY <1>0, <1>22, <2>2, CandidateDoes DEF AtRest, Moved, Stops, Idle
  <2> QED BY <2>1, <2>2
<1>23. ASSUME Verify PROVE AtRest(o) \/ Elsewhere(o) \/ Proceeds(o) \/ Handled(o)
  <2>1. CASE run.op = o
    BY <1>0, <1>23, <2>1, VerifyDoes DEF Elsewhere, Calls, Creation, Control, Answers, Moved, Stops, Idle
  <2>2. CASE run.op # o
    BY <1>0, <1>23, <2>2, VerifyDoes DEF AtRest, Moved, Stops, Idle
  <2> QED BY <2>1, <2>2
<1>24. ASSUME Activate PROVE AtRest(o) \/ Elsewhere(o) \/ Proceeds(o) \/ Handled(o)
  <2>1. CASE run.op = o
    BY <1>0, <1>24, <2>1, ActivateDoes DEF Elsewhere, Calls, Creation, Control, Answers, Turned, Ended, Became, Concluded,
       Moved, Stops, Idle
  <2>2. CASE run.op # o
    BY <1>0, <1>24, <2>2, ActivateDoes DEF AtRest, Turned, Ended, Became, Concluded, Moved, Stops, Idle
  <2> QED BY <2>1, <2>2
<1>25. ASSUME Revoke PROVE AtRest(o) \/ Elsewhere(o) \/ Proceeds(o) \/ Handled(o)
  <2>1. CASE run.op = o
    BY <1>0, <1>25, <2>1, RevokeDoes DEF Elsewhere, Calls, Creation, Control, Answers, Moved, Stops, Idle
  <2>2. CASE run.op # o
    BY <1>0, <1>25, <2>2, RevokeDoes DEF AtRest, Moved, Stops, Idle
  <2> QED BY <2>1, <2>2
<1>26. ASSUME Revoked PROVE AtRest(o) \/ Elsewhere(o) \/ Proceeds(o) \/ Handled(o)
  <2>1. CASE run.op = o
    BY <1>0, <1>26, <2>1, RevokedDoes DEF Elsewhere, Calls, Creation, Control, Answers, Moved, Stops, Idle
  <2>2. CASE run.op # o
    BY <1>0, <1>26, <2>2, RevokedDoes DEF AtRest, Moved, Stops, Idle
  <2> QED BY <2>1, <2>2
<1>27. ASSUME Password PROVE AtRest(o) \/ Elsewhere(o) \/ Proceeds(o) \/ Handled(o)
  <2>1. CASE run.op = o
    BY <1>0, <1>27, <2>1, PasswordDoes DEF Elsewhere, Calls, Creation, Control, Answers, Turned, Ended, Became, Concluded,
       Moved, Stops, Idle
  <2>2. CASE run.op # o
    BY <1>0, <1>27, <2>2, PasswordDoes DEF AtRest, Turned, Ended, Became, Concluded, Moved, Stops, Idle
  <2> QED BY <2>1, <2>2
<1>28. ASSUME Claim PROVE AtRest(o) \/ Elsewhere(o) \/ Proceeds(o) \/ Handled(o)
  <2>1. CASE run.op = o
    BY <1>0, <1>28, <2>1, ClaimDoes DEF Elsewhere, Calls, Creation, Control, Answers, Turned, Ended, Became, Concluded, Moved,
       Stops, Idle
  <2>2. CASE run.op # o
    BY <1>0, <1>28, <2>2, ClaimDoes DEF AtRest, Turned, Ended, Became, Concluded, Moved, Stops, Idle
  <2> QED BY <2>1, <2>2
<1>29. ASSUME Validate PROVE AtRest(o) \/ Elsewhere(o) \/ Proceeds(o) \/ Handled(o)
  <2>1. CASE run.op = o
    BY <1>0, <1>29, <2>1, ValidateDoes DEF Elsewhere, Calls, Creation, Control, Answers, Moved, Stops, Idle
  <2>2. CASE run.op # o
    BY <1>0, <1>29, <2>2, ValidateDoes DEF AtRest, Moved, Stops, Idle
  <2> QED BY <2>1, <2>2
<1>30. ASSUME Gone PROVE AtRest(o) \/ Elsewhere(o) \/ Proceeds(o) \/ Handled(o)
  <2>1. CASE run.op = o
    BY <1>0, <1>30, <2>1, GoneDoes DEF Elsewhere, Calls, Creation, Control, Answers, Turned, Ended, Became, Concluded, Moved,
       Stops, Idle
  <2>2. CASE run.op # o
    BY <1>0, <1>30, <2>2, GoneDoes DEF AtRest, Turned, Ended, Became, Concluded, Moved, Stops, Idle
  <2> QED BY <2>1, <2>2
<1>31. ASSUME External PROVE AtRest(o) \/ Elsewhere(o) \/ Proceeds(o) \/ Handled(o)
  <2>1. CASE run.op = o
    BY <1>0, <1>31, <2>1, ExternalDoes DEF Elsewhere, Calls, Creation, Control, Answers, Turned, Ended, Became, Concluded,
       Marked, Moved, Stops, Idle
  <2>2. CASE run.op # o
    BY <1>0, <1>31, <2>2, ExternalDoes DEF AtRest, Turned, Ended, Became, Concluded, Marked, Moved, Stops, Idle
  <2> QED BY <2>1, <2>2
<1>32. ASSUME Check PROVE AtRest(o) \/ Elsewhere(o) \/ Proceeds(o) \/ Handled(o)
  <2>1. CASE run.op = o
    BY <1>0, <1>32, <2>1, CheckDoes DEF Elsewhere, Calls, Creation, Control, Answers, Moved, Stops, Idle
  <2>2. CASE run.op # o
    BY <1>0, <1>32, <2>2, CheckDoes DEF AtRest, Moved, Stops, Idle
  <2> QED BY <2>1, <2>2
<1>33. ASSUME SaveEntered PROVE AtRest(o) \/ Elsewhere(o) \/ Proceeds(o) \/ Handled(o)
  <2>1. CASE run.op = o
    BY <1>0, <1>33, <2>1, SaveEnteredDoes DEF Elsewhere, Calls, Creation, Control, Answers, Marked, Moved, Stops, Idle
  <2>2. CASE run.op # o
    BY <1>0, <1>33, <2>2, SaveEnteredDoes DEF AtRest, Marked, Moved, Stops, Idle
  <2> QED BY <2>1, <2>2
<1>34. ASSUME Attach PROVE AtRest(o) \/ Elsewhere(o) \/ Proceeds(o) \/ Handled(o)
  <2>1. CASE run.op = o
    BY <1>0, <1>34, <2>1, AttachDoes DEF Elsewhere, Calls, Creation, Control, Answers, Turned, Ended, Became, Concluded,
       Marked, Moved, Stops, Idle
  <2>2. CASE run.op # o
    BY <1>0, <1>34, <2>2, AttachDoes DEF AtRest, Turned, Ended, Became, Concluded, Marked, Moved, Stops, Idle
  <2> QED BY <2>1, <2>2
<1>35. ASSUME UpdateEndpoints PROVE AtRest(o) \/ Elsewhere(o) \/ Proceeds(o) \/ Handled(o)
  <2>1. CASE run.op = o
    BY <1>0, <1>35, <2>1, UpdateEndpointsDoes DEF Elsewhere, Calls, Creation, Control, Answers, Turned, Ended, Became,
       Concluded, Moved, Stops, Idle
  <2>2. CASE run.op # o
    BY <1>0, <1>35, <2>2, UpdateEndpointsDoes DEF AtRest, Turned, Ended, Became, Concluded, Moved, Stops, Idle
  <2> QED BY <2>1, <2>2
<1>36. ASSUME Reactivate PROVE AtRest(o) \/ Elsewhere(o) \/ Proceeds(o) \/ Handled(o)
  <2>1. CASE run.op = o
    BY <1>0, <1>36, <2>1, ReactivateDoes DEF Elsewhere, Calls, Creation, Control, Answers, Turned, Ended, Became, Concluded,
       Marked, Moved, Stops, Idle
  <2>2. CASE run.op # o
    BY <1>0, <1>36, <2>2, ReactivateDoes DEF AtRest, Turned, Ended, Became, Concluded, Marked, Moved, Stops, Idle
  <2> QED BY <2>1, <2>2
<1>37. ASSUME ConfigureConnection PROVE AtRest(o) \/ Elsewhere(o) \/ Proceeds(o) \/ Handled(o)
  <2>1. CASE run.op = o
    BY <1>0, <1>37, <2>1, ConfigureConnectionDoes DEF Elsewhere, Calls, Creation, Control, Answers, Turned, Ended, Became,
       Concluded, Moved, Stops, Idle
  <2>2. CASE run.op # o
    BY <1>0, <1>37, <2>2, ConfigureConnectionDoes DEF AtRest, Turned, Ended, Became, Concluded, Moved, Stops, Idle
  <2> QED BY <2>1, <2>2
<1>38. ASSUME Commit PROVE AtRest(o) \/ Elsewhere(o) \/ Proceeds(o) \/ Handled(o)
  <2>1. CASE run.op = o
    BY <1>0, <1>38, <2>1, CommitDoes DEF Elsewhere, Calls, Creation, Control, Answers, Turned, Ended, Became, Concluded,
       Marked, Moved, Stops, Idle
  <2>2. CASE run.op # o
    BY <1>0, <1>38, <2>2, CommitDoes DEF AtRest, Turned, Ended, Became, Concluded, Marked, Moved, Stops, Idle
  <2> QED BY <2>1, <2>2
<1>39. ASSUME Interrupt PROVE AtRest(o) \/ Elsewhere(o) \/ Proceeds(o) \/ Handled(o)
  <2>1. CASE run.op = o
    BY <1>39, <2>1 DEF Proceeds
  <2>2. CASE run.op # o
    BY <1>0, <1>39, <2>2, InterruptDoes DEF AtRest, Turned, Ended, Became, Concluded, Marked, Moved, Stops, Idle
  <2> QED BY <2>1, <2>2
<1>40. ASSUME Land PROVE AtRest(o) \/ Elsewhere(o) \/ Proceeds(o) \/ Handled(o)
  BY <1>40, LandDoes DEF AtRest
<1>41. ASSUME Switch PROVE AtRest(o) \/ Elsewhere(o) \/ Proceeds(o) \/ Handled(o)
  BY <1>41, SwitchDoes DEF AtRest
<1>42. ASSUME Suspend PROVE AtRest(o) \/ Elsewhere(o) \/ Proceeds(o) \/ Handled(o)
  BY <1>42, SuspendDoes DEF AtRest
<1>43. ASSUME Unregister PROVE AtRest(o) \/ Elsewhere(o) \/ Proceeds(o) \/ Handled(o)
  BY <1>43, UnregisterDoes DEF AtRest
<1>44. ASSUME Foreign PROVE AtRest(o) \/ Elsewhere(o) \/ Proceeds(o) \/ Handled(o)
  BY <1>44, ForeignDoes DEF AtRest
<1> QED
  BY Failures, <1>1, <1>2, <1>3, <1>4, <1>5, <1>6, <1>7, <1>8, <1>9, <1>10, <1>11, <1>12, <1>13, <1>14, <1>15, <1>16, <1>17,
     <1>18, <1>19, <1>20, <1>21, <1>22, <1>23, <1>24, <1>25, <1>26, <1>27, <1>28, <1>29, <1>30, <1>31, <1>32, <1>33, <1>34,
     <1>35, <1>36, <1>37, <1>38, <1>39, <1>40, <1>41, <1>42, <1>43, <1>44 DEF Next, Execution

(* A row is about an app password only when it is kept. *)
LEMMA NoRowStays ==
  ASSUME NoneIsNoOp, IMAPIsProtocol, LimitsAreNat, LocalTypes, OpTypes, RemoteTypes, Control, References, Secrets, Creations, Next, NEW k \in Keys, AppPassword(k), NoRow(k)
  PROVE  NoRow(k)' \/ (Keep /\ run.secret = k)
<1> USE NoneIsNoOp, IMAPIsProtocol, LimitsAreNat DEF vars, localVars, opVars, bounds, history, remoteVars
<1>1. ASSUME KeysSame PROVE NoRow(k)' \/ (Keep /\ run.secret = k)
  BY <1>1 DEF NoRow, KeysSame, RowsKeep
<1>2. ASSUME NEW o \in Ops, NEW kd \in Kinds, Queue(o, kd) PROVE NoRow(k)' \/ (Keep /\ run.secret = k)
  <2>1. QueueKeys BY <1>2, QueueKeysHold
  <2> QED BY <2>1 DEF NoRow, Rows, QueueKeys
<1>3. ASSUME Provider PROVE NoRow(k)' \/ (Keep /\ run.secret = k)
  BY <1>3, ProviderDoes DEF NoRow, Rows
<1>4. ASSUME Keep PROVE NoRow(k)' \/ (Keep /\ run.secret = k)
  <2>1. KeepKeys BY <1>4, KeepKeysHold
  <2> QED BY <1>4, <2>1 DEF NoRow, KeepKeys
<1>5. ASSUME Reserve \/ Password PROVE NoRow(k)' \/ (Keep /\ run.secret = k)
  <2>1. PasswordKeys BY <1>5, PasswordKeysHold
  <2> QED BY <2>1 DEF NoRow, Rows, PasswordKeys
<1>6. ASSUME Land PROVE NoRow(k)' \/ (Keep /\ run.secret = k)
  BY <1>6, LandDoes DEF NoRow, Rows
<1>7. ASSUME Foreign PROVE NoRow(k)' \/ (Keep /\ run.secret = k)
  BY <1>7, ForeignDoes DEF NoRow, Rows
<1>8. ASSUME EntersRow PROVE NoRow(k)' \/ (Keep /\ run.secret = k)
  <2>1. EnteredKeys BY <1>8, EnteredKeysHold
  <2>2. op[run.op].request.secret # k
    BY <2>1 DEF EnteredKeys, Secrets, Apart, ApartOps
  <2> QED BY <2>1, <2>2 DEF NoRow, EnteredKeys
<1>9. ASSUME Unregister PROVE NoRow(k)' \/ (Keep /\ run.secret = k)
  BY <1>9, UnregisterDoes DEF NoRow, Rows
<1> QED BY <1>1, <1>2, <1>3, <1>4, <1>5, <1>6, <1>7, <1>8, <1>9, KeysKept DEF KeysMove

(* An app password is accepted when its creation is performed. *)
LEMMA AcceptedComes ==
  ASSUME NoneIsNoOp, IMAPIsProtocol, LimitsAreNat, LocalTypes, OpTypes, RemoteTypes, Control, References, Secrets, Creations, Next, NEW k \in Keys, AppPassword(k), k \in account'.accepted
  PROVE  k \in account.accepted \/ \E call \in late : call.name = "credential.create" /\ call.key = k
<1> USE NoneIsNoOp, IMAPIsProtocol, LimitsAreNat DEF vars, localVars, opVars, bounds, history, remoteVars
<1>a. AppPassword(k) /\ k # fresh /\ k # 0
  BY FreshIsNew, LimitsAreNat DEF Keys
<1>1. ASSUME KeysSame PROVE k \in account.accepted \/ \E call \in late : call.name = "credential.create" /\ call.key = k
  BY <1>1 DEF KeysSame
<1>2. ASSUME NEW o \in Ops, NEW kd \in Kinds, Queue(o, kd) PROVE k \in account.accepted \/ \E call \in late : call.name = "credential.create" /\ call.key = k
  <2>1. QueueKeys BY <1>2, QueueKeysHold
  <2> QED BY <2>1 DEF QueueKeys
<1>3. ASSUME Provider PROVE k \in account.accepted \/ \E call \in late : call.name = "credential.create" /\ call.key = k
  <2>1. run.op # None /\ run.pc \in Calls /\ (Perform(Call) \/ UNCHANGED account)
    BY <1>3, ProviderDoes
  <2>2. CASE Perform(Call)
    <3>1. /\ Call \in CallRow /\ (Call.name # "mailbox.delete" => Call.key # 0) /\ Call.name \in Calls
          /\ Call.name = "credential.create" => Call.key = fresh
      BY <2>1, CallKey DEF Keys
    <3>2. Call.name \in {"mailbox.create", "mailbox.resetPassword"} => ~AppPassword(Call.key)
      BY <2>1, CallKey
    <3>3. k \in account.accepted \/ (Call.key = k /\ Call.name \in {"mailbox.create", "mailbox.resetPassword", "credential.create"})
      BY <2>2, <3>1, PerformDoes DEF Calls
    <3> QED BY <1>a, <3>1, <3>2, <3>3
  <2> QED BY <2>1, <2>2
<1>4. ASSUME Keep PROVE k \in account.accepted \/ \E call \in late : call.name = "credential.create" /\ call.key = k
  <2>1. KeepKeys BY <1>4, KeepKeysHold
  <2> QED BY <2>1 DEF KeepKeys
<1>5. ASSUME Reserve \/ Password PROVE k \in account.accepted \/ \E call \in late : call.name = "credential.create" /\ call.key = k
  <2>1. PasswordKeys BY <1>5, PasswordKeysHold
  <2> QED BY <2>1 DEF PasswordKeys
<1>6. ASSUME Land PROVE k \in account.accepted \/ \E call \in late : call.name = "credential.create" /\ call.key = k
  <2>1. PICK call \in late : Perform(call) \/ UNCHANGED account
    BY <1>6, LandDoes
  <2>2. CASE Perform(call)
    <3>1. /\ call \in CallRow /\ (call.name # "mailbox.delete" => call.key # 0) /\ call.name \in Calls
          /\ call.name \in {"mailbox.create", "mailbox.resetPassword"} => call.key # k
      BY <1>a, LateKey
    <3>2. k \in account.accepted \/ (call.key = k /\ call.name \in {"mailbox.create", "mailbox.resetPassword", "credential.create"})
      BY <2>2, <3>1, PerformDoes DEF Calls
    <3> QED BY <3>1, <3>2
  <2> QED BY <2>1, <2>2
<1>7. ASSUME Foreign PROVE k \in account.accepted \/ \E call \in late : call.name = "credential.create" /\ call.key = k
  BY <1>7, ForeignDoes
<1>8. ASSUME EntersRow PROVE k \in account.accepted \/ \E call \in late : call.name = "credential.create" /\ call.key = k
  <2>1. EnteredKeys BY <1>8, EnteredKeysHold
  <2> QED BY <2>1 DEF EnteredKeys
<1>9. ASSUME Unregister PROVE k \in account.accepted \/ \E call \in late : call.name = "credential.create" /\ call.key = k
  BY <1>9, UnregisterDoes
<1> QED BY <1>1, <1>2, <1>3, <1>4, <1>5, <1>6, <1>7, <1>8, <1>9, KeysKept DEF KeysMove

-----------------------------------------------------------------------------
(* Where its secret is. *)

Findable(k) == (\E c \in Rows : cred[c].key = k /\ cred[c].secret) \/ k \in named

(* A secret that is accepted stays where it can be found. *)
LEMMA FindableStep ==
  ASSUME NoneIsNoOp, IMAPIsProtocol, LimitsAreNat, LocalTypes, OpTypes, RemoteTypes, Control, References, Secrets, Creations, Revocations, NEW w \in Keys, AppPassword(w), w \in account.accepted, Findable(w), Next
  PROVE  Findable(w)'
<1> USE NoneIsNoOp, IMAPIsProtocol, LimitsAreNat DEF vars, localVars, opVars, bounds, history, remoteVars
<1>a. Findable(w)
  OBVIOUS
<1>1. ASSUME NEW o \in Ops, ConfirmExternal(o) PROVE Findable(w)'
  <2>0. SUFFICES ASSUME NEW c \in Rows, cred[c].key = w, cred[c].secret PROVE Findable(w)'
    BY <1>a, <1>1, ConfirmExternalDoes DEF Findable
  <2>1. c \in Rows' /\ cred'[c].key = w /\ cred'[c].secret
    BY <2>0, <1>1, RowsDisused, ConfirmExternalDoes DEF SameRows
  <2> QED BY <2>1 DEF Findable, Rows
<1>2. ASSUME Keep PROVE Findable(w)'
  <2>0. SUFFICES ASSUME NEW c \in Rows, cred[c].key = w, cred[c].secret PROVE Findable(w)'
    BY <1>a, <1>2, KeepDoes DEF Findable
  <2>1. c \in Rows' /\ cred'[c].key = w /\ cred'[c].secret
    BY <2>0, <1>2, KeepDoes DEF Adds, Rows
  <2> QED BY <2>1 DEF Findable, Rows
<1>3. ASSUME Activate PROVE Findable(w)'
  <2>0. SUFFICES ASSUME NEW c \in Rows, cred[c].key = w, cred[c].secret PROVE Findable(w)'
    BY <1>a, <1>3, ActivateDoes DEF Findable
  <2>1. c \in Rows' /\ cred'[c].key = w /\ cred'[c].secret
    BY <2>0, <1>3, ActivateDoes DEF SameRows
  <2> QED BY <2>1 DEF Findable, Rows
<1>4. ASSUME Revoked PROVE Findable(w)'
  <2>0. SUFFICES ASSUME NEW c \in Rows, cred[c].key = w, cred[c].secret PROVE Findable(w)'
    BY <1>a, <1>4, RevokedDoes DEF Findable
  <2>1. c # run.old
    BY <2>0, <1>4, RevokedDoes DEF Refuses, Accepted
  <2>2. c \in Rows' /\ cred'[c].key = w /\ cred'[c].secret
    BY <2>0, <2>1, <1>4, RevokedDoes DEF SameRows
  <2> QED BY <2>2 DEF Findable, Rows
<1>5. ASSUME SaveEntered PROVE Findable(w)'
  <2>0. SUFFICES ASSUME NEW c \in Rows, cred[c].key = w, cred[c].secret PROVE Findable(w)'
    BY <1>a, <1>5, SaveEnteredDoes DEF Findable
  <2>1. c \in Rows' /\ cred'[c].key = w /\ cred'[c].secret
    BY <2>0, <1>5, RowsEntered DEF Adds, Rows
  <2> QED BY <2>1 DEF Findable, Rows
<1>6. ASSUME Attach PROVE Findable(w)'
  <2>0. SUFFICES ASSUME NEW c \in Rows, cred[c].key = w, cred[c].secret PROVE Findable(w)'
    BY <1>a, <1>6, AttachDoes DEF Findable
  <2>1. c \in Rows' /\ cred'[c].key = w /\ cred'[c].secret
    BY <2>0, <1>6, RowsEntered DEF Adds, Rows
  <2> QED BY <2>1 DEF Findable, Rows
<1>7. ASSUME UpdateEndpoints PROVE Findable(w)'
  <2>0. SUFFICES ASSUME NEW c \in Rows, cred[c].key = w, cred[c].secret PROVE Findable(w)'
    BY <1>a, <1>7, UpdateEndpointsDoes DEF Findable
  <2>1. c \in Rows' /\ cred'[c].key = w /\ cred'[c].secret
    BY <2>0, <1>7, RowsUpdated
  <2> QED BY <2>1 DEF Findable, Rows
<1>8. ASSUME Commit PROVE Findable(w)'
  <2>0. SUFFICES ASSUME NEW c \in Rows, cred[c].key = w, cred[c].secret PROVE Findable(w)'
    BY <1>a, <1>8, CommitDoes DEF Findable
  <2>1. CASE Kind(run.op) # "mailbox.deleteRemote"
    BY <2>0, <2>1, <1>8, RowsForgotten DEF Findable, Rows
  <2>2. CASE Kind(run.op) = "mailbox.deleteRemote"
    <3>1. cred[c].source = "managed"
      BY <2>0 DEF Secrets, Apart, ApartRows
    <3> QED BY <2>0, <2>2, <3>1, <1>8, CommitDoes DEF Revocations, Deleted
  <2> QED BY <2>1, <2>2
<1>9. ASSUME Unregister PROVE Findable(w)'
  <2>0. SUFFICES ASSUME NEW c \in Rows, cred[c].key = w, cred[c].secret PROVE w \in named'
    BY <1>a, <1>9, UnregisterDoes DEF Findable
  <2>1. cred[c].state # "revoked"
    BY <2>0 DEF Revocations, RevokedIsRefused
  <2> QED BY <2>0, <2>1, <1>9, UnregisterDoes
<1>10. UNCHANGED <<cred, named>> => Findable(w)'
  BY DEF Findable, Rows
<1>11. ASSUME NEW o \in Ops, NEW k \in Kinds, Queue(o, k) PROVE UNCHANGED <<cred, named>>
  BY <1>11, QueueDoes
<1>12. ASSUME NEW o \in Ops, Execute(o) PROVE UNCHANGED <<cred, named>>
  BY <1>12, ExecuteDoes
<1>13. ASSUME NEW o \in Ops, ReconcileStep(o) PROVE UNCHANGED <<cred, named>>
  BY <1>13, ReconcileStepDoes
<1>14. ASSUME NEW o \in Ops, Reconcile(o) PROVE UNCHANGED <<cred, named>>
  BY <1>14, ReconcileDoes
<1>15. ASSUME NEW o \in Ops, Retry(o) PROVE UNCHANGED <<cred, named>>
  BY <1>15, RetryDoes
<1>16. ASSUME NEW o \in Ops, Cancel(o) PROVE UNCHANGED <<cred, named>>
  BY <1>16, CancelDoes
<1>17. ASSUME NEW o \in Ops, Report(o) PROVE UNCHANGED <<cred, named>>
  BY <1>17, ReportDoes
<1>18. ASSUME NEW o \in Ops, ClaimSecret(o) PROVE UNCHANGED <<cred, named>>
  BY <1>18, ClaimSecretDoes
<1>19. ASSUME NEW o \in Ops, Expire(o) PROVE UNCHANGED <<cred, named>>
  BY <1>19, ExpireDoes
<1>20. ASSUME Failure PROVE UNCHANGED <<cred, named>>
  BY <1>20, FailureDoes
<1>21. ASSUME Start PROVE UNCHANGED <<cred, named>>
  BY <1>21, StartDoes
<1>22. ASSUME Complete PROVE UNCHANGED <<cred, named>>
  BY <1>22, CompleteDoes
<1>23. ASSUME Begin PROVE UNCHANGED <<cred, named>>
  BY <1>23, BeginDoes
<1>24. ASSUME Provider PROVE UNCHANGED <<cred, named>>
  BY <1>24, ProviderDoes
<1>25. ASSUME Refused PROVE UNCHANGED <<cred, named>>
  BY <1>25, RefusedDoes
<1>26. ASSUME Record PROVE UNCHANGED <<cred, named>>
  BY <1>26, RecordDoes
<1>27. ASSUME GiveUp PROVE UNCHANGED <<cred, named>>
  BY <1>27, GiveUpDoes
<1>28. ASSUME Reserve PROVE UNCHANGED <<cred, named>>
  BY <1>28, ReserveDoes
<1>29. ASSUME Confirm PROVE UNCHANGED <<cred, named>>
  BY <1>29, ConfirmDoes
<1>30. ASSUME Candidate PROVE UNCHANGED <<cred, named>>
  BY <1>30, CandidateDoes
<1>31. ASSUME Verify PROVE UNCHANGED <<cred, named>>
  BY <1>31, VerifyDoes
<1>32. ASSUME Revoke PROVE UNCHANGED <<cred, named>>
  BY <1>32, RevokeDoes
<1>33. ASSUME Password PROVE UNCHANGED <<cred, named>>
  BY <1>33, PasswordDoes
<1>34. ASSUME Claim PROVE UNCHANGED <<cred, named>>
  BY <1>34, ClaimDoes
<1>35. ASSUME Validate PROVE UNCHANGED <<cred, named>>
  BY <1>35, ValidateDoes
<1>36. ASSUME Gone PROVE UNCHANGED <<cred, named>>
  BY <1>36, GoneDoes
<1>37. ASSUME External PROVE UNCHANGED <<cred, named>>
  BY <1>37, ExternalDoes
<1>38. ASSUME Check PROVE UNCHANGED <<cred, named>>
  BY <1>38, CheckDoes
<1>39. ASSUME Reactivate PROVE UNCHANGED <<cred, named>>
  BY <1>39, ReactivateDoes
<1>40. ASSUME ConfigureConnection PROVE UNCHANGED <<cred, named>>
  BY <1>40, ConfigureConnectionDoes
<1>41. ASSUME Interrupt PROVE UNCHANGED <<cred, named>>
  BY <1>41, InterruptDoes
<1>42. ASSUME Land PROVE UNCHANGED <<cred, named>>
  BY <1>42, LandDoes
<1>43. ASSUME Switch PROVE UNCHANGED <<cred, named>>
  BY <1>43, SwitchDoes
<1>44. ASSUME Suspend PROVE UNCHANGED <<cred, named>>
  BY <1>44, SuspendDoes
<1>45. ASSUME Foreign PROVE UNCHANGED <<cred, named>>
  BY <1>45, ForeignDoes
<1> QED
  BY Failures, <1>1, <1>2, <1>3, <1>4, <1>5, <1>6, <1>7, <1>8, <1>9, <1>10, <1>11, <1>12, <1>13, <1>14, <1>15, <1>16, <1>17,
     <1>18, <1>19, <1>20, <1>21, <1>22, <1>23, <1>24, <1>25, <1>26, <1>27, <1>28, <1>29, <1>30, <1>31, <1>32, <1>33, <1>34,
     <1>35, <1>36, <1>37, <1>38, <1>39, <1>40, <1>41, <1>42, <1>43, <1>44, <1>45 DEF Next, Execution

(* The execution of an operation whose creation is unsure. *)
LEMMA UnsureIs ==
  ASSUME NoneIsNoOp, IMAPIsProtocol, LimitsAreNat, LocalTypes, OpTypes, RemoteTypes, Control, References, NEW o \in Ops, step[o][Creation] \in Unsure \cup {"external_reported"}
  PROVE  \/ op[o].status \in {"unknown", "cancelled"} /\ run.op # o
         \/ /\ run.op = o /\ op[o].status = "running" /\ run.answer # "none"
            /\ run.pc = "credential.create" \/ (run.pc = "failing" /\ run.answer = "unknown")
<1>1. Creation \in Steps /\ run.op # None => op[run.op].status = "running"
  BY DEF Control, Executing, Creation, Steps
<1>2. run.op = o => op[o].status = "running"
  BY <1>1, NoneIsNoOp DEF Control, Executing
<1>3. CASE step[o][Creation] = "external_reported"
  <2>1. Creation \in Steps
    BY DEF Creation, Steps
  <2> QED BY <1>2, <1>3, <2>1 DEF Control, GivenUp
<1>4. CASE step[o][Creation] \in Unsure
  <2>1. Creation \in Steps
    BY DEF Creation, Steps
  <2>2. op[o].status = "running" => run.op = o
    BY DEF Control, Executing
  <2>3. Step = Creation => run.pc = "credential.create"
    BY DEF Step, Creation
  <2>4. \/ op[o].status = "unknown"
        \/ op[o].status = "running" /\ run.pc \in Calls /\ run.answer # "none" /\ Creation = Step
        \/ op[o].status = "running" /\ run.pc = "failing" /\ run.answer = "unknown"
    BY <1>4, <2>1 DEF Control, Settling
  <2> QED BY <1>2, <2>2, <2>3, <2>4
<1> QED BY <1>3, <1>4

(* What nobody heard of stays unheard of. *)
LEMMA OrphanStays ==
  ASSUME NoneIsNoOp, IMAPIsProtocol, LimitsAreNat, LocalTypes, OpTypes, RemoteTypes, Control, References, Secrets, Creations, Next, NEW k \in Keys, NEW o \in Ops, maker[k] = o, Orphan(k, o)
  PROVE  Orphan(k, o)'
<1> USE NoneIsNoOp, IMAPIsProtocol, LimitsAreNat DEF vars, localVars, opVars, bounds, history, remoteVars
<1> SUFFICES op'[o].cand = 0 /\ step'[o][Creation] \in Unsure \cup {"external_reported"} /\ (run'.op = o => run'.answer = "unknown")
  <2>1. NoRow(k) /\ AppPassword(k) /\ (run.op = o => run.answer = "unknown")
    BY DEF Orphan, AppPassword
  <2>2. ~(Keep /\ run.secret = k)
    BY <2>1, KeepDoes DEF Creations, Returned
  <2>3. NoRow(k)'
    BY <2>1, <2>2, NoRowStays
  <2> QED BY <2>3 DEF Orphan
<1>a. op[o].cand = 0 /\ step[o][Creation] \in Unsure \cup {"external_reported"} /\ (run.op = o => run.answer = "unknown")
  BY DEF Orphan
<1>b. \/ op[o].status \in {"unknown", "cancelled"} /\ run.op # o
      \/ /\ run.op = o /\ op[o].status = "running" /\ run.answer = "unknown" /\ run.pc \in {"credential.create", "failing"}
  BY <1>a, UnsureIs
<1>c. Creation \in Steps
  BY DEF Creation, Steps
<1>1. CASE AtRest(o)
  BY <1>1, <1>a DEF AtRest
<1>2. CASE Elsewhere(o)
  BY <1>2, <1>b DEF Elsewhere, Calls
<1>3. CASE Proceeds(o)
  <2>1. CASE run.op = o /\ Begin
    BY <1>b, <2>1, BeginDoes
  <2>2. CASE run.op = o /\ Provider
    BY <1>b, <2>2, ProviderDoes
  <2>3. CASE run.op = o /\ Refused
    BY <1>b, <2>3, RefusedDoes
  <2>4. CASE run.op = o /\ Keep
    BY <1>b, <2>4, KeepDoes
  <2>5. CASE run.op = o /\ Record
    <3>1. run.pc = "credential.create" /\ run.answer = "unknown"
      BY <1>b, <2>5, RecordDoes DEF Calls
    <3>2. Step = Creation
      BY <3>1 DEF Step, Creation, Control, Answers
    <3> QED BY <1>a, <3>1, <3>2, <2>5, RecordDoes DEF Marked, Outcome, Moved, Unsure
  <2>6. CASE run.op = o /\ GiveUp
    BY <1>a, <2>6, GiveUpDoes DEF Concluded, Turned, Became, Stops, Idle
  <2>7. CASE run.op = o /\ Interrupt
    BY <1>a, <1>c, <2>7, InterruptDoes DEF Turned, Became, Stops, Idle, Unsure
  <2> QED BY <1>3, <2>1, <2>2, <2>3, <2>4, <2>5, <2>6, <2>7 DEF Proceeds
<1>4. CASE Handled(o)
  <2>1. ASSUME NEW kd \in Kinds, Queue(o, kd) PROVE op'[o].cand = 0 /\ step'[o][Creation] \in Unsure \cup {"external_reported"} /\ (run'.op = o => run'.answer = "unknown")
    BY <1>b, <2>1, QueueDoes
  <2>2. CASE Execute(o)
    BY <1>b, <2>2, ExecuteDoes
  <2>3. CASE ConfirmExternal(o)
    BY <1>b, <2>3, ConfirmExternalDoes
  <2>4. CASE ReconcileStep(o)
    <3>1. PICK s \in Unresolved(o), v \in {"succeeded", "failed"} : v = Verdict(o, s) /\ s \in Steps /\ Marked(o, s, v)
      BY <2>4, ReconcileStepDoes
    <3>2. UNCHANGED <<op, run>>
      BY <2>4, ReconcileStepDoes
    <3>3. s # Creation
      BY <1>a, <3>1 DEF Verdict, Creation
    <3> QED BY <1>a, <1>c, <3>1, <3>2, <3>3 DEF Marked
  <2>5. CASE Reconcile(o)
    BY <1>a, <1>b, <1>c, <2>5, ReconcileDoes DEF Unresolved, Unsure, Control, GivenUp
  <2>6. CASE Retry(o)
    BY <1>b, <2>6, RetryDoes
  <2>7. CASE Cancel(o)
    BY <1>b, <2>7, CancelDoes
  <2>8. CASE Report(o)
    BY <1>a, <2>8, ReportDoes DEF Dropped, Became, Marked
  <2>9. CASE ClaimSecret(o)
    BY <1>a, <2>9, ClaimSecretDoes DEF Became
  <2>10. CASE Expire(o)
    BY <1>a, <2>10, ExpireDoes DEF Became
  <2> QED BY <1>4, <2>1, <2>2, <2>3, <2>4, <2>5, <2>6, <2>7, <2>8, <2>9, <2>10 DEF Handled
<1> QED BY <1>1, <1>2, <1>3, <1>4, CreationMoves

(* Only a call that is made is performed later. *)
LEMMA LateGrows ==
  ASSUME NoneIsNoOp, IMAPIsProtocol, LimitsAreNat, LocalTypes, OpTypes, RemoteTypes, Control, References, Secrets, Creations, Next, NEW call \in late'
  PROVE  call \in late \/ (Provider /\ run.op # None /\ run.pc \in Calls /\ call = Call)
<1> USE NoneIsNoOp, IMAPIsProtocol, LimitsAreNat DEF vars, localVars, opVars, bounds, history, remoteVars
<1>1. ASSUME KeysSame PROVE call \in late \/ (Provider /\ run.op # None /\ run.pc \in Calls /\ call = Call)
  BY <1>1 DEF KeysSame
<1>2. ASSUME NEW o \in Ops, NEW kd \in Kinds, Queue(o, kd) PROVE call \in late \/ (Provider /\ run.op # None /\ run.pc \in Calls /\ call = Call)
  <2>1. QueueKeys BY <1>2, QueueKeysHold
  <2> QED BY <2>1 DEF QueueKeys
<1>3. ASSUME Provider PROVE call \in late \/ (Provider /\ run.op # None /\ run.pc \in Calls /\ call = Call)
  BY <1>3, ProviderDoes
<1>4. ASSUME Keep PROVE call \in late \/ (Provider /\ run.op # None /\ run.pc \in Calls /\ call = Call)
  <2>1. KeepKeys BY <1>4, KeepKeysHold
  <2> QED BY <2>1 DEF KeepKeys
<1>5. ASSUME Reserve \/ Password PROVE call \in late \/ (Provider /\ run.op # None /\ run.pc \in Calls /\ call = Call)
  <2>1. PasswordKeys BY <1>5, PasswordKeysHold
  <2> QED BY <2>1 DEF PasswordKeys
<1>6. ASSUME Land PROVE call \in late \/ (Provider /\ run.op # None /\ run.pc \in Calls /\ call = Call)
  BY <1>6, LandDoes
<1>7. ASSUME Foreign PROVE call \in late \/ (Provider /\ run.op # None /\ run.pc \in Calls /\ call = Call)
  BY <1>7, ForeignDoes
<1>8. ASSUME EntersRow PROVE call \in late \/ (Provider /\ run.op # None /\ run.pc \in Calls /\ call = Call)
  <2>1. EnteredKeys BY <1>8, EnteredKeysHold
  <2> QED BY <2>1 DEF EnteredKeys
<1>9. ASSUME Unregister PROVE call \in late \/ (Provider /\ run.op # None /\ run.pc \in Calls /\ call = Call)
  BY <1>9, UnregisterDoes
<1> QED BY <1>1, <1>2, <1>3, <1>4, <1>5, <1>6, <1>7, <1>8, <1>9, KeysKept DEF KeysMove

(* What was returned is saved, or nobody hears of it. *)
LEMMA ArrivingMoves ==
  ASSUME NoneIsNoOp, IMAPIsProtocol, LimitsAreNat, LocalTypes, OpTypes, RemoteTypes, Control, References, Secrets, Creations, Next, NEW k \in Keys, NEW o \in Ops, maker[k] = o, Arriving(k, o)
  PROVE  Orphan(k, o)' \/ Arriving(k, o)' \/ Unread(k, o)'
<1> USE NoneIsNoOp, IMAPIsProtocol, LimitsAreNat DEF vars, localVars, opVars, bounds, history, remoteVars
<1>a. /\ run.op = o /\ run.pc = "credential.create" /\ run.answer = "ok" /\ run.secret = k /\ op[o].cand = 0
      /\ NoRow(k) /\ ~InLate(k) /\ run.op # None
  BY DEF Arriving
<1>b. op[o].status = "running" /\ AppPassword(k)
  BY <1>a, Running DEF AppPassword
<1>c. Creation \in Steps
  BY DEF Creation, Steps
<1>d. Step = Creation /\ step[o][Creation] = "running"
  BY <1>a DEF Step, Creation, Control, Answers, Calling, Calls
<1>e. ~Keep => NoRow(k)'
  BY <1>a, <1>b, NoRowStays
<1>f. ~InLate(k)'
  <2>1. ~Provider
    BY <1>a, ProviderDoes
  <2> QED BY <1>a, <2>1, LateGrows DEF InLate
<1>k. CASE Keep
  <2>1. CASE cred' = cred /\ op' = op /\ Moved(run.pc, run.old, 0, "unknown")
    BY <1>a, <1>d, <1>k, <2>1, KeepDoes DEF Orphan, NoRow, Rows, Unsure, Moved
  <2>2. CASE /\ Adds([source |-> "managed", state |-> "candidate", key |-> run.secret, secret |-> TRUE])
             /\ op'[o].cand = Len(cred) + 1 /\ op'[o].status = op[o].status /\ run' = run
    <3>1. op'[o].cand # 0 /\ cred'[op'[o].cand].key = k
      BY <1>a, <2>2 DEF Adds, LocalTypes
    <3>2. step' = step
      BY <1>k, KeepDoes
    <3> QED BY <1>a, <1>b, <1>d, <2>2, <3>1, <3>2 DEF Unread, Unsure, IsLive, Live
  <2> QED BY <1>a, <1>k, <2>1, <2>2, KeepDoes DEF Became
<1>g. ~Keep /\ run' = run /\ op'[o].cand = op[o].cand => Arriving(k, o)'
  BY <1>a, <1>e, <1>f DEF Arriving
<1>1. CASE AtRest(o)
  BY <1>1, <1>a, <1>g, <1>k DEF AtRest
<1>2. CASE Elsewhere(o)
  BY <1>2, <1>a DEF Elsewhere, Calls
<1>3. CASE Proceeds(o)
  <2>1. CASE run.op = o /\ Begin
    BY <1>a, <1>b, <2>1, BeginDoes
  <2>2. CASE run.op = o /\ Provider
    BY <1>a, <1>b, <2>2, ProviderDoes
  <2>3. CASE run.op = o /\ Refused
    BY <1>a, <1>b, <2>3, RefusedDoes
  <2>4. CASE run.op = o /\ Keep
    BY <1>k, <2>4
  <2>5. CASE run.op = o /\ Record
    BY <1>a, <1>b, <2>5, RecordDoes
  <2>6. CASE run.op = o /\ GiveUp
    BY <1>a, <1>b, <2>6, GiveUpDoes
  <2>7. CASE run.op = o /\ Interrupt
    <3>1. op'[o].cand = 0 /\ step'[o][Creation] = "unknown" /\ cred' = cred /\ run' = Idle
      BY <1>a, <1>c, <1>d, <2>7, InterruptDoes DEF Turned, Became, Stops
    <3> QED BY <1>a, <3>1 DEF Orphan, NoRow, Rows, Unsure, Idle
  <2> QED BY <1>3, <2>1, <2>2, <2>3, <2>4, <2>5, <2>6, <2>7 DEF Proceeds
<1>4. CASE Handled(o)
  <2>1. ASSUME NEW kd \in Kinds, Queue(o, kd) PROVE Orphan(k, o)' \/ Arriving(k, o)' \/ Unread(k, o)'
    BY <1>a, <1>b, <2>1, QueueDoes
  <2>2. CASE Execute(o)
    BY <1>a, <1>b, <2>2, ExecuteDoes
  <2>3. CASE ConfirmExternal(o)
    BY <1>a, <1>b, <2>3, ConfirmExternalDoes
  <2>4. CASE ReconcileStep(o)
    BY <1>a, <1>b, <2>4, ReconcileStepDoes
  <2>5. CASE Reconcile(o)
    BY <1>a, <1>b, <2>5, ReconcileDoes
  <2>6. CASE Retry(o)
    BY <1>a, <1>b, <2>6, RetryDoes
  <2>7. CASE Cancel(o)
    BY <1>a, <1>b, <2>7, CancelDoes
  <2>8. CASE Report(o)
    BY <1>a, <1>b, <2>8, ReportDoes
  <2>9. CASE ClaimSecret(o)
    <3>1. run' = run /\ op'[o].cand = op[o].cand
      BY <2>9, ClaimSecretDoes DEF Became
    <3> QED BY <1>g, <1>k, <3>1
  <2>10. CASE Expire(o)
    <3>1. run' = run /\ op'[o].cand = op[o].cand
      BY <2>10, ExpireDoes DEF Became
    <3> QED BY <1>g, <1>k, <3>1
  <2> QED BY <1>4, <2>1, <2>2, <2>3, <2>4, <2>5, <2>6, <2>7, <2>8, <2>9, <2>10 DEF Handled
<1> QED BY <1>1, <1>2, <1>3, <1>4, CreationMoves

(* What was saved is recorded. *)
LEMMA UnreadMoves ==
  ASSUME NoneIsNoOp, IMAPIsProtocol, LimitsAreNat, LocalTypes, OpTypes, RemoteTypes, Control, References, Secrets, Creations, Next, NEW k \in Keys, NEW o \in Ops, maker[k] = o, Unread(k, o)
  PROVE  Unread(k, o)' \/ Stored(k, o)'
<1> USE NoneIsNoOp, IMAPIsProtocol, LimitsAreNat DEF vars, localVars, opVars, bounds, history, remoteVars
<1>a. /\ op[o].cand # 0 /\ step[o][Creation] \in Unsure /\ cred[op[o].cand].key = k /\ IsLive(o)
      /\ run.op = o => run.pc = "credential.create" /\ run.answer = "ok"
  BY DEF Unread
<1>b. \/ op[o].status = "unknown" /\ run.op # o
      \/ /\ run.op = o /\ op[o].status = "running" /\ run.answer = "ok" /\ run.pc = "credential.create"
  BY <1>a, UnsureIs DEF IsLive, Live
<1>c. Creation \in Steps
  BY DEF Creation, Steps
<1>d. op[o].cand \in Rows /\ cred[op[o].cand].secret
  BY <1>a DEF References, Candidates
<1>e. op[o].cand \in Rows' /\ cred'[op[o].cand].key = k
  <2>1. ~Unregister
    BY <1>a, UnregisterDoes DEF IsLive
  <2> QED BY <1>a, <1>d, <2>1, RowsStayStep DEF RowsStay
<1>g. /\ op'[o].cand = op[o].cand /\ op'[o].status \in Live /\ step'[o][Creation] \in Unsure
      /\ run'.op = o => run'.pc = "credential.create" /\ run'.answer = "ok"
      => Unread(k, o)'
  BY <1>a, <1>e DEF Unread, IsLive
<1>h. cred' = cred /\ step'[o][Creation] = "succeeded" => Stored(k, o)'
  BY <1>a, <1>d DEF Stored, Rows
<1>i. op[o].status \in Live
  BY <1>a DEF IsLive
<1>1. CASE AtRest(o)
  BY <1>1, <1>a, <1>g, <1>i DEF AtRest
<1>2. CASE Elsewhere(o)
  BY <1>2, <1>b DEF Elsewhere, Calls
<1>3. CASE Proceeds(o)
  <2>1. CASE run.op = o /\ Begin
    BY <1>a, <1>b, <2>1, BeginDoes
  <2>2. CASE run.op = o /\ Provider
    BY <1>a, <1>b, <2>2, ProviderDoes
  <2>3. CASE run.op = o /\ Refused
    BY <1>a, <1>b, <2>3, RefusedDoes
  <2>4. CASE run.op = o /\ Keep
    BY <1>a, <1>b, <2>4, KeepDoes
  <2>5. CASE run.op = o /\ Record
    <3>1. run.pc = "credential.create" /\ run.answer = "ok"
      BY <1>b, <2>5
    <3>2. Step = Creation
      BY <3>1 DEF Step, Creation, Control, Answers
    <3> QED BY <1>h, <3>1, <3>2, <2>5, RecordDoes DEF Marked, Outcome
  <2>6. CASE run.op = o /\ GiveUp
    BY <1>a, <1>b, <2>6, GiveUpDoes
  <2>7. CASE run.op = o /\ Interrupt
    <3>1. op'[o].cand = op[o].cand /\ op'[o].status = "unknown" /\ step'[o][Creation] \in Unsure /\ run' = Idle
      BY <1>a, <1>c, <2>7, InterruptDoes DEF Turned, Became, Stops, Unsure
    <3> QED BY <1>g, <3>1, NoneIsNoOp DEF Idle, Live
  <2> QED BY <1>3, <2>1, <2>2, <2>3, <2>4, <2>5, <2>6, <2>7 DEF Proceeds
<1>4. CASE Handled(o)
  <2>1. ASSUME NEW kd \in Kinds, Queue(o, kd) PROVE Unread(k, o)' \/ Stored(k, o)'
    BY <1>a, <1>b, <2>1, QueueDoes
  <2>2. CASE Execute(o)
    BY <1>a, <1>b, <2>2, ExecuteDoes
  <2>3. CASE ConfirmExternal(o)
    BY <1>a, <1>b, <2>3, ConfirmExternalDoes
  <2>4. CASE ReconcileStep(o)
    <3>1. PICK s \in Unresolved(o), v \in {"succeeded", "failed"} : v = Verdict(o, s) /\ s \in Steps /\ Marked(o, s, v)
      BY <2>4, ReconcileStepDoes
    <3>2. UNCHANGED <<op, run, cred>>
      BY <2>4, ReconcileStepDoes
    <3>3. CASE s # Creation
      BY <1>a, <1>c, <1>g, <1>i, <3>1, <3>2, <3>3 DEF Marked
    <3>4. CASE s = Creation
      <4>1. v = "succeeded"
        BY <3>1, <3>4 DEF Verdict, Creation
      <4> QED BY <1>h, <3>1, <3>2, <3>4, <4>1 DEF Marked
    <3> QED BY <3>3, <3>4
  <2>5. CASE Reconcile(o)
    BY <1>a, <1>c, <2>5, ReconcileDoes DEF Unresolved, Unsure
  <2>6. CASE Retry(o)
    BY <1>a, <1>b, <2>6, RetryDoes
  <2>7. CASE Cancel(o)
    BY <1>a, <1>b, <2>7, CancelDoes
  <2>8. CASE Report(o)
    BY <1>a, <1>b, <2>8, ReportDoes
  <2>9. CASE ClaimSecret(o)
    <3>1. UNCHANGED <<run, step>> /\ op'[o].cand = op[o].cand /\ op'[o].status = op[o].status
      BY <2>9, ClaimSecretDoes DEF Became
    <3> QED BY <1>a, <1>g, <1>i, <3>1
  <2>10. CASE Expire(o)
    <3>1. UNCHANGED <<run, step>> /\ op'[o].cand = op[o].cand /\ op'[o].status = op[o].status
      BY <2>10, ExpireDoes DEF Became
    <3> QED BY <1>a, <1>g, <1>i, <3>1
  <2> QED BY <1>4, <2>1, <2>2, <2>3, <2>4, <2>5, <2>6, <2>7, <2>8, <2>9, <2>10 DEF Handled
<1> QED BY <1>1, <1>2, <1>3, <1>4, CreationMoves

(* What was recorded can be found. *)
LEMMA StoredStays ==
  ASSUME NoneIsNoOp, IMAPIsProtocol, LimitsAreNat, LocalTypes, OpTypes, RemoteTypes, Control, References, Secrets, Creations, Next, Revocations, NEW k \in Keys, NEW o \in Ops, maker[k] = o, Stored(k, o)
  PROVE  Stored(k, o)'
<1> USE NoneIsNoOp, IMAPIsProtocol, LimitsAreNat DEF vars, localVars, opVars, bounds, history, remoteVars
<1>a. step[o][Creation] = "succeeded" /\ (k \in account.accepted => Findable(k))
  BY DEF Stored, Findable
<1>b. AppPassword(k) /\ maker[k] # None
  BY DEF AppPassword
<1>c. Creation \in Steps
  BY DEF Creation, Steps
<1>s. SUFFICES step'[o][Creation] = "succeeded"
  <2>1. SUFFICES ASSUME k \in account'.accepted PROVE Findable(k)'
    BY DEF Stored, Findable
  <2>2. k \in account.accepted
    <3>1. ASSUME NEW call \in late, call.name = "credential.create", call.key = k PROVE FALSE
      BY <1>a, <3>1 DEF Creations, LateCreations, Orphan, Unsure
    <3> QED BY <1>b, <2>1, <3>1, AcceptedComes
  <2> QED BY <1>a, <1>b, <2>2, FindableStep
<1>1. CASE AtRest(o)
  BY <1>1, <1>a DEF AtRest
<1>2. CASE Elsewhere(o)
  BY <1>2, <1>a DEF Elsewhere
<1>3. CASE Proceeds(o)
  <2>1. CASE run.op = o /\ Begin
    BY <1>a, <1>c, <2>1, BeginDoes DEF Marked, Unsure
  <2>2. CASE run.op = o /\ Provider
    BY <1>a, <2>2, ProviderDoes
  <2>3. CASE run.op = o /\ Refused
    BY <1>a, <2>3, RefusedDoes
  <2>4. CASE run.op = o /\ Keep
    BY <1>a, <2>4, KeepDoes
  <2>5. CASE run.op = o /\ Record
    <3>1. step[o][Step] = "running" /\ Step \in Steps
      BY <2>5, RecordDoes DEF Control, Calling
    <3>2. Marked(o, Step, Outcome(run.answer))
      BY <2>5, RecordDoes
    <3> QED BY <1>a, <1>c, <3>1, <3>2 DEF Marked
  <2>6. CASE run.op = o /\ GiveUp
    BY <1>a, <2>6, GiveUpDoes
  <2>7. CASE run.op = o /\ Interrupt
    BY <1>a, <1>c, <2>7, InterruptDoes
  <2> QED BY <1>3, <2>1, <2>2, <2>3, <2>4, <2>5, <2>6, <2>7 DEF Proceeds
<1>4. CASE Handled(o)
  <2>1. ASSUME NEW kd \in Kinds, Queue(o, kd) PROVE step'[o][Creation] = "succeeded"
    BY <1>a, <2>1, QueueDoes
  <2>2. CASE Execute(o)
    BY <1>a, <2>2, ExecuteDoes
  <2>3. CASE ConfirmExternal(o)
    BY <1>a, <2>3, ConfirmExternalDoes
  <2>4. CASE ReconcileStep(o)
    <3>1. PICK s \in Unresolved(o), v \in {"succeeded", "failed"} : s \in Steps /\ Marked(o, s, v)
      BY <2>4, ReconcileStepDoes
    <3>2. s # Creation
      BY <1>a, <3>1 DEF Unresolved
    <3> QED BY <1>a, <1>c, <3>1, <3>2 DEF Marked
  <2>5. CASE Reconcile(o)
    BY <1>a, <2>5, ReconcileDoes
  <2>6. CASE Retry(o)
    BY <1>a, <1>c, <2>6, RetryDoes
  <2>7. CASE Cancel(o)
    BY <1>a, <2>7, CancelDoes
  <2>8. CASE Report(o)
    BY <1>a, <2>8, ReportDoes
  <2>9. CASE ClaimSecret(o)
    BY <1>a, <2>9, ClaimSecretDoes
  <2>10. CASE Expire(o)
    BY <1>a, <2>10, ExpireDoes
  <2> QED BY <1>4, <2>1, <2>2, <2>3, <2>4, <2>5, <2>6, <2>7, <2>8, <2>9, <2>10 DEF Handled
<1> QED BY <1>1, <1>2, <1>3, <1>4, CreationMoves

(* What a call makes arrives, or nobody hears of it. *)
LEMMA ProviderMakes ==
  ASSUME NoneIsNoOp, IMAPIsProtocol, LimitsAreNat, LocalTypes, OpTypes, RemoteTypes, Control, References, Secrets, Creations, Provider, run.pc = "credential.create", NEW o \in Ops, run.op = o, NEW k \in Keys, k = fresh
  PROVE  /\ maker'[k] = o /\ run'.op = o
         /\ \/ Orphan(k, o)' /\ run'.answer = "unknown"
            \/ Arriving(k, o)' /\ run'.secret = k /\ late' = late
<1> USE NoneIsNoOp, IMAPIsProtocol, LimitsAreNat DEF vars, localVars, opVars, bounds, history, remoteVars
<1>1. /\ run.op # None /\ run.answer = "calling" /\ maker'[k] = o /\ UNCHANGED <<op, step, cred>>
  BY ProviderDoes
<1>2. PICK a \in {"ok", "unknown"} : Moved(run.pc, run.old, k, a) /\ (a = "ok" => late' = late)
  BY ProviderDoes
<1>3. op[o].cand = 0
  BY <1>1 DEF References, Uncreated
<1>4. step[o][Creation] = "running"
  <2>1. Step = Creation
    BY DEF Step, Creation, Control, Answers
  <2> QED BY <1>1, <2>1 DEF Control, Calling, Calls
<1>5. NoRow(k) /\ ~InLate(k)
  BY FreshIsNew DEF NoRow, InLate
<1>6. \A c \in Rows' : cred'[c].key # k
  BY <1>1, <1>5 DEF NoRow, Rows
<1>7. CASE a = "unknown"
  BY <1>1, <1>2, <1>3, <1>4, <1>6, <1>7 DEF Orphan, NoRow, Moved, Unsure
<1>8. CASE a = "ok"
  <2>1. late' = late /\ run'.op = o /\ run'.pc = "credential.create" /\ run'.answer = "ok" /\ run'.secret = k
    BY <1>2, <1>8 DEF Moved
  <2> QED BY <1>1, <1>3, <1>5, <1>6, <2>1 DEF Arriving, NoRow, InLate
<1> QED BY <1>1, <1>2, <1>7, <1>8 DEF Moved

(* Who made an app password is not forgotten. *)
LEMMA MakerKept ==
  ASSUME NoneIsNoOp, IMAPIsProtocol, LimitsAreNat, LocalTypes, OpTypes, RemoteTypes, Control, References, Secrets, Creations, Next, NEW k \in Keys
  PROVE  maker'[k] = maker[k] \/ (k = fresh /\ maker[k] = None /\ Provider /\ run.pc = "credential.create" /\ maker'[k] = run.op)
<1> USE NoneIsNoOp, IMAPIsProtocol, LimitsAreNat DEF vars, localVars, opVars, bounds, history, remoteVars
<1>0. maker[fresh] = None
  BY FreshIsNew DEF AppPassword
<1>1. ASSUME KeysSame PROVE maker'[k] = maker[k] \/ (k = fresh /\ maker[k] = None /\ Provider /\ run.pc = "credential.create" /\ maker'[k] = run.op)
  BY <1>1 DEF KeysSame
<1>2. ASSUME NEW o \in Ops, NEW kd \in Kinds, Queue(o, kd) PROVE maker'[k] = maker[k] \/ (k = fresh /\ maker[k] = None /\ Provider /\ run.pc = "credential.create" /\ maker'[k] = run.op)
  <2>1. QueueKeys BY <1>2, QueueKeysHold
  <2> QED BY <2>1 DEF QueueKeys
<1>3. ASSUME Provider PROVE maker'[k] = maker[k] \/ (k = fresh /\ maker[k] = None /\ Provider /\ run.pc = "credential.create" /\ maker'[k] = run.op)
  BY <1>0, <1>3, ProviderDoes
<1>4. ASSUME Keep PROVE maker'[k] = maker[k] \/ (k = fresh /\ maker[k] = None /\ Provider /\ run.pc = "credential.create" /\ maker'[k] = run.op)
  <2>1. KeepKeys BY <1>4, KeepKeysHold
  <2> QED BY <2>1 DEF KeepKeys
<1>5. ASSUME Reserve \/ Password PROVE maker'[k] = maker[k] \/ (k = fresh /\ maker[k] = None /\ Provider /\ run.pc = "credential.create" /\ maker'[k] = run.op)
  <2>1. PasswordKeys BY <1>5, PasswordKeysHold
  <2> QED BY <2>1 DEF PasswordKeys
<1>6. ASSUME Land PROVE maker'[k] = maker[k] \/ (k = fresh /\ maker[k] = None /\ Provider /\ run.pc = "credential.create" /\ maker'[k] = run.op)
  BY <1>6, LandDoes
<1>7. ASSUME Foreign PROVE maker'[k] = maker[k] \/ (k = fresh /\ maker[k] = None /\ Provider /\ run.pc = "credential.create" /\ maker'[k] = run.op)
  BY <1>7, ForeignDoes
<1>8. ASSUME EntersRow PROVE maker'[k] = maker[k] \/ (k = fresh /\ maker[k] = None /\ Provider /\ run.pc = "credential.create" /\ maker'[k] = run.op)
  <2>1. EnteredKeys BY <1>8, EnteredKeysHold
  <2> QED BY <2>1 DEF EnteredKeys
<1>9. ASSUME Unregister PROVE maker'[k] = maker[k] \/ (k = fresh /\ maker[k] = None /\ Provider /\ run.pc = "credential.create" /\ maker'[k] = run.op)
  BY <1>9, UnregisterDoes
<1> QED BY <1>1, <1>2, <1>3, <1>4, <1>5, <1>6, <1>7, <1>8, <1>9, KeysKept DEF KeysMove

(* Every app password that was made is accounted for. *)
LEMMA MadeStep ==
  ASSUME NoneIsNoOp, IMAPIsProtocol, LimitsAreNat, LocalTypes, OpTypes, RemoteTypes, Control, References, Secrets, Creations, Revocations, Next
  PROVE  Made'
<1> SUFFICES ASSUME NEW k \in Keys, NEW o \in Ops, maker'[k] = o
             PROVE  Orphan(k, o)' \/ Arriving(k, o)' \/ Unread(k, o)' \/ Stored(k, o)'
  BY DEF Made
<1>1. CASE maker[k] = o
  <2>1. Orphan(k, o) \/ Arriving(k, o) \/ Unread(k, o) \/ Stored(k, o)
    BY <1>1 DEF Creations, Made
  <2> QED BY <1>1, <2>1, OrphanStays, ArrivingMoves, UnreadMoves, StoredStays
<1>2. CASE maker[k] # o
  <2>1. k = fresh /\ Provider /\ run.pc = "credential.create" /\ run.op = o
    BY <1>2, MakerKept
  <2> QED BY <2>1, ProviderMakes
<1> QED BY <1>1, <1>2

(* What was returned is new. *)
LEMMA ReturnedMoves ==
  ASSUME NoneIsNoOp, IMAPIsProtocol, LimitsAreNat, LocalTypes, OpTypes, RemoteTypes, Control, References, Secrets, Creations, Next, NEW o \in Ops, run'.op = o, run'.pc = "credential.create", run'.answer = "ok", op'[o].cand = 0
  PROVE  \E k \in Keys : run'.secret = k /\ maker'[k] = o /\ Arriving(k, o)'
<1> USE NoneIsNoOp, IMAPIsProtocol, LimitsAreNat DEF vars, localVars, opVars, bounds, history, remoteVars
<1>0. run'.op = o /\ run'.pc = "credential.create" /\ run'.answer = "ok" /\ op'[o].cand = 0
  OBVIOUS
<1>a. CASE run.op = o /\ run.pc = "credential.create" /\ run.answer = "ok" /\ op[o].cand = 0
  <2>1. PICK k \in Keys : k = run.secret /\ maker[k] = o /\ Arriving(k, o)
    BY <1>a, NoneIsNoOp DEF Creations, Returned
  <2>2. Orphan(k, o)' \/ Arriving(k, o)' \/ Unread(k, o)'
    BY <2>1, ArrivingMoves
  <2>3. Arriving(k, o)'
    BY <1>0, <2>2 DEF Orphan, Unread
  <2>4. maker'[k] = o
    BY <2>1, MakerKept, NoneIsNoOp
  <2> QED BY <2>3, <2>4 DEF Arriving
<1>b. run.op = o => op[o].status = "running" /\ run.op # None
  BY Running, NoneIsNoOp
<1>1. CASE AtRest(o)
  BY <1>0, <1>1, <1>a DEF AtRest
<1>2. CASE Elsewhere(o)
  BY <1>0, <1>2 DEF Elsewhere
<1>3. CASE Proceeds(o)
  <2>1. CASE run.op = o /\ Begin
    BY <1>0, <1>b, <2>1, BeginDoes DEF Moved, Stops, Concluded, Idle
  <2>2. CASE run.op = o /\ Provider
    <3>1. run.pc = "credential.create"
      BY <1>0, <2>2, ProviderDoes DEF Moved
    <3>2. PICK k \in Keys : k = fresh
      BY FreshIsNew
    <3> QED BY <1>0, <2>2, <3>1, <3>2, ProviderMakes
  <2>3. CASE run.op = o /\ Refused
    BY <1>0, <1>b, <2>3, RefusedDoes DEF Moved, Stops, Concluded, Idle
  <2>4. CASE run.op = o /\ Keep
    <3>1. cred' = cred \/ run' = run
      BY <2>4, KeepDoes
    <3> QED BY <1>0, <1>a, <2>4, KeepDoes DEF Moved
  <2>5. CASE run.op = o /\ Record
    BY <1>0, <1>b, <2>5, RecordDoes DEF Moved, Stops, Concluded, Idle
  <2>6. CASE run.op = o /\ GiveUp
    BY <1>0, <1>b, <2>6, GiveUpDoes DEF Moved, Stops, Concluded, Idle
  <2>7. CASE run.op = o /\ Interrupt
    BY <1>0, <1>b, <2>7, InterruptDoes DEF Moved, Stops, Concluded, Idle
  <2> QED BY <1>3, <2>1, <2>2, <2>3, <2>4, <2>5, <2>6, <2>7 DEF Proceeds
<1>4. CASE Handled(o)
  <2>1. ASSUME NEW kd \in Kinds, Queue(o, kd) PROVE \E k \in Keys : run'.secret = k /\ maker'[k] = o /\ Arriving(k, o)'
    BY <1>0, <1>b, <2>1, QueueDoes
  <2>2. CASE Execute(o)
    BY <1>0, <1>b, <2>2, ExecuteDoes
  <2>3. CASE ConfirmExternal(o)
    BY <1>0, <1>b, <2>3, ConfirmExternalDoes
  <2>4. CASE ReconcileStep(o)
    BY <1>0, <1>b, <2>4, ReconcileStepDoes
  <2>5. CASE Reconcile(o)
    BY <1>0, <1>b, <2>5, ReconcileDoes
  <2>6. CASE Retry(o)
    BY <1>0, <1>b, <2>6, RetryDoes
  <2>7. CASE Cancel(o)
    BY <1>0, <1>b, <2>7, CancelDoes
  <2>8. CASE Report(o)
    BY <1>0, <1>b, <2>8, ReportDoes
  <2>9. CASE ClaimSecret(o)
    <3>1. run' = run /\ op'[o].cand = op[o].cand
      BY <2>9, ClaimSecretDoes DEF Became
    <3> QED BY <1>0, <1>a, <3>1
  <2>10. CASE Expire(o)
    <3>1. run' = run /\ op'[o].cand = op[o].cand
      BY <2>10, ExpireDoes DEF Became
    <3> QED BY <1>0, <1>a, <3>1
  <2> QED BY <1>4, <2>1, <2>2, <2>3, <2>4, <2>5, <2>6, <2>7, <2>8, <2>9, <2>10 DEF Handled
<1> QED BY <1>1, <1>2, <1>3, <1>4, CreationMoves

(* So what is returned is known to be its operation's. *)
LEMMA ReturnedStep ==
  ASSUME NoneIsNoOp, IMAPIsProtocol, LimitsAreNat, LocalTypes, OpTypes, RemoteTypes, Control, References, Secrets, Creations, Next
  PROVE  Returned'
<1>1. run' \in RunRow
  BY OpTypesStep DEF OpTypes
<1>2. SUFFICES ASSUME run'.op # None, run'.pc = "credential.create", run'.answer = "ok", op'[run'.op].cand = 0
               PROVE  run'.secret \in Keys /\ maker'[run'.secret] = run'.op /\ Arriving(run.secret, run.op)'
  BY DEF Returned
<1>3. PICK o \in Ops : o = run'.op
  BY <1>1, <1>2 DEF RunRow
<1>4. PICK k \in Keys : run'.secret = k /\ maker'[k] = o /\ Arriving(k, o)'
  BY <1>2, <1>3, ReturnedMoves
<1> QED BY <1>3, <1>4 DEF Arriving, InLate, NoRow

(* What is created late is unheard of. *)
LEMMA LateCreationsStep ==
  ASSUME NoneIsNoOp, IMAPIsProtocol, LimitsAreNat, LocalTypes, OpTypes, RemoteTypes, Control, References, Secrets, Creations, Next
  PROVE  LateCreations'
<1> SUFFICES ASSUME NEW call \in late', call.name = "credential.create"
             PROVE  maker'[call.key] = call.op /\ Orphan(call.key, call.op)'
  BY DEF LateCreations
<1>1. CASE call \in late
  <2>1. PICK k \in Keys, o \in Ops : k = call.key /\ o = call.op
    BY <1>1, LateKey
  <2>2. maker[k] = o /\ Orphan(k, o)
    BY <1>1, <2>1 DEF Creations, LateCreations
  <2>3. maker'[k] = o /\ Orphan(k, o)'
    BY <2>2, MakerKept, OrphanStays, NoneIsNoOp
  <2> QED BY <2>1, <2>3
<1>2. CASE Provider /\ run.op # None /\ run.pc \in Calls /\ call = Call /\ call \notin late
  <2>1. PICK o \in Ops : o = run.op /\ o = call.op
    BY <1>2, CallKey
  <2>2. run.pc = "credential.create" /\ call.key = fresh
    BY <1>2, CallKey
  <2>3. PICK k \in Keys : k = fresh
    BY FreshIsNew
  <2>4. \/ maker'[k] = o /\ Orphan(k, o)'
        \/ late' = late
    BY <1>2, <2>1, <2>2, <2>3, ProviderMakes
  <2>5. k = call.key
    BY <2>2, <2>3
  <2> QED BY <1>2, <2>1, <2>4, <2>5
<1> QED BY <1>1, <1>2, LateGrows

(* Together. *)
LEMMA CreationsStep ==
  ASSUME NoneIsNoOp, IMAPIsProtocol, LimitsAreNat, LocalTypes, OpTypes, RemoteTypes, Control, References, Secrets, Creations, Revocations, Next
  PROVE  Creations'
BY MadeStep, ReturnedStep, LateCreationsStep DEF Creations

-----------------------------------------------------------------------------
(* App passwords that were revoked. *)

(* The secret of a row that was not accepted is not accepted again. *)
LEMMA RowAccepted ==
  ASSUME NoneIsNoOp, IMAPIsProtocol, LimitsAreNat, LocalTypes, OpTypes, RemoteTypes, Control, References, Secrets, Creations, Next, NEW c \in Rows, cred[c].source = "managed", cred[c].key \in account'.accepted
  PROVE  cred[c].key \in account.accepted
<1>1. PICK k \in Keys : k = cred[c].key
  <2>1. cred[c] \in RowOf /\ cred[c].key # 0
    BY DEF LocalTypes, Rows, Secrets, Below, RowsBelow
  <2> QED BY <2>1, LimitsAreNat DEF RowOf, Keys
<1>2. AppPassword(k)
  BY <1>1 DEF AppPassword
<1>3. ASSUME NEW call \in late, call.name = "credential.create", call.key = k PROVE FALSE
  <2>1. NoRow(k)
    BY <1>3 DEF Creations, LateCreations, Orphan
  <2> QED BY <1>1, <2>1 DEF NoRow
<1> QED BY <1>1, <1>2, <1>3, AcceptedComes

(* What is deleted does not come back before that is recorded. *)
LEMMA DeletedStep ==
  ASSUME NoneIsNoOp, IMAPIsProtocol, LimitsAreNat, LocalTypes, OpTypes, RemoteTypes, Control, References, Secrets, Creations, Revocations, Next
  PROVE  Deleted'
<1> USE NoneIsNoOp, IMAPIsProtocol, LimitsAreNat DEF vars, localVars, opVars, bounds, history, remoteVars
<1>1. ASSUME NEW o \in Ops, NEW k \in Kinds, Queue(o, k) PROVE Deleted'
  <2>1. PICK r \in Requests(k) : r \in Request /\ Became(o, r, "queued", 0, 0, 0, 0, FALSE)
    BY <1>1, QueueDoes
  <2>2. /\ op[o].status = "none" /\ (\A p \in Ops : op[p].status \notin Live) /\ UNCHANGED <<run, step>>
    BY <1>1, QueueDoes
  <2>8. UNCHANGED <<run, cred, account>> /\ (run.op # None => run.op \in Ops /\ op'[run.op].request = op[run.op].request)
    BY <2>1, <2>2, <1>1, QueueDoes DEF Became, Turned, Ended, Dropped, Marked, Moved, Stops, Concluded, OpTypes, Live,
       Control, Executing, RunRow
  <2> QED BY <2>8 DEF Revocations, Deleted, Kind, Rows
<1>2. ASSUME NEW o \in Ops, Execute(o) PROVE Deleted'
  BY <1>2, ExecuteDoes DEF Deleted
<1>3. ASSUME NEW o \in Ops, ConfirmExternal(o) PROVE Deleted'
  <2>1. op[o].status = "needs_action" /\ run' = run
    BY <1>3, ConfirmExternalDoes
  <2>2. run.op = None
    BY <2>1, Running DEF Control, OneLive, IsLive, Live
  <2> QED BY <2>1, <2>2 DEF Deleted
<1>4. ASSUME NEW o \in Ops, Reconcile(o) PROVE Deleted'
  <2>8. UNCHANGED <<run, cred, account>> /\ (run.op # None => run.op \in Ops /\ op'[run.op].request = op[run.op].request)
    BY <1>4, ReconcileDoes DEF Became, Turned, Ended, Dropped, Marked, Moved, Stops, Concluded, OpTypes, Live, Control,
       Executing, RunRow
  <2> QED BY <2>8 DEF Revocations, Deleted, Kind, Rows
<1>5. ASSUME NEW o \in Ops, Retry(o) PROVE Deleted'
  <2>8. UNCHANGED <<run, cred, account>> /\ (run.op # None => run.op \in Ops /\ op'[run.op].request = op[run.op].request)
    BY <1>5, RetryDoes DEF Became, Turned, Ended, Dropped, Marked, Moved, Stops, Concluded, OpTypes, Live, Control, Executing,
       RunRow
  <2> QED BY <2>8 DEF Revocations, Deleted, Kind, Rows
<1>6. ASSUME NEW o \in Ops, Cancel(o) PROVE Deleted'
  <2>8. UNCHANGED <<run, cred, account>> /\ (run.op # None => run.op \in Ops /\ op'[run.op].request = op[run.op].request)
    BY <1>6, CancelDoes DEF Became, Turned, Ended, Dropped, Marked, Moved, Stops, Concluded, OpTypes, Live, Control,
       Executing, RunRow
  <2> QED BY <2>8 DEF Revocations, Deleted, Kind, Rows
<1>7. ASSUME NEW o \in Ops, Report(o) PROVE Deleted'
  <2>8. UNCHANGED <<run, cred, account>> /\ (run.op # None => run.op \in Ops /\ op'[run.op].request = op[run.op].request)
    BY <1>7, ReportDoes DEF Became, Turned, Ended, Dropped, Marked, Moved, Stops, Concluded, OpTypes, Live, Control,
       Executing, RunRow
  <2> QED BY <2>8 DEF Revocations, Deleted, Kind, Rows
<1>8. ASSUME NEW o \in Ops, ClaimSecret(o) PROVE Deleted'
  <2>8. UNCHANGED <<run, cred, account>> /\ (run.op # None => run.op \in Ops /\ op'[run.op].request = op[run.op].request)
    BY <1>8, ClaimSecretDoes DEF Became, Turned, Ended, Dropped, Marked, Moved, Stops, Concluded, OpTypes, Live, Control,
       Executing, RunRow
  <2> QED BY <2>8 DEF Revocations, Deleted, Kind, Rows
<1>9. ASSUME NEW o \in Ops, Expire(o) PROVE Deleted'
  <2>8. UNCHANGED <<run, cred, account>> /\ (run.op # None => run.op \in Ops /\ op'[run.op].request = op[run.op].request)
    BY <1>9, ExpireDoes DEF Became, Turned, Ended, Dropped, Marked, Moved, Stops, Concluded, OpTypes, Live, Control,
       Executing, RunRow
  <2> QED BY <2>8 DEF Revocations, Deleted, Kind, Rows
<1>10. ASSUME Failure PROVE Deleted'
  BY <1>10, FailureDoes DEF Deleted, Stops, Idle, Concluded
<1>11. ASSUME Start PROVE Deleted'
  BY <1>11, StartDoes DEF Deleted, Moved, First
<1>12. ASSUME Complete PROVE Deleted'
  BY <1>12, CompleteDoes DEF Deleted, Stops, Idle
<1>13. ASSUME Begin PROVE Deleted'
  BY <1>13, BeginDoes DEF Deleted, Moved, Concluded, Stops, Idle, After, Calls
<1>14. ASSUME Provider PROVE Deleted'
  BY <1>14, ProviderDoes DEF Deleted, Moved, Calls
<1>15. ASSUME Refused PROVE Deleted'
  BY <1>15, RefusedDoes DEF Deleted, Moved, Calls
<1>16. ASSUME Keep PROVE Deleted'
  BY <1>16, KeepDoes DEF Deleted, Moved, Calls
<1>17. ASSUME Record PROVE Deleted'
  BY <1>17, RecordDoes DEF Deleted, Moved, After, Calls
<1>18. ASSUME GiveUp PROVE Deleted'
  BY <1>18, GiveUpDoes DEF Deleted, Stops, Idle, Concluded
<1>19. ASSUME Reserve PROVE Deleted'
  BY <1>19, ReserveDoes DEF Deleted, Moved
<1>20. ASSUME Confirm PROVE Deleted'
  BY <1>20, ConfirmDoes DEF Deleted, Moved
<1>21. ASSUME Candidate PROVE Deleted'
  <2>1. Kind(run.op) # "mailbox.deleteRemote"
    BY <1>21, CandidateDoes DEF Control, OnPath, Kind, Transactional
  <2>2. run'.op = run.op /\ op' = op
    BY <1>21, CandidateDoes DEF Moved
  <2> QED BY <2>1, <2>2 DEF Deleted, Kind
<1>22. ASSUME Verify PROVE Deleted'
  BY <1>22, VerifyDoes DEF Deleted, Moved
<1>23. ASSUME Activate PROVE Deleted'
  BY <1>23, ActivateDoes DEF Deleted, Moved
<1>24. ASSUME Revoke PROVE Deleted'
  <2>1. Kind(run.op) # "mailbox.deleteRemote"
    BY <1>24, RevokeDoes DEF Control, OnPath, Kind, Transactional
  <2>2. run'.op = run.op /\ op' = op
    BY <1>24, RevokeDoes DEF Moved
  <2> QED BY <2>1, <2>2 DEF Deleted, Kind
<1>25. ASSUME Revoked PROVE Deleted'
  BY <1>25, RevokedDoes DEF Deleted, Moved
<1>26. ASSUME Password PROVE Deleted'
  BY <1>26, PasswordDoes DEF Deleted, Moved
<1>27. ASSUME Claim PROVE Deleted'
  BY <1>27, ClaimDoes DEF Deleted, Moved
<1>28. ASSUME Validate PROVE Deleted'
  <2>1. Kind(run.op) # "mailbox.deleteRemote"
    BY <1>28, ValidateDoes DEF Control, OnPath, Kind, Transactional
  <2>2. run'.op = run.op /\ op' = op
    BY <1>28, ValidateDoes DEF Moved
  <2> QED BY <2>1, <2>2 DEF Deleted, Kind
<1>29. ASSUME Gone PROVE Deleted'
  <2>1. CASE account.exists
    BY <2>1, <1>29, GoneDoes DEF Deleted, Concluded, Stops, Idle
  <2>2. CASE ~account.exists
    <3>1. account.accepted = {} /\ account' = account
      BY <2>2, <1>29, GoneDoes DEF Secrets, Balance
    <3> QED BY <3>1 DEF Deleted
  <2> QED BY <2>1, <2>2
<1>30. ASSUME External PROVE Deleted'
  BY <1>30, ExternalDoes DEF Deleted, Stops, Idle
<1>31. ASSUME Check PROVE Deleted'
  <2>1. Kind(run.op) # "mailbox.deleteRemote"
    BY <1>31, CheckDoes DEF Control, OnPath, Kind, Transactional
  <2>2. run'.op = run.op /\ op' = op
    BY <1>31, CheckDoes DEF Moved
  <2> QED BY <2>1, <2>2 DEF Deleted, Kind
<1>32. ASSUME SaveEntered PROVE Deleted'
  <2>1. Kind(run.op) # "mailbox.deleteRemote"
    BY <1>32, SaveEnteredDoes DEF Control, OnPath, Kind, Transactional
  <2>2. run'.op = run.op /\ op' = op
    BY <1>32, SaveEnteredDoes DEF Moved
  <2> QED BY <2>1, <2>2 DEF Deleted, Kind
<1>33. ASSUME Attach PROVE Deleted'
  BY <1>33, AttachDoes DEF Deleted, Moved
<1>34. ASSUME UpdateEndpoints PROVE Deleted'
  BY <1>34, UpdateEndpointsDoes DEF Deleted, Stops, Idle
<1>35. ASSUME Reactivate PROVE Deleted'
  BY <1>35, ReactivateDoes DEF Deleted, Moved
<1>36. ASSUME ConfigureConnection PROVE Deleted'
  BY <1>36, ConfigureConnectionDoes DEF Deleted, Stops, Idle
<1>37. ASSUME Commit PROVE Deleted'
  BY <1>37, CommitDoes DEF Deleted, Moved, Stops, Idle
<1>38. ASSUME Interrupt PROVE Deleted'
  BY <1>38, InterruptDoes DEF Deleted, Stops, Idle
<1>39. ASSUME Land PROVE Deleted'
  <2>1. UNCHANGED <<op, run, cred>>
    BY <1>39, LandDoes
  <2> QED BY <2>1, RowAccepted DEF Revocations, Deleted, Kind, Rows
<1>40. ASSUME Unregister PROVE Deleted'
  BY <1>40, UnregisterDoes DEF Deleted, Rows
<1>41. ASSUME Foreign PROVE Deleted'
  <2>1. UNCHANGED <<op, run, cred>>
    BY <1>41, ForeignDoes
  <2> QED BY <2>1, RowAccepted DEF Revocations, Deleted, Kind, Rows
<1>42. UNCHANGED <<op, run, cred, account>> => Deleted'
  BY DEF Revocations, Deleted, Kind, Rows
<1>43. ASSUME NEW o \in Ops, ReconcileStep(o) PROVE UNCHANGED <<op, run, cred, account>>
  BY <1>43, ReconcileStepDoes
<1>44. ASSUME Switch PROVE UNCHANGED <<op, run, cred, account>>
  BY <1>44, SwitchDoes
<1>45. ASSUME Suspend PROVE UNCHANGED <<op, run, cred, account>>
  BY <1>45, SuspendDoes
<1> QED
  BY Failures, <1>1, <1>2, <1>3, <1>4, <1>5, <1>6, <1>7, <1>8, <1>9, <1>10, <1>11, <1>12, <1>13, <1>14, <1>15, <1>16, <1>17,
     <1>18, <1>19, <1>20, <1>21, <1>22, <1>23, <1>24, <1>25, <1>26, <1>27, <1>28, <1>29, <1>30, <1>31, <1>32, <1>33, <1>34,
     <1>35, <1>36, <1>37, <1>38, <1>39, <1>40, <1>41, <1>42, <1>43, <1>44, <1>45 DEF Next, Execution

(* What is shown as revoked is refused and stays so. *)
LEMMA RevokedStep ==
  ASSUME NoneIsNoOp, IMAPIsProtocol, LimitsAreNat, LocalTypes, OpTypes, RemoteTypes, Control, References, Secrets, Creations, Revocations, Next
  PROVE  RevokedIsRefused' /\ RevokedAreManaged'
<1> USE NoneIsNoOp, IMAPIsProtocol, LimitsAreNat DEF vars, localVars, opVars, bounds, history, remoteVars
<1>a. \A d \in Rows : cred[d].state = "revoked" => cred[d].source = "managed" /\ ~cred[d].secret /\ cred[d].key \notin account.accepted
  BY DEF Revocations, RevokedIsRefused, RevokedAreManaged, Accepted
<1>1. ASSUME NEW o \in Ops, ConfirmExternal(o) PROVE (RevokedIsRefused' /\ RevokedAreManaged')
  <2>0. SUFFICES ASSUME NEW c \in Rows', cred'[c].state = "revoked" PROVE cred'[c].source = "managed" /\ ~cred'[c].secret /\ cred'[c].key \notin account'.accepted
    BY DEF RevokedIsRefused, RevokedAreManaged, Rows, Accepted
  <2> QED BY <1>a, <2>0, <1>1, RowsDisused, ConfirmExternalDoes DEF SameRows
<1>2. ASSUME Provider PROVE (RevokedIsRefused' /\ RevokedAreManaged')
  <2>0. SUFFICES ASSUME NEW c \in Rows', cred'[c].state = "revoked" PROVE cred'[c].source = "managed" /\ ~cred'[c].secret /\ cred'[c].key \notin account'.accepted
    BY DEF RevokedIsRefused, RevokedAreManaged, Rows, Accepted
  <2>1. cred' = cred /\ c \in Rows
    BY <2>0, <1>2, ProviderDoes DEF Rows
  <2> QED BY <1>a, <2>0, <2>1, RowAccepted
<1>3. ASSUME Keep PROVE (RevokedIsRefused' /\ RevokedAreManaged')
  <2>0. SUFFICES ASSUME NEW c \in Rows', cred'[c].state = "revoked" PROVE cred'[c].source = "managed" /\ ~cred'[c].secret /\ cred'[c].key \notin account'.accepted
    BY DEF RevokedIsRefused, RevokedAreManaged, Rows, Accepted
  <2> QED BY <1>a, <2>0, <1>3, KeepDoes DEF Adds, Rows
<1>4. ASSUME Activate PROVE (RevokedIsRefused' /\ RevokedAreManaged')
  <2>0. SUFFICES ASSUME NEW c \in Rows', cred'[c].state = "revoked" PROVE cred'[c].source = "managed" /\ ~cred'[c].secret /\ cred'[c].key \notin account'.accepted
    BY DEF RevokedIsRefused, RevokedAreManaged, Rows, Accepted
  <2> QED BY <1>a, <2>0, <1>4, ActivateDoes DEF SameRows, ActivatedState, Rows
<1>5. ASSUME Revoked PROVE (RevokedIsRefused' /\ RevokedAreManaged')
  <2>0. SUFFICES ASSUME NEW c \in Rows', cred'[c].state = "revoked" PROVE cred'[c].source = "managed" /\ ~cred'[c].secret /\ cred'[c].key \notin account'.accepted
    BY DEF RevokedIsRefused, RevokedAreManaged, Rows, Accepted
  <2> QED BY <1>a, <2>0, <1>5, RevokedDoes DEF SameRows, Refuses, Accepted, OfState, Rows
<1>6. ASSUME SaveEntered PROVE (RevokedIsRefused' /\ RevokedAreManaged')
  <2>0. SUFFICES ASSUME NEW c \in Rows', cred'[c].state = "revoked" PROVE cred'[c].source = "managed" /\ ~cred'[c].secret /\ cred'[c].key \notin account'.accepted
    BY DEF RevokedIsRefused, RevokedAreManaged, Rows, Accepted
  <2>1. c \in Rows /\ cred'[c] = cred[c] /\ account' = account
    BY <2>0, <1>6, RowsEntered, SaveEnteredDoes DEF Adds, Rows, EnteredRow
  <2> QED BY <1>a, <2>0, <2>1
<1>7. ASSUME Attach PROVE (RevokedIsRefused' /\ RevokedAreManaged')
  <2>0. SUFFICES ASSUME NEW c \in Rows', cred'[c].state = "revoked" PROVE cred'[c].source = "managed" /\ ~cred'[c].secret /\ cred'[c].key \notin account'.accepted
    BY DEF RevokedIsRefused, RevokedAreManaged, Rows, Accepted
  <2>1. c \in Rows /\ cred'[c] = cred[c] /\ account' = account
    BY <2>0, <1>7, RowsEntered, AttachDoes DEF Adds, Rows, EnteredRow
  <2> QED BY <1>a, <2>0, <2>1
<1>8. ASSUME UpdateEndpoints PROVE (RevokedIsRefused' /\ RevokedAreManaged')
  <2>0. SUFFICES ASSUME NEW c \in Rows', cred'[c].state = "revoked" PROVE cred'[c].source = "managed" /\ ~cred'[c].secret /\ cred'[c].key \notin account'.accepted
    BY DEF RevokedIsRefused, RevokedAreManaged, Rows, Accepted
  <2>1. c \in Rows
    BY <2>0, <1>8, RowsUpdated DEF EnteredRow
  <2>2. cred'[c].source = cred[c].source /\ cred'[c].key = cred[c].key /\ cred'[c].secret = cred[c].secret /\ (cred'[c] = cred[c] \/ cred'[c].state = "retired")
    BY <2>1, <1>8, RowsUpdated
  <2> QED BY <1>a, <2>0, <2>1, <2>2, <1>8, UpdateEndpointsDoes
<1>9. ASSUME Commit PROVE (RevokedIsRefused' /\ RevokedAreManaged')
  <2>0. SUFFICES ASSUME NEW c \in Rows', cred'[c].state = "revoked" PROVE cred'[c].source = "managed" /\ ~cred'[c].secret /\ cred'[c].key \notin account'.accepted
    BY DEF RevokedIsRefused, RevokedAreManaged, Rows, Accepted
  <2>1. CASE Kind(run.op) # "mailbox.deleteRemote"
    BY <1>a, <2>0, <2>1, <1>9, RowsForgotten, CommitDoes DEF Rows
  <2>2. CASE Kind(run.op) = "mailbox.deleteRemote"
    <3>1. c \in Rows /\ cred'[c].source = cred[c].source /\ cred'[c].key = cred[c].key
      BY <2>0, <1>9, RowsForgotten DEF SameRows
    <3>2. cred[c].source = "managed" /\ ~cred'[c].secret
      <4>1. cred[c] \in RowOf
        BY <3>1 DEF LocalTypes, Rows
      <4>2. cred[c].source # "entered"
        BY <2>0, <2>2, <3>1, <1>9, RowsForgotten
      <4> QED BY <2>2, <3>1, <4>1, <4>2, <1>9, RowsForgotten DEF RowOf
    <3>3. cred[c].key \notin account.accepted
      BY <2>2, <3>1, <3>2, <1>9, CommitDoes DEF Revocations, Deleted
    <3> QED BY <3>1, <3>2, <3>3, <1>9, CommitDoes
  <2> QED BY <2>1, <2>2
<1>10. ASSUME Land PROVE (RevokedIsRefused' /\ RevokedAreManaged')
  <2>0. SUFFICES ASSUME NEW c \in Rows', cred'[c].state = "revoked" PROVE cred'[c].source = "managed" /\ ~cred'[c].secret /\ cred'[c].key \notin account'.accepted
    BY DEF RevokedIsRefused, RevokedAreManaged, Rows, Accepted
  <2>1. cred' = cred /\ c \in Rows
    BY <2>0, <1>10, LandDoes DEF Rows
  <2> QED BY <1>a, <2>0, <2>1, RowAccepted
<1>11. ASSUME Unregister PROVE (RevokedIsRefused' /\ RevokedAreManaged')
  BY <1>11, UnregisterDoes DEF RevokedIsRefused, RevokedAreManaged, Rows
<1>12. ASSUME Foreign PROVE (RevokedIsRefused' /\ RevokedAreManaged')
  <2>0. SUFFICES ASSUME NEW c \in Rows', cred'[c].state = "revoked" PROVE cred'[c].source = "managed" /\ ~cred'[c].secret /\ cred'[c].key \notin account'.accepted
    BY DEF RevokedIsRefused, RevokedAreManaged, Rows, Accepted
  <2>1. cred' = cred /\ c \in Rows
    BY <2>0, <1>12, ForeignDoes DEF Rows
  <2> QED BY <1>a, <2>0, <2>1, RowAccepted
<1>13. UNCHANGED <<cred, account>> => (RevokedIsRefused' /\ RevokedAreManaged')
  BY DEF Revocations, RevokedIsRefused, RevokedAreManaged, Rows, Accepted
<1>14. ASSUME NEW o \in Ops, NEW k \in Kinds, Queue(o, k) PROVE UNCHANGED <<cred, account>>
  BY <1>14, QueueDoes
<1>15. ASSUME NEW o \in Ops, Execute(o) PROVE UNCHANGED <<cred, account>>
  BY <1>15, ExecuteDoes
<1>16. ASSUME NEW o \in Ops, ReconcileStep(o) PROVE UNCHANGED <<cred, account>>
  BY <1>16, ReconcileStepDoes
<1>17. ASSUME NEW o \in Ops, Reconcile(o) PROVE UNCHANGED <<cred, account>>
  BY <1>17, ReconcileDoes
<1>18. ASSUME NEW o \in Ops, Retry(o) PROVE UNCHANGED <<cred, account>>
  BY <1>18, RetryDoes
<1>19. ASSUME NEW o \in Ops, Cancel(o) PROVE UNCHANGED <<cred, account>>
  BY <1>19, CancelDoes
<1>20. ASSUME NEW o \in Ops, Report(o) PROVE UNCHANGED <<cred, account>>
  BY <1>20, ReportDoes
<1>21. ASSUME NEW o \in Ops, ClaimSecret(o) PROVE UNCHANGED <<cred, account>>
  BY <1>21, ClaimSecretDoes
<1>22. ASSUME NEW o \in Ops, Expire(o) PROVE UNCHANGED <<cred, account>>
  BY <1>22, ExpireDoes
<1>23. ASSUME Failure PROVE UNCHANGED <<cred, account>>
  BY <1>23, FailureDoes
<1>24. ASSUME Start PROVE UNCHANGED <<cred, account>>
  BY <1>24, StartDoes
<1>25. ASSUME Complete PROVE UNCHANGED <<cred, account>>
  BY <1>25, CompleteDoes
<1>26. ASSUME Begin PROVE UNCHANGED <<cred, account>>
  BY <1>26, BeginDoes
<1>27. ASSUME Refused PROVE UNCHANGED <<cred, account>>
  BY <1>27, RefusedDoes
<1>28. ASSUME Record PROVE UNCHANGED <<cred, account>>
  BY <1>28, RecordDoes
<1>29. ASSUME GiveUp PROVE UNCHANGED <<cred, account>>
  BY <1>29, GiveUpDoes
<1>30. ASSUME Reserve PROVE UNCHANGED <<cred, account>>
  BY <1>30, ReserveDoes
<1>31. ASSUME Confirm PROVE UNCHANGED <<cred, account>>
  BY <1>31, ConfirmDoes
<1>32. ASSUME Candidate PROVE UNCHANGED <<cred, account>>
  BY <1>32, CandidateDoes
<1>33. ASSUME Verify PROVE UNCHANGED <<cred, account>>
  BY <1>33, VerifyDoes
<1>34. ASSUME Revoke PROVE UNCHANGED <<cred, account>>
  BY <1>34, RevokeDoes
<1>35. ASSUME Password PROVE UNCHANGED <<cred, account>>
  BY <1>35, PasswordDoes
<1>36. ASSUME Claim PROVE UNCHANGED <<cred, account>>
  BY <1>36, ClaimDoes
<1>37. ASSUME Validate PROVE UNCHANGED <<cred, account>>
  BY <1>37, ValidateDoes
<1>38. ASSUME Gone PROVE UNCHANGED <<cred, account>>
  BY <1>38, GoneDoes
<1>39. ASSUME External PROVE UNCHANGED <<cred, account>>
  BY <1>39, ExternalDoes
<1>40. ASSUME Check PROVE UNCHANGED <<cred, account>>
  BY <1>40, CheckDoes
<1>41. ASSUME Reactivate PROVE UNCHANGED <<cred, account>>
  BY <1>41, ReactivateDoes
<1>42. ASSUME ConfigureConnection PROVE UNCHANGED <<cred, account>>
  BY <1>42, ConfigureConnectionDoes
<1>43. ASSUME Interrupt PROVE UNCHANGED <<cred, account>>
  BY <1>43, InterruptDoes
<1>44. ASSUME Switch PROVE UNCHANGED <<cred, account>>
  BY <1>44, SwitchDoes
<1>45. ASSUME Suspend PROVE UNCHANGED <<cred, account>>
  BY <1>45, SuspendDoes
<1> QED
  BY Failures, <1>1, <1>2, <1>3, <1>4, <1>5, <1>6, <1>7, <1>8, <1>9, <1>10, <1>11, <1>12, <1>13, <1>14, <1>15, <1>16, <1>17,
     <1>18, <1>19, <1>20, <1>21, <1>22, <1>23, <1>24, <1>25, <1>26, <1>27, <1>28, <1>29, <1>30, <1>31, <1>32, <1>33, <1>34,
     <1>35, <1>36, <1>37, <1>38, <1>39, <1>40, <1>41, <1>42, <1>43, <1>44, <1>45 DEF Next, Execution

(* Together. *)
LEMMA RevocationsStep ==
  ASSUME NoneIsNoOp, IMAPIsProtocol, LimitsAreNat, LocalTypes, OpTypes, RemoteTypes, Control, References, Secrets, Creations, Revocations, Next
  PROVE  Revocations'
BY DeletedStep, RevokedStep DEF Revocations

-----------------------------------------------------------------------------
(* Passwords that were set. *)

(* A password that is known stays known. *)
LEMMA KnownStays ==
  ASSUME NoneIsNoOp, IMAPIsProtocol, LimitsAreNat, LocalTypes, OpTypes, RemoteTypes, Control, References, Passwords, NEW u \in Ops, NEW w, w # 0, Known(u, w), Next
  PROVE  Known(u, w)'
<1> USE NoneIsNoOp, IMAPIsProtocol, LimitsAreNat DEF vars, localVars, opVars, bounds, history, remoteVars
<1>a. Known(u, w) /\ w # 0
  OBVIOUS
<1>1. ASSUME NEW o \in Ops, NEW k \in Kinds, Queue(o, k) PROVE Known(u, w)'
  <2>1. PICK r \in Requests(k) : r \in Request /\ Became(o, r, "queued", 0, 0, 0, 0, FALSE)
    BY <1>1, QueueDoes
  <2>2. /\ op[o].status = "none" /\ (\A p \in Ops : op[p].status \notin Live) /\ UNCHANGED <<run, step>>
    BY <1>1, QueueDoes
  <2>7. u # o => op'[u] = op[u]
    BY <2>1 DEF Turned, Ended, Dropped, Became
  <2> QED BY <1>a, <2>2, <2>7 DEF Known, Open, Kind, Live
<1>2. ASSUME NEW o \in Ops, Execute(o) PROVE Known(u, w)'
  <2>7. u # o => op'[u] = op[u]
    BY <1>2, ExecuteDoes DEF Turned, Ended, Dropped, Became
  <2>8. u = o => Known(u, w)'
    BY <1>a, <1>2, ExecuteDoes DEF Known, Open, Kind, Live, Turned, Ended, Dropped, Became
  <2> QED BY <1>a, <2>7, <2>8 DEF Known, Open, Kind, Live
<1>3. ASSUME NEW o \in Ops, ConfirmExternal(o) PROVE Known(u, w)'
  <2>7. u # o => op'[u] = op[u]
    BY <1>3, ConfirmExternalDoes DEF Turned, Ended, Dropped, Became
  <2>8. u = o => Known(u, w)'
    BY <1>a, <1>3, ConfirmExternalDoes DEF Known, Open, Kind, Live, Turned, Ended, Dropped, Became
  <2> QED BY <1>a, <2>7, <2>8 DEF Known, Open, Kind, Live
<1>4. ASSUME NEW o \in Ops, Reconcile(o) PROVE Known(u, w)'
  <2>7. u # o => op'[u] = op[u]
    BY <1>4, ReconcileDoes DEF Turned, Ended, Dropped, Became
  <2>8. u = o => Known(u, w)'
    BY <1>a, <1>4, ReconcileDoes DEF Known, Open, Kind, Live, Turned, Ended, Dropped, Became
  <2> QED BY <1>a, <2>7, <2>8 DEF Known, Open, Kind, Live
<1>5. ASSUME NEW o \in Ops, Retry(o) PROVE Known(u, w)'
  <2>7. u # o => op'[u] = op[u]
    BY <1>5, RetryDoes DEF Turned, Ended, Dropped, Became
  <2>8. u = o => Known(u, w)'
    BY <1>a, <1>5, RetryDoes DEF Known, Open, Kind, Live, Turned, Ended, Dropped, Became
  <2> QED BY <1>a, <2>7, <2>8 DEF Known, Open, Kind, Live
<1>6. ASSUME NEW o \in Ops, Cancel(o) PROVE Known(u, w)'
  <2>7. u # o => op'[u] = op[u]
    BY <1>6, CancelDoes DEF Turned, Ended, Dropped, Became
  <2>8. u = o => Known(u, w)'
    BY <1>a, <1>6, CancelDoes DEF Known, Open, Kind, Live, Turned, Ended, Dropped, Became
  <2> QED BY <1>a, <2>7, <2>8 DEF Known, Open, Kind, Live
<1>7. ASSUME NEW o \in Ops, Report(o) PROVE Known(u, w)'
  <2>7. u # o => op'[u] = op[u]
    BY <1>7, ReportDoes DEF Turned, Ended, Dropped, Became
  <2>8. u = o => Known(u, w)'
    BY <1>a, <1>7, ReportDoes DEF Known, Open, Kind, Live, Turned, Ended, Dropped, Became
  <2> QED BY <1>a, <2>7, <2>8 DEF Known, Open, Kind, Live
<1>8. ASSUME NEW o \in Ops, ClaimSecret(o) PROVE Known(u, w)'
  <2>7. u # o => op'[u] = op[u]
    BY <1>8, ClaimSecretDoes DEF Turned, Ended, Dropped, Became
  <2>8. u = o => Known(u, w)'
    BY <1>a, <1>8, ClaimSecretDoes DEF Known, Open, Kind, Live, Turned, Ended, Dropped, Became
  <2> QED BY <1>a, <2>7, <2>8 DEF Known, Open, Kind, Live
<1>9. ASSUME NEW o \in Ops, Expire(o) PROVE Known(u, w)'
  <2>7. u # o => op'[u] = op[u]
    BY <1>9, ExpireDoes DEF Turned, Ended, Dropped, Became
  <2>8. u = o => Known(u, w)'
    BY <1>a, <1>9, ExpireDoes DEF Known, Open, Kind, Live, Turned, Ended, Dropped, Became
  <2> QED BY <1>a, <2>7, <2>8 DEF Known, Open, Kind, Live
<1>10. ASSUME Failure PROVE Known(u, w)'
  <2>0. PICK q \in Ops : q = run.op /\ op[q].status = "running"
    BY <1>10, FailureDoes, Running
  <2>1. u # q => op'[u] = op[u]
    BY <2>0, <1>10, FailureDoes DEF Turned, Ended, Became, Concluded
  <2>2. u = q => Kind(q) = "mailbox.resetPassword" /\ op[q].private = w
    BY <1>a, <2>0 DEF Known
  <2>3. u = q => op'[q].status \in Live \cup {"failed"} /\ op'[q].request = op[q].request /\ op'[q].private = op[q].private
    BY <2>0, <1>10, FailureDoes DEF Turned, Ended, Became, Concluded, Live
  <2> QED BY <1>a, <2>1, <2>2, <2>3 DEF Known, Open, Kind, Live
<1>11. ASSUME Complete PROVE Known(u, w)'
  <2>0. PICK q \in Ops : q = run.op /\ op[q].status = "running"
    BY <1>11, CompleteDoes, Running
  <2>1. u # q => op'[u] = op[u]
    BY <2>0, <1>11, CompleteDoes DEF Turned, Ended, Became, Concluded
  <2>2. u = q => Kind(q) = "mailbox.resetPassword" /\ op[q].private = w
    BY <1>a, <2>0 DEF Known
  <2>3. Kind(q) # "mailbox.resetPassword"
    BY <2>0, <1>11, CompleteDoes DEF Control, OnPath, Kind, Additions, Transactional
  <2> QED BY <1>a, <2>1, <2>2, <2>3 DEF Known, Open, Kind, Live
<1>12. ASSUME Begin PROVE Known(u, w)'
  <2>0. PICK q \in Ops : q = run.op /\ op[q].status = "running"
    BY <1>12, BeginDoes, Running
  <2>1. u # q => op'[u] = op[u]
    BY <2>0, <1>12, BeginDoes DEF Turned, Ended, Became, Concluded
  <2>2. u = q => Kind(q) = "mailbox.resetPassword" /\ op[q].private = w
    BY <1>a, <2>0 DEF Known
  <2>3. u = q => op'[q].status \in Live \cup {"failed"} /\ op'[q].request = op[q].request /\ op'[q].private = op[q].private
    BY <2>0, <1>12, BeginDoes DEF Turned, Ended, Became, Concluded, Live
  <2> QED BY <1>a, <2>1, <2>2, <2>3 DEF Known, Open, Kind, Live
<1>13. ASSUME Keep PROVE Known(u, w)'
  <2>0. PICK q \in Ops : q = run.op /\ op[q].status = "running"
    BY <1>13, KeepDoes, Running
  <2>1. u # q => op'[u] = op[u]
    BY <2>0, <1>13, KeepDoes DEF Turned, Ended, Became, Concluded
  <2>2. u = q => Kind(q) = "mailbox.resetPassword" /\ op[q].private = w
    BY <1>a, <2>0 DEF Known
  <2>3. u = q => op'[q].status \in Live \cup {"failed"} /\ op'[q].request = op[q].request /\ op'[q].private = op[q].private
    BY <2>0, <1>13, KeepDoes DEF Turned, Ended, Became, Concluded, Live
  <2> QED BY <1>a, <2>1, <2>2, <2>3 DEF Known, Open, Kind, Live
<1>14. ASSUME GiveUp PROVE Known(u, w)'
  <2>0. PICK q \in Ops : q = run.op /\ op[q].status = "running"
    BY <1>14, GiveUpDoes, Running
  <2>1. u # q => op'[u] = op[u]
    BY <2>0, <1>14, GiveUpDoes DEF Turned, Ended, Became, Concluded
  <2>2. u = q => Kind(q) = "mailbox.resetPassword" /\ op[q].private = w
    BY <1>a, <2>0 DEF Known
  <2>3. u = q => op'[q].status \in Live \cup {"failed"} /\ op'[q].request = op[q].request /\ op'[q].private = op[q].private
    BY <2>0, <1>14, GiveUpDoes DEF Turned, Ended, Became, Concluded, Live
  <2> QED BY <1>a, <2>1, <2>2, <2>3 DEF Known, Open, Kind, Live
<1>15. ASSUME Reserve PROVE Known(u, w)'
  <2>0. PICK q \in Ops : q = run.op /\ op[q].status = "running"
    BY <1>15, ReserveDoes, Running
  <2>1. u # q => op'[u] = op[u]
    BY <2>0, <1>15, ReserveDoes DEF Turned, Ended, Became, Concluded
  <2>2. u = q => Kind(q) = "mailbox.resetPassword" /\ op[q].private = w
    BY <1>a, <2>0 DEF Known
  <2>3. Kind(q) # "mailbox.resetPassword"
    BY <2>0, <1>15, ReserveDoes DEF Control, OnPath, Kind, Additions, Transactional
  <2> QED BY <1>a, <2>1, <2>2, <2>3 DEF Known, Open, Kind, Live
<1>16. ASSUME Activate PROVE Known(u, w)'
  <2>0. PICK q \in Ops : q = run.op /\ op[q].status = "running"
    BY <1>16, ActivateDoes, Running
  <2>1. u # q => op'[u] = op[u]
    BY <2>0, <1>16, ActivateDoes DEF Turned, Ended, Became, Concluded
  <2>2. u = q => Kind(q) = "mailbox.resetPassword" /\ op[q].private = w
    BY <1>a, <2>0 DEF Known
  <2>3. Kind(q) # "mailbox.resetPassword"
    BY <2>0, <1>16, ActivateDoes DEF Control, OnPath, Kind, Additions, Transactional
  <2> QED BY <1>a, <2>1, <2>2, <2>3 DEF Known, Open, Kind, Live
<1>17. ASSUME Password PROVE Known(u, w)'
  <2>0. PICK q \in Ops : q = run.op /\ op[q].status = "running"
    BY <1>17, PasswordDoes, Running
  <2>1. u # q => op'[u] = op[u]
    BY <2>0, <1>17, PasswordDoes DEF Turned, Ended, Became, Concluded
  <2>2. u = q => Kind(q) = "mailbox.resetPassword" /\ op[q].private = w
    BY <1>a, <2>0 DEF Known
  <2>3. u = q => op' = op
    BY <1>a, <2>0, <2>2, <1>17, PasswordDoes
  <2> QED BY <1>a, <2>1, <2>3 DEF Known, Open, Kind, Live
<1>18. ASSUME Claim PROVE Known(u, w)'
  <2>0. PICK q \in Ops : q = run.op /\ op[q].status = "running"
    BY <1>18, ClaimDoes, Running
  <2>1. u # q => op'[u] = op[u]
    BY <2>0, <1>18, ClaimDoes DEF Turned, Ended, Became, Concluded
  <2>2. u = q => Kind(q) = "mailbox.resetPassword" /\ op[q].private = w
    BY <1>a, <2>0 DEF Known
  <2>3. u = q => op'[q].status \in Live \cup {"failed"} /\ op'[q].request = op[q].request /\ op'[q].private = op[q].private
    BY <2>0, <1>18, ClaimDoes DEF Turned, Ended, Became, Concluded, Live
  <2> QED BY <1>a, <2>1, <2>2, <2>3 DEF Known, Open, Kind, Live
<1>19. ASSUME Gone PROVE Known(u, w)'
  <2>0. PICK q \in Ops : q = run.op /\ op[q].status = "running"
    BY <1>19, GoneDoes, Running
  <2>1. u # q => op'[u] = op[u]
    BY <2>0, <1>19, GoneDoes DEF Turned, Ended, Became, Concluded
  <2>2. u = q => Kind(q) = "mailbox.resetPassword" /\ op[q].private = w
    BY <1>a, <2>0 DEF Known
  <2>3. Kind(q) # "mailbox.resetPassword"
    BY <2>0, <1>19, GoneDoes DEF Control, OnPath, Kind, Additions, Transactional
  <2> QED BY <1>a, <2>1, <2>2, <2>3 DEF Known, Open, Kind, Live
<1>20. ASSUME External PROVE Known(u, w)'
  <2>0. PICK q \in Ops : q = run.op /\ op[q].status = "running"
    BY <1>20, ExternalDoes, Running
  <2>1. u # q => op'[u] = op[u]
    BY <2>0, <1>20, ExternalDoes DEF Turned, Ended, Became, Concluded
  <2>2. u = q => Kind(q) = "mailbox.resetPassword" /\ op[q].private = w
    BY <1>a, <2>0 DEF Known
  <2>3. Kind(q) # "mailbox.resetPassword"
    BY <2>0, <1>20, ExternalDoes DEF Control, OnPath, Kind, Additions, Transactional
  <2> QED BY <1>a, <2>1, <2>2, <2>3 DEF Known, Open, Kind, Live
<1>21. ASSUME Attach PROVE Known(u, w)'
  <2>0. PICK q \in Ops : q = run.op /\ op[q].status = "running"
    BY <1>21, AttachDoes, Running
  <2>1. u # q => op'[u] = op[u]
    BY <2>0, <1>21, AttachDoes DEF Turned, Ended, Became, Concluded
  <2>2. u = q => Kind(q) = "mailbox.resetPassword" /\ op[q].private = w
    BY <1>a, <2>0 DEF Known
  <2>3. Kind(q) # "mailbox.resetPassword"
    BY <2>0, <1>21, AttachDoes DEF Control, OnPath, Kind, Additions, Transactional
  <2> QED BY <1>a, <2>1, <2>2, <2>3 DEF Known, Open, Kind, Live
<1>22. ASSUME UpdateEndpoints PROVE Known(u, w)'
  <2>0. PICK q \in Ops : q = run.op /\ op[q].status = "running"
    BY <1>22, UpdateEndpointsDoes, Running
  <2>1. u # q => op'[u] = op[u]
    BY <2>0, <1>22, UpdateEndpointsDoes DEF Turned, Ended, Became, Concluded
  <2>2. u = q => Kind(q) = "mailbox.resetPassword" /\ op[q].private = w
    BY <1>a, <2>0 DEF Known
  <2>3. Kind(q) # "mailbox.resetPassword"
    BY <2>0, <1>22, UpdateEndpointsDoes DEF Control, OnPath, Kind, Additions, Transactional
  <2> QED BY <1>a, <2>1, <2>2, <2>3 DEF Known, Open, Kind, Live
<1>23. ASSUME Reactivate PROVE Known(u, w)'
  <2>0. PICK q \in Ops : q = run.op /\ op[q].status = "running"
    BY <1>23, ReactivateDoes, Running
  <2>1. u # q => op'[u] = op[u]
    BY <2>0, <1>23, ReactivateDoes DEF Turned, Ended, Became, Concluded
  <2>2. u = q => Kind(q) = "mailbox.resetPassword" /\ op[q].private = w
    BY <1>a, <2>0 DEF Known
  <2>3. Kind(q) # "mailbox.resetPassword"
    BY <2>0, <1>23, ReactivateDoes DEF Control, OnPath, Kind, Additions, Transactional
  <2> QED BY <1>a, <2>1, <2>2, <2>3 DEF Known, Open, Kind, Live
<1>24. ASSUME ConfigureConnection PROVE Known(u, w)'
  <2>0. PICK q \in Ops : q = run.op /\ op[q].status = "running"
    BY <1>24, ConfigureConnectionDoes, Running
  <2>1. u # q => op'[u] = op[u]
    BY <2>0, <1>24, ConfigureConnectionDoes DEF Turned, Ended, Became, Concluded
  <2>2. u = q => Kind(q) = "mailbox.resetPassword" /\ op[q].private = w
    BY <1>a, <2>0 DEF Known
  <2>3. Kind(q) # "mailbox.resetPassword"
    BY <2>0, <1>24, ConfigureConnectionDoes DEF Control, OnPath, Kind, Additions, Transactional
  <2> QED BY <1>a, <2>1, <2>2, <2>3 DEF Known, Open, Kind, Live
<1>25. ASSUME Commit PROVE Known(u, w)'
  <2>0. PICK q \in Ops : q = run.op /\ op[q].status = "running"
    BY <1>25, CommitDoes, Running
  <2>1. u # q => op'[u] = op[u]
    BY <2>0, <1>25, CommitDoes DEF Turned, Ended, Became, Concluded
  <2>2. u = q => Kind(q) = "mailbox.resetPassword" /\ op[q].private = w
    BY <1>a, <2>0 DEF Known
  <2>3. CASE u = q
    <3>1. op'[q].status = "succeeded" /\ op'[q].claim = op[q].claim /\ op'[q].claimed = op[q].claimed /\ op'[q].expired = op[q].expired
      BY <2>0, <2>2, <2>3, <1>25, CommitDoes DEF Ended, Became
    <3>2. op[q].claim \in {0, w} /\ op[q].claimed \in {0, w} /\ (op[q].claim # 0 \/ op[q].claimed # 0 \/ op[q].expired)
      BY <2>0, <2>2, <2>3, <1>25, CommitDoes DEF Passwords, Resets, Open, Live
    <3> QED BY <2>3, <3>1, <3>2 DEF Known
  <2> QED BY <1>a, <2>1, <2>3 DEF Known, Open, Kind, Live
<1>26. ASSUME Interrupt PROVE Known(u, w)'
  <2>0. PICK q \in Ops : q = run.op /\ op[q].status = "running"
    BY <1>26, InterruptDoes, Running
  <2>1. u # q => op'[u] = op[u]
    BY <2>0, <1>26, InterruptDoes DEF Turned, Ended, Became, Concluded
  <2>2. u = q => Kind(q) = "mailbox.resetPassword" /\ op[q].private = w
    BY <1>a, <2>0 DEF Known
  <2>3. u = q => op'[q].status \in Live \cup {"failed"} /\ op'[q].request = op[q].request /\ op'[q].private = op[q].private
    BY <2>0, <1>26, InterruptDoes DEF Turned, Ended, Became, Concluded, Live
  <2> QED BY <1>a, <2>1, <2>2, <2>3 DEF Known, Open, Kind, Live
<1>27. UNCHANGED <<op>> => Known(u, w)'
  BY DEF Known, Open, Kind, Live
<1>28. ASSUME NEW o \in Ops, ReconcileStep(o) PROVE UNCHANGED <<op>>
  BY <1>28, ReconcileStepDoes
<1>29. ASSUME Start PROVE UNCHANGED <<op>>
  BY <1>29, StartDoes
<1>30. ASSUME Provider PROVE UNCHANGED <<op>>
  BY <1>30, ProviderDoes
<1>31. ASSUME Refused PROVE UNCHANGED <<op>>
  BY <1>31, RefusedDoes
<1>32. ASSUME Record PROVE UNCHANGED <<op>>
  BY <1>32, RecordDoes
<1>33. ASSUME Confirm PROVE UNCHANGED <<op>>
  BY <1>33, ConfirmDoes
<1>34. ASSUME Candidate PROVE UNCHANGED <<op>>
  BY <1>34, CandidateDoes
<1>35. ASSUME Verify PROVE UNCHANGED <<op>>
  BY <1>35, VerifyDoes
<1>36. ASSUME Revoke PROVE UNCHANGED <<op>>
  BY <1>36, RevokeDoes
<1>37. ASSUME Revoked PROVE UNCHANGED <<op>>
  BY <1>37, RevokedDoes
<1>38. ASSUME Validate PROVE UNCHANGED <<op>>
  BY <1>38, ValidateDoes
<1>39. ASSUME Check PROVE UNCHANGED <<op>>
  BY <1>39, CheckDoes
<1>40. ASSUME SaveEntered PROVE UNCHANGED <<op>>
  BY <1>40, SaveEnteredDoes
<1>41. ASSUME Land PROVE UNCHANGED <<op>>
  BY <1>41, LandDoes
<1>42. ASSUME Switch PROVE UNCHANGED <<op>>
  BY <1>42, SwitchDoes
<1>43. ASSUME Suspend PROVE UNCHANGED <<op>>
  BY <1>43, SuspendDoes
<1>44. ASSUME Unregister PROVE UNCHANGED <<op>>
  BY <1>44, UnregisterDoes
<1>45. ASSUME Foreign PROVE UNCHANGED <<op>>
  BY <1>45, ForeignDoes
<1> QED
  BY Failures, <1>1, <1>2, <1>3, <1>4, <1>5, <1>6, <1>7, <1>8, <1>9, <1>10, <1>11, <1>12, <1>13, <1>14, <1>15, <1>16, <1>17,
     <1>18, <1>19, <1>20, <1>21, <1>22, <1>23, <1>24, <1>25, <1>26, <1>27, <1>28, <1>29, <1>30, <1>31, <1>32, <1>33, <1>34,
     <1>35, <1>36, <1>37, <1>38, <1>39, <1>40, <1>41, <1>42, <1>43, <1>44, <1>45 DEF Next, Execution

(* A reset is committed after its password can be fetched. *)
LEMMA ResetsStep ==
  ASSUME NoneIsNoOp, IMAPIsProtocol, LimitsAreNat, LocalTypes, OpTypes, RemoteTypes, Control, References, Passwords, Next
  PROVE  Resets'
<1> USE NoneIsNoOp, IMAPIsProtocol, LimitsAreNat DEF vars, localVars, opVars, bounds, history, remoteVars
<1> SUFFICES ASSUME NEW u \in Ops, Open(u)', Kind(u)' = "mailbox.resetPassword"
             PROVE  {op'[u].claim, op'[u].claimed} \subseteq {0, op'[u].private}
         /\ (run'.op = u /\ run'.pc \in {"validate", "commit"} => op'[u].claim # 0 \/ op'[u].claimed # 0 \/ op'[u].expired)
  BY DEF Resets
<1>a. Open(u) /\ Kind(u) = "mailbox.resetPassword" => {op[u].claim, op[u].claimed} \subseteq {0, op[u].private}
         /\ (run.op = u /\ run.pc \in {"validate", "commit"} => op[u].claim # 0 \/ op[u].claimed # 0 \/ op[u].expired)
  BY DEF Passwords, Resets
<1>b. op'[u].status \in Live \cup {"failed"} /\ op'[u].request.kind = "mailbox.resetPassword"
  BY DEF Open, Kind
<1>c. (run.op = u => op[u].status = "running" /\ op[u].request.kind = Kind(u)) /\ run.op \in Ops \cup {None}
  BY DEF Control, Executing, Kind, OpTypes, RunRow
<1>o. op[u].status \in Live \cup {"failed"} /\ op[u].request.kind = "mailbox.resetPassword" => Open(u) /\ Kind(u) = "mailbox.resetPassword"
  BY DEF Open, Kind
<1>1. ASSUME NEW o \in Ops, NEW k \in Kinds, Queue(o, k) PROVE {op'[u].claim, op'[u].claimed} \subseteq {0, op'[u].private}
         /\ (run'.op = u /\ run'.pc \in {"validate", "commit"} => op'[u].claim # 0 \/ op'[u].claimed # 0 \/ op'[u].expired)
  <2>1. PICK r \in Requests(k) : r \in Request /\ Became(o, r, "queued", 0, 0, 0, 0, FALSE)
    BY <1>1, QueueDoes
  <2>2. /\ op[o].status = "none" /\ (\A p \in Ops : op[p].status \notin Live) /\ UNCHANGED <<run, step>>
    BY <1>1, QueueDoes
  <2>7. u # o => op'[u] = op[u]
    BY <2>1 DEF Turned, Ended, Dropped, Became
  <2>8. run' = run \/ (run'.op = o /\ run'.pc = "started")
    BY <1>1, QueueDoes
  <2>4. CASE u # o
    BY <1>a, <1>b, <1>o, <2>4, <2>7, <2>8
  <2>5. CASE u = o
    BY <1>c, <2>1, <2>2, <2>5, <2>8 DEF Became, Live
  <2> QED BY <2>4, <2>5
<1>2. ASSUME NEW o \in Ops, Execute(o) PROVE {op'[u].claim, op'[u].claimed} \subseteq {0, op'[u].private}
         /\ (run'.op = u /\ run'.pc \in {"validate", "commit"} => op'[u].claim # 0 \/ op'[u].claimed # 0 \/ op'[u].expired)
  <2>7. u # o => op'[u] = op[u]
    BY <1>2, ExecuteDoes DEF Turned, Ended, Dropped, Became
  <2>8. run' = run \/ (run'.op = o /\ run'.pc = "started")
    BY <1>2, ExecuteDoes
  <2>4. CASE u # o
    BY <1>a, <1>b, <1>o, <2>4, <2>7, <2>8
  <2>5. CASE u = o
    <3>1. op'[u].claim = op[u].claim /\ op'[u].claimed = op[u].claimed /\ op'[u].expired = op[u].expired /\ op'[u].private = op[u].private /\ op'[u].request = op[u].request /\ op[u].status \in Live \cup {"failed"} /\ op[u].status # "running"
      BY <2>5, <1>2, ExecuteDoes DEF Turned, Became, Live
    <3>2. run.op # u
      BY <1>c, <3>1
    <3> QED BY <1>a, <1>b, <1>o, <2>5, <2>8, <3>1, <3>2
  <2> QED BY <2>4, <2>5
<1>3. ASSUME NEW o \in Ops, ConfirmExternal(o) PROVE {op'[u].claim, op'[u].claimed} \subseteq {0, op'[u].private}
         /\ (run'.op = u /\ run'.pc \in {"validate", "commit"} => op'[u].claim # 0 \/ op'[u].claimed # 0 \/ op'[u].expired)
  <2>7. u # o => op'[u] = op[u]
    BY <1>3, ConfirmExternalDoes DEF Turned, Ended, Dropped, Became
  <2>8. run' = run \/ (run'.op = o /\ run'.pc = "started")
    BY <1>3, ConfirmExternalDoes
  <2>4. CASE u # o
    BY <1>a, <1>b, <1>o, <2>4, <2>7, <2>8
  <2>5. CASE u = o
    BY <1>b, <2>5, <1>3, ConfirmExternalDoes DEF Ended, Dropped, Became, Live
  <2> QED BY <2>4, <2>5
<1>4. ASSUME NEW o \in Ops, Reconcile(o) PROVE {op'[u].claim, op'[u].claimed} \subseteq {0, op'[u].private}
         /\ (run'.op = u /\ run'.pc \in {"validate", "commit"} => op'[u].claim # 0 \/ op'[u].claimed # 0 \/ op'[u].expired)
  <2>7. u # o => op'[u] = op[u]
    BY <1>4, ReconcileDoes DEF Turned, Ended, Dropped, Became
  <2>8. run' = run \/ (run'.op = o /\ run'.pc = "started")
    BY <1>4, ReconcileDoes
  <2>4. CASE u # o
    BY <1>a, <1>b, <1>o, <2>4, <2>7, <2>8
  <2>5. CASE u = o
    <3>1. op'[u].claim = op[u].claim /\ op'[u].claimed = op[u].claimed /\ op'[u].expired = op[u].expired /\ op'[u].private = op[u].private /\ op'[u].request = op[u].request /\ op[u].status \in Live \cup {"failed"} /\ op[u].status # "running"
      BY <2>5, <1>4, ReconcileDoes DEF Turned, Became, Live
    <3>2. run.op # u
      BY <1>c, <3>1
    <3> QED BY <1>a, <1>b, <1>o, <2>5, <2>8, <3>1, <3>2
  <2> QED BY <2>4, <2>5
<1>5. ASSUME NEW o \in Ops, Retry(o) PROVE {op'[u].claim, op'[u].claimed} \subseteq {0, op'[u].private}
         /\ (run'.op = u /\ run'.pc \in {"validate", "commit"} => op'[u].claim # 0 \/ op'[u].claimed # 0 \/ op'[u].expired)
  <2>7. u # o => op'[u] = op[u]
    BY <1>5, RetryDoes DEF Turned, Ended, Dropped, Became
  <2>8. run' = run \/ (run'.op = o /\ run'.pc = "started")
    BY <1>5, RetryDoes
  <2>4. CASE u # o
    BY <1>a, <1>b, <1>o, <2>4, <2>7, <2>8
  <2>5. CASE u = o
    <3>1. op'[u].claim = op[u].claim /\ op'[u].claimed = op[u].claimed /\ op'[u].expired = op[u].expired /\ op'[u].private = op[u].private /\ op'[u].request = op[u].request /\ op[u].status \in Live \cup {"failed"} /\ op[u].status # "running"
      BY <2>5, <1>5, RetryDoes DEF Turned, Became, Live
    <3>2. run.op # u
      BY <1>c, <3>1
    <3> QED BY <1>a, <1>b, <1>o, <2>5, <2>8, <3>1, <3>2
  <2> QED BY <2>4, <2>5
<1>6. ASSUME NEW o \in Ops, Cancel(o) PROVE {op'[u].claim, op'[u].claimed} \subseteq {0, op'[u].private}
         /\ (run'.op = u /\ run'.pc \in {"validate", "commit"} => op'[u].claim # 0 \/ op'[u].claimed # 0 \/ op'[u].expired)
  <2>7. u # o => op'[u] = op[u]
    BY <1>6, CancelDoes DEF Turned, Ended, Dropped, Became
  <2>8. run' = run \/ (run'.op = o /\ run'.pc = "started")
    BY <1>6, CancelDoes
  <2>4. CASE u # o
    BY <1>a, <1>b, <1>o, <2>4, <2>7, <2>8
  <2>5. CASE u = o
    BY <1>b, <2>5, <1>6, CancelDoes DEF Ended, Dropped, Became, Live
  <2> QED BY <2>4, <2>5
<1>7. ASSUME NEW o \in Ops, Report(o) PROVE {op'[u].claim, op'[u].claimed} \subseteq {0, op'[u].private}
         /\ (run'.op = u /\ run'.pc \in {"validate", "commit"} => op'[u].claim # 0 \/ op'[u].claimed # 0 \/ op'[u].expired)
  <2>7. u # o => op'[u] = op[u]
    BY <1>7, ReportDoes DEF Turned, Ended, Dropped, Became
  <2>8. run' = run \/ (run'.op = o /\ run'.pc = "started")
    BY <1>7, ReportDoes
  <2>4. CASE u # o
    BY <1>a, <1>b, <1>o, <2>4, <2>7, <2>8
  <2>5. CASE u = o
    BY <1>b, <2>5, <1>7, ReportDoes DEF Ended, Dropped, Became, Live
  <2> QED BY <2>4, <2>5
<1>8. ASSUME NEW o \in Ops, ClaimSecret(o) PROVE {op'[u].claim, op'[u].claimed} \subseteq {0, op'[u].private}
         /\ (run'.op = u /\ run'.pc \in {"validate", "commit"} => op'[u].claim # 0 \/ op'[u].claimed # 0 \/ op'[u].expired)
  <2>7. u # o => op'[u] = op[u]
    BY <1>8, ClaimSecretDoes DEF Turned, Ended, Dropped, Became
  <2>8. run' = run \/ (run'.op = o /\ run'.pc = "started")
    BY <1>8, ClaimSecretDoes
  <2>4. CASE u # o
    BY <1>a, <1>b, <1>o, <2>4, <2>7, <2>8
  <2>5. CASE u = o
    <3>1. op'[u].claim = 0 /\ op'[u].claimed = op[u].claim /\ op[u].claim # 0 /\ op'[u].private = op[u].private /\ op'[u].status = op[u].status /\ op'[u].request = op[u].request
      BY <2>5, <1>8, ClaimSecretDoes DEF Became
    <3> QED BY <1>a, <1>b, <1>o, <3>1
  <2> QED BY <2>4, <2>5
<1>9. ASSUME NEW o \in Ops, Expire(o) PROVE {op'[u].claim, op'[u].claimed} \subseteq {0, op'[u].private}
         /\ (run'.op = u /\ run'.pc \in {"validate", "commit"} => op'[u].claim # 0 \/ op'[u].claimed # 0 \/ op'[u].expired)
  <2>7. u # o => op'[u] = op[u]
    BY <1>9, ExpireDoes DEF Turned, Ended, Dropped, Became
  <2>8. run' = run \/ (run'.op = o /\ run'.pc = "started")
    BY <1>9, ExpireDoes
  <2>4. CASE u # o
    BY <1>a, <1>b, <1>o, <2>4, <2>7, <2>8
  <2>5. CASE u = o
    <3>1. op'[u].claim = 0 /\ op'[u].claimed = op[u].claimed /\ op'[u].expired /\ op'[u].private = op[u].private /\ op'[u].status = op[u].status /\ op'[u].request = op[u].request
      BY <2>5, <1>9, ExpireDoes DEF Became
    <3> QED BY <1>a, <1>b, <1>o, <3>1
  <2> QED BY <2>4, <2>5
<1>10. ASSUME Failure PROVE {op'[u].claim, op'[u].claimed} \subseteq {0, op'[u].private}
         /\ (run'.op = u /\ run'.pc \in {"validate", "commit"} => op'[u].claim # 0 \/ op'[u].claimed # 0 \/ op'[u].expired)
  <2>0. PICK q \in Ops : q = run.op /\ op[q].status = "running" /\ run.op # None
    BY <1>10, FailureDoes, Running
  <2>1. u # q => op'[u] = op[u]
    BY <2>0, <1>10, FailureDoes DEF Turned, Ended, Became, Concluded
  <2>2. u = q => op[u].request.kind = "mailbox.resetPassword"
    BY <1>b, <2>0, <1>10, FailureDoes DEF Turned, Ended, Became, Concluded
  <2>3. run'.op \in {q, None} /\ None # q
    BY <2>0, <1>10, FailureDoes DEF Moved, Stops, Idle, Concluded
  <2>4. CASE u # q
    BY <1>a, <1>b, <1>o, <2>1, <2>3, <2>4
  <2>5. CASE u = q
    <3>1. op'[u].claim = op[u].claim /\ op'[u].claimed = op[u].claimed /\ op'[u].expired = op[u].expired /\ op'[u].private = op[u].private /\ Open(u) /\ Kind(u) = "mailbox.resetPassword"
      BY <1>o, <2>0, <2>2, <2>5, <1>10, FailureDoes DEF Turned, Ended, Became, Concluded, Live
    <3>2. run'.op = u => run'.pc \notin {"validate", "commit"}
      BY <2>0, <2>5, <1>10, FailureDoes DEF Moved, Stops, Idle, Concluded, First, After, Calls
    <3> QED BY <1>a, <2>0, <2>5, <3>1, <3>2
  <2> QED BY <2>4, <2>5
<1>11. ASSUME Start PROVE {op'[u].claim, op'[u].claimed} \subseteq {0, op'[u].private}
         /\ (run'.op = u /\ run'.pc \in {"validate", "commit"} => op'[u].claim # 0 \/ op'[u].claimed # 0 \/ op'[u].expired)
  <2>0. PICK q \in Ops : q = run.op /\ op[q].status = "running" /\ run.op # None
    BY <1>11, StartDoes, Running
  <2>1. u # q => op'[u] = op[u]
    BY <2>0, <1>11, StartDoes
  <2>2. u = q => op[u].request.kind = "mailbox.resetPassword"
    BY <1>b, <2>0, <1>11, StartDoes
  <2>3. run'.op \in {q, None} /\ None # q
    BY <2>0, <1>11, StartDoes DEF Moved, Stops, Idle, Concluded
  <2>4. CASE u # q
    BY <1>a, <1>b, <1>o, <2>1, <2>3, <2>4
  <2>5. CASE u = q
    <3>1. op'[u].claim = op[u].claim /\ op'[u].claimed = op[u].claimed /\ op'[u].expired = op[u].expired /\ op'[u].private = op[u].private /\ Open(u) /\ Kind(u) = "mailbox.resetPassword"
      BY <1>o, <2>0, <2>2, <2>5, <1>11, StartDoes DEF  Live
    <3>2. run'.op = u => run'.pc \notin {"validate", "commit"}
      BY <2>0, <2>5, <1>11, StartDoes DEF Moved, Stops, Idle, Concluded, First, After, Calls
    <3> QED BY <1>a, <2>0, <2>5, <3>1, <3>2
  <2> QED BY <2>4, <2>5
<1>12. ASSUME Complete PROVE {op'[u].claim, op'[u].claimed} \subseteq {0, op'[u].private}
         /\ (run'.op = u /\ run'.pc \in {"validate", "commit"} => op'[u].claim # 0 \/ op'[u].claimed # 0 \/ op'[u].expired)
  <2>0. PICK q \in Ops : q = run.op /\ op[q].status = "running" /\ run.op # None
    BY <1>12, CompleteDoes, Running
  <2>1. u # q => op'[u] = op[u]
    BY <2>0, <1>12, CompleteDoes DEF Turned, Ended, Became, Concluded
  <2>3. run'.op \in {q, None} /\ None # q
    BY <2>0, <1>12, CompleteDoes DEF Moved, Stops, Idle, Concluded
  <2>4. CASE u # q
    BY <1>a, <1>b, <1>o, <2>1, <2>3, <2>4
  <2>5. CASE u = q
    BY <1>b, <2>0, <2>5, <1>12, CompleteDoes DEF Turned, Ended, Became, Live, Kind
  <2> QED BY <2>4, <2>5
<1>13. ASSUME Begin PROVE {op'[u].claim, op'[u].claimed} \subseteq {0, op'[u].private}
         /\ (run'.op = u /\ run'.pc \in {"validate", "commit"} => op'[u].claim # 0 \/ op'[u].claimed # 0 \/ op'[u].expired)
  <2>0. PICK q \in Ops : q = run.op /\ op[q].status = "running" /\ run.op # None
    BY <1>13, BeginDoes, Running
  <2>1. u # q => op'[u] = op[u]
    BY <2>0, <1>13, BeginDoes DEF Turned, Ended, Became, Concluded
  <2>2. u = q => op[u].request.kind = "mailbox.resetPassword"
    BY <1>b, <2>0, <1>13, BeginDoes DEF Turned, Ended, Became, Concluded
  <2>3. run'.op \in {q, None} /\ None # q
    BY <2>0, <1>13, BeginDoes DEF Moved, Stops, Idle, Concluded
  <2>4. CASE u # q
    BY <1>a, <1>b, <1>o, <2>1, <2>3, <2>4
  <2>5. CASE u = q
    <3>1. op'[u].claim = op[u].claim /\ op'[u].claimed = op[u].claimed /\ op'[u].expired = op[u].expired /\ op'[u].private = op[u].private /\ Open(u) /\ Kind(u) = "mailbox.resetPassword"
      BY <1>o, <2>0, <2>2, <2>5, <1>13, BeginDoes DEF Turned, Ended, Became, Concluded, Live
    <3>2. run'.op = u => run'.pc \notin {"validate", "commit"}
      BY <2>0, <2>5, <1>13, BeginDoes DEF Moved, Stops, Idle, Concluded, First, After, Calls
    <3> QED BY <1>a, <2>0, <2>5, <3>1, <3>2
  <2> QED BY <2>4, <2>5
<1>14. ASSUME Provider PROVE {op'[u].claim, op'[u].claimed} \subseteq {0, op'[u].private}
         /\ (run'.op = u /\ run'.pc \in {"validate", "commit"} => op'[u].claim # 0 \/ op'[u].claimed # 0 \/ op'[u].expired)
  <2>0. PICK q \in Ops : q = run.op /\ op[q].status = "running" /\ run.op # None
    BY <1>14, ProviderDoes, Running
  <2>1. u # q => op'[u] = op[u]
    BY <2>0, <1>14, ProviderDoes
  <2>2. u = q => op[u].request.kind = "mailbox.resetPassword"
    BY <1>b, <2>0, <1>14, ProviderDoes
  <2>3. run'.op \in {q, None} /\ None # q
    BY <2>0, <1>14, ProviderDoes DEF Moved, Stops, Idle, Concluded
  <2>4. CASE u # q
    BY <1>a, <1>b, <1>o, <2>1, <2>3, <2>4
  <2>5. CASE u = q
    <3>1. op'[u].claim = op[u].claim /\ op'[u].claimed = op[u].claimed /\ op'[u].expired = op[u].expired /\ op'[u].private = op[u].private /\ Open(u) /\ Kind(u) = "mailbox.resetPassword"
      BY <1>o, <2>0, <2>2, <2>5, <1>14, ProviderDoes DEF  Live
    <3>2. run'.op = u => run'.pc \notin {"validate", "commit"}
      BY <2>0, <2>5, <1>14, ProviderDoes DEF Moved, Stops, Idle, Concluded, First, After, Calls
    <3> QED BY <1>a, <2>0, <2>5, <3>1, <3>2
  <2> QED BY <2>4, <2>5
<1>15. ASSUME Refused PROVE {op'[u].claim, op'[u].claimed} \subseteq {0, op'[u].private}
         /\ (run'.op = u /\ run'.pc \in {"validate", "commit"} => op'[u].claim # 0 \/ op'[u].claimed # 0 \/ op'[u].expired)
  <2>0. PICK q \in Ops : q = run.op /\ op[q].status = "running" /\ run.op # None
    BY <1>15, RefusedDoes, Running
  <2>1. u # q => op'[u] = op[u]
    BY <2>0, <1>15, RefusedDoes
  <2>2. u = q => op[u].request.kind = "mailbox.resetPassword"
    BY <1>b, <2>0, <1>15, RefusedDoes
  <2>3. run'.op \in {q, None} /\ None # q
    BY <2>0, <1>15, RefusedDoes DEF Moved, Stops, Idle, Concluded
  <2>4. CASE u # q
    BY <1>a, <1>b, <1>o, <2>1, <2>3, <2>4
  <2>5. CASE u = q
    <3>1. op'[u].claim = op[u].claim /\ op'[u].claimed = op[u].claimed /\ op'[u].expired = op[u].expired /\ op'[u].private = op[u].private /\ Open(u) /\ Kind(u) = "mailbox.resetPassword"
      BY <1>o, <2>0, <2>2, <2>5, <1>15, RefusedDoes DEF  Live
    <3>2. run'.op = u => run'.pc \notin {"validate", "commit"}
      BY <2>0, <2>5, <1>15, RefusedDoes DEF Moved, Stops, Idle, Concluded, First, After, Calls
    <3> QED BY <1>a, <2>0, <2>5, <3>1, <3>2
  <2> QED BY <2>4, <2>5
<1>16. ASSUME Keep PROVE {op'[u].claim, op'[u].claimed} \subseteq {0, op'[u].private}
         /\ (run'.op = u /\ run'.pc \in {"validate", "commit"} => op'[u].claim # 0 \/ op'[u].claimed # 0 \/ op'[u].expired)
  <2>0. PICK q \in Ops : q = run.op /\ op[q].status = "running" /\ run.op # None
    BY <1>16, KeepDoes, Running
  <2>1. u # q => op'[u] = op[u]
    BY <2>0, <1>16, KeepDoes DEF Turned, Ended, Became, Concluded
  <2>2. u = q => op[u].request.kind = "mailbox.resetPassword"
    BY <1>b, <2>0, <1>16, KeepDoes DEF Turned, Ended, Became, Concluded
  <2>3. run'.op \in {q, None} /\ None # q
    BY <2>0, <1>16, KeepDoes DEF Moved, Stops, Idle, Concluded
  <2>4. CASE u # q
    BY <1>a, <1>b, <1>o, <2>1, <2>3, <2>4
  <2>5. CASE u = q
    BY <2>0, <2>2, <2>5, <1>16, KeepDoes DEF Control, OnPath, Kind, Additions, Transactional
  <2> QED BY <2>4, <2>5
<1>17. ASSUME Record PROVE {op'[u].claim, op'[u].claimed} \subseteq {0, op'[u].private}
         /\ (run'.op = u /\ run'.pc \in {"validate", "commit"} => op'[u].claim # 0 \/ op'[u].claimed # 0 \/ op'[u].expired)
  <2>0. PICK q \in Ops : q = run.op /\ op[q].status = "running" /\ run.op # None
    BY <1>17, RecordDoes, Running
  <2>1. u # q => op'[u] = op[u]
    BY <2>0, <1>17, RecordDoes
  <2>2. u = q => op[u].request.kind = "mailbox.resetPassword"
    BY <1>b, <2>0, <1>17, RecordDoes
  <2>3. run'.op \in {q, None} /\ None # q
    BY <2>0, <1>17, RecordDoes DEF Moved, Stops, Idle, Concluded
  <2>4. CASE u # q
    BY <1>a, <1>b, <1>o, <2>1, <2>3, <2>4
  <2>5. CASE u = q
    <3>1. op'[u].claim = op[u].claim /\ op'[u].claimed = op[u].claimed /\ op'[u].expired = op[u].expired /\ op'[u].private = op[u].private /\ Open(u) /\ Kind(u) = "mailbox.resetPassword"
      BY <1>o, <2>0, <2>2, <2>5, <1>17, RecordDoes DEF  Live
    <3>2. run'.op = u => run'.pc \notin {"validate", "commit"}
      BY <2>0, <2>5, <1>17, RecordDoes DEF Moved, Stops, Idle, Concluded, First, After, Calls
    <3> QED BY <1>a, <2>0, <2>5, <3>1, <3>2
  <2> QED BY <2>4, <2>5
<1>18. ASSUME GiveUp PROVE {op'[u].claim, op'[u].claimed} \subseteq {0, op'[u].private}
         /\ (run'.op = u /\ run'.pc \in {"validate", "commit"} => op'[u].claim # 0 \/ op'[u].claimed # 0 \/ op'[u].expired)
  <2>0. PICK q \in Ops : q = run.op /\ op[q].status = "running" /\ run.op # None
    BY <1>18, GiveUpDoes, Running
  <2>1. u # q => op'[u] = op[u]
    BY <2>0, <1>18, GiveUpDoes DEF Turned, Ended, Became, Concluded
  <2>2. u = q => op[u].request.kind = "mailbox.resetPassword"
    BY <1>b, <2>0, <1>18, GiveUpDoes DEF Turned, Ended, Became, Concluded
  <2>3. run'.op \in {q, None} /\ None # q
    BY <2>0, <1>18, GiveUpDoes DEF Moved, Stops, Idle, Concluded
  <2>4. CASE u # q
    BY <1>a, <1>b, <1>o, <2>1, <2>3, <2>4
  <2>5. CASE u = q
    <3>1. op'[u].claim = op[u].claim /\ op'[u].claimed = op[u].claimed /\ op'[u].expired = op[u].expired /\ op'[u].private = op[u].private /\ Open(u) /\ Kind(u) = "mailbox.resetPassword"
      BY <1>o, <2>0, <2>2, <2>5, <1>18, GiveUpDoes DEF Turned, Ended, Became, Concluded, Live
    <3>2. run'.op = u => run'.pc \notin {"validate", "commit"}
      BY <2>0, <2>5, <1>18, GiveUpDoes DEF Moved, Stops, Idle, Concluded, First, After, Calls
    <3> QED BY <1>a, <2>0, <2>5, <3>1, <3>2
  <2> QED BY <2>4, <2>5
<1>19. ASSUME Reserve PROVE {op'[u].claim, op'[u].claimed} \subseteq {0, op'[u].private}
         /\ (run'.op = u /\ run'.pc \in {"validate", "commit"} => op'[u].claim # 0 \/ op'[u].claimed # 0 \/ op'[u].expired)
  <2>0. PICK q \in Ops : q = run.op /\ op[q].status = "running" /\ run.op # None
    BY <1>19, ReserveDoes, Running
  <2>1. u # q => op'[u] = op[u]
    BY <2>0, <1>19, ReserveDoes DEF Turned, Ended, Became, Concluded
  <2>2. u = q => op[u].request.kind = "mailbox.resetPassword"
    BY <1>b, <2>0, <1>19, ReserveDoes DEF Turned, Ended, Became, Concluded
  <2>3. run'.op \in {q, None} /\ None # q
    BY <2>0, <1>19, ReserveDoes DEF Moved, Stops, Idle, Concluded
  <2>4. CASE u # q
    BY <1>a, <1>b, <1>o, <2>1, <2>3, <2>4
  <2>5. CASE u = q
    BY <2>0, <2>2, <2>5, <1>19, ReserveDoes DEF Control, OnPath, Kind, Additions, Transactional
  <2> QED BY <2>4, <2>5
<1>20. ASSUME Confirm PROVE {op'[u].claim, op'[u].claimed} \subseteq {0, op'[u].private}
         /\ (run'.op = u /\ run'.pc \in {"validate", "commit"} => op'[u].claim # 0 \/ op'[u].claimed # 0 \/ op'[u].expired)
  <2>0. PICK q \in Ops : q = run.op /\ op[q].status = "running" /\ run.op # None
    BY <1>20, ConfirmDoes, Running
  <2>1. u # q => op'[u] = op[u]
    BY <2>0, <1>20, ConfirmDoes
  <2>2. u = q => op[u].request.kind = "mailbox.resetPassword"
    BY <1>b, <2>0, <1>20, ConfirmDoes
  <2>3. run'.op \in {q, None} /\ None # q
    BY <2>0, <1>20, ConfirmDoes DEF Moved, Stops, Idle, Concluded
  <2>4. CASE u # q
    BY <1>a, <1>b, <1>o, <2>1, <2>3, <2>4
  <2>5. CASE u = q
    BY <2>0, <2>2, <2>5, <1>20, ConfirmDoes DEF Control, OnPath, Kind, Additions, Transactional
  <2> QED BY <2>4, <2>5
<1>21. ASSUME Candidate PROVE {op'[u].claim, op'[u].claimed} \subseteq {0, op'[u].private}
         /\ (run'.op = u /\ run'.pc \in {"validate", "commit"} => op'[u].claim # 0 \/ op'[u].claimed # 0 \/ op'[u].expired)
  <2>0. PICK q \in Ops : q = run.op /\ op[q].status = "running" /\ run.op # None
    BY <1>21, CandidateDoes, Running
  <2>1. u # q => op'[u] = op[u]
    BY <2>0, <1>21, CandidateDoes
  <2>2. u = q => op[u].request.kind = "mailbox.resetPassword"
    BY <1>b, <2>0, <1>21, CandidateDoes
  <2>3. run'.op \in {q, None} /\ None # q
    BY <2>0, <1>21, CandidateDoes DEF Moved, Stops, Idle, Concluded
  <2>4. CASE u # q
    BY <1>a, <1>b, <1>o, <2>1, <2>3, <2>4
  <2>5. CASE u = q
    BY <2>0, <2>2, <2>5, <1>21, CandidateDoes DEF Control, OnPath, Kind, Additions, Transactional
  <2> QED BY <2>4, <2>5
<1>22. ASSUME Verify PROVE {op'[u].claim, op'[u].claimed} \subseteq {0, op'[u].private}
         /\ (run'.op = u /\ run'.pc \in {"validate", "commit"} => op'[u].claim # 0 \/ op'[u].claimed # 0 \/ op'[u].expired)
  <2>0. PICK q \in Ops : q = run.op /\ op[q].status = "running" /\ run.op # None
    BY <1>22, VerifyDoes, Running
  <2>1. u # q => op'[u] = op[u]
    BY <2>0, <1>22, VerifyDoes
  <2>2. u = q => op[u].request.kind = "mailbox.resetPassword"
    BY <1>b, <2>0, <1>22, VerifyDoes
  <2>3. run'.op \in {q, None} /\ None # q
    BY <2>0, <1>22, VerifyDoes DEF Moved, Stops, Idle, Concluded
  <2>4. CASE u # q
    BY <1>a, <1>b, <1>o, <2>1, <2>3, <2>4
  <2>5. CASE u = q
    BY <2>0, <2>2, <2>5, <1>22, VerifyDoes DEF Control, OnPath, Kind, Additions, Transactional
  <2> QED BY <2>4, <2>5
<1>23. ASSUME Activate PROVE {op'[u].claim, op'[u].claimed} \subseteq {0, op'[u].private}
         /\ (run'.op = u /\ run'.pc \in {"validate", "commit"} => op'[u].claim # 0 \/ op'[u].claimed # 0 \/ op'[u].expired)
  <2>0. PICK q \in Ops : q = run.op /\ op[q].status = "running" /\ run.op # None
    BY <1>23, ActivateDoes, Running
  <2>1. u # q => op'[u] = op[u]
    BY <2>0, <1>23, ActivateDoes DEF Turned, Ended, Became, Concluded
  <2>2. u = q => op[u].request.kind = "mailbox.resetPassword"
    BY <1>b, <2>0, <1>23, ActivateDoes DEF Turned, Ended, Became, Concluded
  <2>3. run'.op \in {q, None} /\ None # q
    BY <2>0, <1>23, ActivateDoes DEF Moved, Stops, Idle, Concluded
  <2>4. CASE u # q
    BY <1>a, <1>b, <1>o, <2>1, <2>3, <2>4
  <2>5. CASE u = q
    BY <2>0, <2>2, <2>5, <1>23, ActivateDoes DEF Control, OnPath, Kind, Additions, Transactional
  <2> QED BY <2>4, <2>5
<1>24. ASSUME Revoke PROVE {op'[u].claim, op'[u].claimed} \subseteq {0, op'[u].private}
         /\ (run'.op = u /\ run'.pc \in {"validate", "commit"} => op'[u].claim # 0 \/ op'[u].claimed # 0 \/ op'[u].expired)
  <2>0. PICK q \in Ops : q = run.op /\ op[q].status = "running" /\ run.op # None
    BY <1>24, RevokeDoes, Running
  <2>1. u # q => op'[u] = op[u]
    BY <2>0, <1>24, RevokeDoes
  <2>2. u = q => op[u].request.kind = "mailbox.resetPassword"
    BY <1>b, <2>0, <1>24, RevokeDoes
  <2>3. run'.op \in {q, None} /\ None # q
    BY <2>0, <1>24, RevokeDoes DEF Moved, Stops, Idle, Concluded
  <2>4. CASE u # q
    BY <1>a, <1>b, <1>o, <2>1, <2>3, <2>4
  <2>5. CASE u = q
    BY <2>0, <2>2, <2>5, <1>24, RevokeDoes DEF Control, OnPath, Kind, Additions, Transactional
  <2> QED BY <2>4, <2>5
<1>25. ASSUME Revoked PROVE {op'[u].claim, op'[u].claimed} \subseteq {0, op'[u].private}
         /\ (run'.op = u /\ run'.pc \in {"validate", "commit"} => op'[u].claim # 0 \/ op'[u].claimed # 0 \/ op'[u].expired)
  <2>0. PICK q \in Ops : q = run.op /\ op[q].status = "running" /\ run.op # None
    BY <1>25, RevokedDoes, Running
  <2>1. u # q => op'[u] = op[u]
    BY <2>0, <1>25, RevokedDoes
  <2>2. u = q => op[u].request.kind = "mailbox.resetPassword"
    BY <1>b, <2>0, <1>25, RevokedDoes
  <2>3. run'.op \in {q, None} /\ None # q
    BY <2>0, <1>25, RevokedDoes DEF Moved, Stops, Idle, Concluded
  <2>4. CASE u # q
    BY <1>a, <1>b, <1>o, <2>1, <2>3, <2>4
  <2>5. CASE u = q
    BY <2>0, <2>2, <2>5, <1>25, RevokedDoes DEF Control, OnPath, Kind, Additions, Transactional
  <2> QED BY <2>4, <2>5
<1>26. ASSUME Password PROVE {op'[u].claim, op'[u].claimed} \subseteq {0, op'[u].private}
         /\ (run'.op = u /\ run'.pc \in {"validate", "commit"} => op'[u].claim # 0 \/ op'[u].claimed # 0 \/ op'[u].expired)
  <2>0. PICK q \in Ops : q = run.op /\ op[q].status = "running" /\ run.op # None
    BY <1>26, PasswordDoes, Running
  <2>1. u # q => op'[u] = op[u]
    BY <2>0, <1>26, PasswordDoes DEF Turned, Ended, Became, Concluded
  <2>2. u = q => op[u].request.kind = "mailbox.resetPassword"
    BY <1>b, <2>0, <1>26, PasswordDoes DEF Turned, Ended, Became, Concluded
  <2>3. run'.op \in {q, None} /\ None # q
    BY <2>0, <1>26, PasswordDoes DEF Moved, Stops, Idle, Concluded
  <2>4. CASE u # q
    BY <1>a, <1>b, <1>o, <2>1, <2>3, <2>4
  <2>5. CASE u = q
    <3>1. Open(u) /\ Kind(u) = "mailbox.resetPassword" /\ run'.pc = "mailbox.resetPassword"
      BY <1>o, <2>0, <2>2, <2>5, <1>26, PasswordDoes DEF Live, Moved
    <3>2. op'[u].claim = op[u].claim /\ op'[u].claimed = op[u].claimed /\ (op'[u].private = op[u].private \/ op[u].private = 0)
      BY <2>0, <2>5, <1>26, PasswordDoes DEF Became
    <3> QED BY <1>a, <3>1, <3>2
  <2> QED BY <2>4, <2>5
<1>27. ASSUME Claim PROVE {op'[u].claim, op'[u].claimed} \subseteq {0, op'[u].private}
         /\ (run'.op = u /\ run'.pc \in {"validate", "commit"} => op'[u].claim # 0 \/ op'[u].claimed # 0 \/ op'[u].expired)
  <2>0. PICK q \in Ops : q = run.op /\ op[q].status = "running" /\ run.op # None
    BY <1>27, ClaimDoes, Running
  <2>1. u # q => op'[u] = op[u]
    BY <2>0, <1>27, ClaimDoes DEF Turned, Ended, Became, Concluded
  <2>2. u = q => op[u].request.kind = "mailbox.resetPassword"
    BY <1>b, <2>0, <1>27, ClaimDoes DEF Turned, Ended, Became, Concluded
  <2>3. run'.op \in {q, None} /\ None # q
    BY <2>0, <1>27, ClaimDoes DEF Moved, Stops, Idle, Concluded
  <2>4. CASE u # q
    BY <1>a, <1>b, <1>o, <2>1, <2>3, <2>4
  <2>5. CASE u = q
    <3>1. Open(u) /\ Kind(u) = "mailbox.resetPassword" /\ op[u].private # 0
      BY <1>o, <2>0, <2>2, <2>5, <1>27, ClaimDoes DEF References, PasswordAt, Live
    <3>2. op'[u].private = op[u].private /\ op'[u].claimed = op[u].claimed /\ (op'[u].claim = op[u].private \/ (op'[u].claim = op[u].claim /\ op'[u].claimed # 0))
      BY <2>0, <2>5, <1>27, ClaimDoes DEF Became
    <3> QED BY <1>a, <3>1, <3>2
  <2> QED BY <2>4, <2>5
<1>28. ASSUME Validate PROVE {op'[u].claim, op'[u].claimed} \subseteq {0, op'[u].private}
         /\ (run'.op = u /\ run'.pc \in {"validate", "commit"} => op'[u].claim # 0 \/ op'[u].claimed # 0 \/ op'[u].expired)
  <2>0. PICK q \in Ops : q = run.op /\ op[q].status = "running" /\ run.op # None
    BY <1>28, ValidateDoes, Running
  <2>1. u # q => op'[u] = op[u]
    BY <2>0, <1>28, ValidateDoes
  <2>2. u = q => op[u].request.kind = "mailbox.resetPassword"
    BY <1>b, <2>0, <1>28, ValidateDoes
  <2>3. run'.op \in {q, None} /\ None # q
    BY <2>0, <1>28, ValidateDoes DEF Moved, Stops, Idle, Concluded
  <2>4. CASE u # q
    BY <1>a, <1>b, <1>o, <2>1, <2>3, <2>4
  <2>5. CASE u = q
    <3>1. op'[u].claim = op[u].claim /\ op'[u].claimed = op[u].claimed /\ op'[u].expired = op[u].expired /\ op'[u].private = op[u].private /\ Open(u) /\ Kind(u) = "mailbox.resetPassword"
      BY <1>o, <2>0, <2>2, <2>5, <1>28, ValidateDoes DEF  Live
    <3>2. run.pc = "validate"
      BY <1>28, ValidateDoes
    <3> QED BY <1>a, <2>0, <2>5, <3>1, <3>2
  <2> QED BY <2>4, <2>5
<1>29. ASSUME Gone PROVE {op'[u].claim, op'[u].claimed} \subseteq {0, op'[u].private}
         /\ (run'.op = u /\ run'.pc \in {"validate", "commit"} => op'[u].claim # 0 \/ op'[u].claimed # 0 \/ op'[u].expired)
  <2>0. PICK q \in Ops : q = run.op /\ op[q].status = "running" /\ run.op # None
    BY <1>29, GoneDoes, Running
  <2>1. u # q => op'[u] = op[u]
    BY <2>0, <1>29, GoneDoes DEF Turned, Ended, Became, Concluded
  <2>2. u = q => op[u].request.kind = "mailbox.resetPassword"
    BY <1>b, <2>0, <1>29, GoneDoes DEF Turned, Ended, Became, Concluded
  <2>3. run'.op \in {q, None} /\ None # q
    BY <2>0, <1>29, GoneDoes DEF Moved, Stops, Idle, Concluded
  <2>4. CASE u # q
    BY <1>a, <1>b, <1>o, <2>1, <2>3, <2>4
  <2>5. CASE u = q
    BY <2>0, <2>2, <2>5, <1>29, GoneDoes DEF Control, OnPath, Kind, Additions, Transactional
  <2> QED BY <2>4, <2>5
<1>30. ASSUME External PROVE {op'[u].claim, op'[u].claimed} \subseteq {0, op'[u].private}
         /\ (run'.op = u /\ run'.pc \in {"validate", "commit"} => op'[u].claim # 0 \/ op'[u].claimed # 0 \/ op'[u].expired)
  <2>0. PICK q \in Ops : q = run.op /\ op[q].status = "running" /\ run.op # None
    BY <1>30, ExternalDoes, Running
  <2>1. u # q => op'[u] = op[u]
    BY <2>0, <1>30, ExternalDoes DEF Turned, Ended, Became, Concluded
  <2>2. u = q => op[u].request.kind = "mailbox.resetPassword"
    BY <1>b, <2>0, <1>30, ExternalDoes DEF Turned, Ended, Became, Concluded
  <2>3. run'.op \in {q, None} /\ None # q
    BY <2>0, <1>30, ExternalDoes DEF Moved, Stops, Idle, Concluded
  <2>4. CASE u # q
    BY <1>a, <1>b, <1>o, <2>1, <2>3, <2>4
  <2>5. CASE u = q
    BY <2>0, <2>2, <2>5, <1>30, ExternalDoes DEF Control, OnPath, Kind, Additions, Transactional
  <2> QED BY <2>4, <2>5
<1>31. ASSUME Check PROVE {op'[u].claim, op'[u].claimed} \subseteq {0, op'[u].private}
         /\ (run'.op = u /\ run'.pc \in {"validate", "commit"} => op'[u].claim # 0 \/ op'[u].claimed # 0 \/ op'[u].expired)
  <2>0. PICK q \in Ops : q = run.op /\ op[q].status = "running" /\ run.op # None
    BY <1>31, CheckDoes, Running
  <2>1. u # q => op'[u] = op[u]
    BY <2>0, <1>31, CheckDoes
  <2>2. u = q => op[u].request.kind = "mailbox.resetPassword"
    BY <1>b, <2>0, <1>31, CheckDoes
  <2>3. run'.op \in {q, None} /\ None # q
    BY <2>0, <1>31, CheckDoes DEF Moved, Stops, Idle, Concluded
  <2>4. CASE u # q
    BY <1>a, <1>b, <1>o, <2>1, <2>3, <2>4
  <2>5. CASE u = q
    BY <2>0, <2>2, <2>5, <1>31, CheckDoes DEF Control, OnPath, Kind, Additions, Transactional
  <2> QED BY <2>4, <2>5
<1>32. ASSUME SaveEntered PROVE {op'[u].claim, op'[u].claimed} \subseteq {0, op'[u].private}
         /\ (run'.op = u /\ run'.pc \in {"validate", "commit"} => op'[u].claim # 0 \/ op'[u].claimed # 0 \/ op'[u].expired)
  <2>0. PICK q \in Ops : q = run.op /\ op[q].status = "running" /\ run.op # None
    BY <1>32, SaveEnteredDoes, Running
  <2>1. u # q => op'[u] = op[u]
    BY <2>0, <1>32, SaveEnteredDoes
  <2>2. u = q => op[u].request.kind = "mailbox.resetPassword"
    BY <1>b, <2>0, <1>32, SaveEnteredDoes
  <2>3. run'.op \in {q, None} /\ None # q
    BY <2>0, <1>32, SaveEnteredDoes DEF Moved, Stops, Idle, Concluded
  <2>4. CASE u # q
    BY <1>a, <1>b, <1>o, <2>1, <2>3, <2>4
  <2>5. CASE u = q
    BY <2>0, <2>2, <2>5, <1>32, SaveEnteredDoes DEF Control, OnPath, Kind, Additions, Transactional
  <2> QED BY <2>4, <2>5
<1>33. ASSUME Attach PROVE {op'[u].claim, op'[u].claimed} \subseteq {0, op'[u].private}
         /\ (run'.op = u /\ run'.pc \in {"validate", "commit"} => op'[u].claim # 0 \/ op'[u].claimed # 0 \/ op'[u].expired)
  <2>0. PICK q \in Ops : q = run.op /\ op[q].status = "running" /\ run.op # None
    BY <1>33, AttachDoes, Running
  <2>1. u # q => op'[u] = op[u]
    BY <2>0, <1>33, AttachDoes DEF Turned, Ended, Became, Concluded
  <2>2. u = q => op[u].request.kind = "mailbox.resetPassword"
    BY <1>b, <2>0, <1>33, AttachDoes DEF Turned, Ended, Became, Concluded
  <2>3. run'.op \in {q, None} /\ None # q
    BY <2>0, <1>33, AttachDoes DEF Moved, Stops, Idle, Concluded
  <2>4. CASE u # q
    BY <1>a, <1>b, <1>o, <2>1, <2>3, <2>4
  <2>5. CASE u = q
    BY <2>0, <2>2, <2>5, <1>33, AttachDoes DEF Control, OnPath, Kind, Additions, Transactional
  <2> QED BY <2>4, <2>5
<1>34. ASSUME UpdateEndpoints PROVE {op'[u].claim, op'[u].claimed} \subseteq {0, op'[u].private}
         /\ (run'.op = u /\ run'.pc \in {"validate", "commit"} => op'[u].claim # 0 \/ op'[u].claimed # 0 \/ op'[u].expired)
  <2>0. PICK q \in Ops : q = run.op /\ op[q].status = "running" /\ run.op # None
    BY <1>34, UpdateEndpointsDoes, Running
  <2>1. u # q => op'[u] = op[u]
    BY <2>0, <1>34, UpdateEndpointsDoes DEF Turned, Ended, Became, Concluded
  <2>3. run'.op \in {q, None} /\ None # q
    BY <2>0, <1>34, UpdateEndpointsDoes DEF Moved, Stops, Idle, Concluded
  <2>4. CASE u # q
    BY <1>a, <1>b, <1>o, <2>1, <2>3, <2>4
  <2>5. CASE u = q
    BY <1>b, <2>0, <2>5, <1>34, UpdateEndpointsDoes DEF Turned, Ended, Became, Live, Kind
  <2> QED BY <2>4, <2>5
<1>35. ASSUME Reactivate PROVE {op'[u].claim, op'[u].claimed} \subseteq {0, op'[u].private}
         /\ (run'.op = u /\ run'.pc \in {"validate", "commit"} => op'[u].claim # 0 \/ op'[u].claimed # 0 \/ op'[u].expired)
  <2>0. PICK q \in Ops : q = run.op /\ op[q].status = "running" /\ run.op # None
    BY <1>35, ReactivateDoes, Running
  <2>1. u # q => op'[u] = op[u]
    BY <2>0, <1>35, ReactivateDoes DEF Turned, Ended, Became, Concluded
  <2>2. u = q => op[u].request.kind = "mailbox.resetPassword"
    BY <1>b, <2>0, <1>35, ReactivateDoes DEF Turned, Ended, Became, Concluded
  <2>3. run'.op \in {q, None} /\ None # q
    BY <2>0, <1>35, ReactivateDoes DEF Moved, Stops, Idle, Concluded
  <2>4. CASE u # q
    BY <1>a, <1>b, <1>o, <2>1, <2>3, <2>4
  <2>5. CASE u = q
    BY <2>0, <2>2, <2>5, <1>35, ReactivateDoes DEF Control, OnPath, Kind, Additions, Transactional
  <2> QED BY <2>4, <2>5
<1>36. ASSUME ConfigureConnection PROVE {op'[u].claim, op'[u].claimed} \subseteq {0, op'[u].private}
         /\ (run'.op = u /\ run'.pc \in {"validate", "commit"} => op'[u].claim # 0 \/ op'[u].claimed # 0 \/ op'[u].expired)
  <2>0. PICK q \in Ops : q = run.op /\ op[q].status = "running" /\ run.op # None
    BY <1>36, ConfigureConnectionDoes, Running
  <2>1. u # q => op'[u] = op[u]
    BY <2>0, <1>36, ConfigureConnectionDoes DEF Turned, Ended, Became, Concluded
  <2>3. run'.op \in {q, None} /\ None # q
    BY <2>0, <1>36, ConfigureConnectionDoes DEF Moved, Stops, Idle, Concluded
  <2>4. CASE u # q
    BY <1>a, <1>b, <1>o, <2>1, <2>3, <2>4
  <2>5. CASE u = q
    BY <1>b, <2>0, <2>5, <1>36, ConfigureConnectionDoes DEF Turned, Ended, Became, Live, Kind
  <2> QED BY <2>4, <2>5
<1>37. ASSUME Commit PROVE {op'[u].claim, op'[u].claimed} \subseteq {0, op'[u].private}
         /\ (run'.op = u /\ run'.pc \in {"validate", "commit"} => op'[u].claim # 0 \/ op'[u].claimed # 0 \/ op'[u].expired)
  <2>0. PICK q \in Ops : q = run.op /\ op[q].status = "running" /\ run.op # None
    BY <1>37, CommitDoes, Running
  <2>1. u # q => op'[u] = op[u]
    BY <2>0, <1>37, CommitDoes DEF Turned, Ended, Became, Concluded
  <2>3. run'.op \in {q, None} /\ None # q
    BY <2>0, <1>37, CommitDoes DEF Moved, Stops, Idle, Concluded
  <2>4. CASE u # q
    BY <1>a, <1>b, <1>o, <2>1, <2>3, <2>4
  <2>5. CASE u = q
    BY <1>b, <2>0, <2>5, <1>37, CommitDoes DEF Turned, Ended, Became, Live, Kind
  <2> QED BY <2>4, <2>5
<1>38. ASSUME Interrupt PROVE {op'[u].claim, op'[u].claimed} \subseteq {0, op'[u].private}
         /\ (run'.op = u /\ run'.pc \in {"validate", "commit"} => op'[u].claim # 0 \/ op'[u].claimed # 0 \/ op'[u].expired)
  <2>0. PICK q \in Ops : q = run.op /\ op[q].status = "running" /\ run.op # None
    BY <1>38, InterruptDoes, Running
  <2>1. u # q => op'[u] = op[u]
    BY <2>0, <1>38, InterruptDoes DEF Turned, Ended, Became, Concluded
  <2>2. u = q => op[u].request.kind = "mailbox.resetPassword"
    BY <1>b, <2>0, <1>38, InterruptDoes DEF Turned, Ended, Became, Concluded
  <2>3. run'.op \in {q, None} /\ None # q
    BY <2>0, <1>38, InterruptDoes DEF Moved, Stops, Idle, Concluded
  <2>4. CASE u # q
    BY <1>a, <1>b, <1>o, <2>1, <2>3, <2>4
  <2>5. CASE u = q
    <3>1. op'[u].claim = op[u].claim /\ op'[u].claimed = op[u].claimed /\ op'[u].expired = op[u].expired /\ op'[u].private = op[u].private /\ Open(u) /\ Kind(u) = "mailbox.resetPassword"
      BY <1>o, <2>0, <2>2, <2>5, <1>38, InterruptDoes DEF Turned, Ended, Became, Concluded, Live
    <3>2. run'.op = u => run'.pc \notin {"validate", "commit"}
      BY <2>0, <2>5, <1>38, InterruptDoes DEF Moved, Stops, Idle, Concluded, First, After, Calls
    <3> QED BY <1>a, <2>0, <2>5, <3>1, <3>2
  <2> QED BY <2>4, <2>5
<1>39. UNCHANGED <<op, run>> => {op'[u].claim, op'[u].claimed} \subseteq {0, op'[u].private}
         /\ (run'.op = u /\ run'.pc \in {"validate", "commit"} => op'[u].claim # 0 \/ op'[u].claimed # 0 \/ op'[u].expired)
  BY DEF Passwords, Resets, Open, Kind
<1>40. ASSUME NEW o \in Ops, ReconcileStep(o) PROVE UNCHANGED <<op, run>>
  BY <1>40, ReconcileStepDoes
<1>41. ASSUME Land PROVE UNCHANGED <<op, run>>
  BY <1>41, LandDoes
<1>42. ASSUME Switch PROVE UNCHANGED <<op, run>>
  BY <1>42, SwitchDoes
<1>43. ASSUME Suspend PROVE UNCHANGED <<op, run>>
  BY <1>43, SuspendDoes
<1>44. ASSUME Unregister PROVE UNCHANGED <<op, run>>
  BY <1>44, UnregisterDoes
<1>45. ASSUME Foreign PROVE UNCHANGED <<op, run>>
  BY <1>45, ForeignDoes
<1> QED
  BY Failures, <1>1, <1>2, <1>3, <1>4, <1>5, <1>6, <1>7, <1>8, <1>9, <1>10, <1>11, <1>12, <1>13, <1>14, <1>15, <1>16, <1>17,
     <1>18, <1>19, <1>20, <1>21, <1>22, <1>23, <1>24, <1>25, <1>26, <1>27, <1>28, <1>29, <1>30, <1>31, <1>32, <1>33, <1>34,
     <1>35, <1>36, <1>37, <1>38, <1>39, <1>40, <1>41, <1>42, <1>43, <1>44, <1>45 DEF Next, Execution

(* Only calls and others change the account. *)
LEMMA AccountMoves ==
  ASSUME NoneIsNoOp, IMAPIsProtocol, LimitsAreNat, LocalTypes, OpTypes, RemoteTypes, Control, References, Next
  PROVE  Provider \/ Land \/ Foreign \/ UNCHANGED <<account, setter, lost>>
<1> USE NoneIsNoOp, IMAPIsProtocol, LimitsAreNat DEF vars, localVars, opVars, bounds, history, remoteVars
<1>1. ASSUME Provider PROVE (Provider \/ Land \/ Foreign \/ UNCHANGED <<account, setter, lost>>)
  BY <1>1
<1>2. ASSUME Land PROVE (Provider \/ Land \/ Foreign \/ UNCHANGED <<account, setter, lost>>)
  BY <1>2
<1>3. ASSUME Foreign PROVE (Provider \/ Land \/ Foreign \/ UNCHANGED <<account, setter, lost>>)
  BY <1>3
<1>4. UNCHANGED <<account, setter, lost>> => (Provider \/ Land \/ Foreign \/ UNCHANGED <<account, setter, lost>>)
  BY DEF Provider
<1>5. ASSUME NEW o \in Ops, NEW k \in Kinds, Queue(o, k) PROVE UNCHANGED <<account, setter, lost>>
  BY <1>5, QueueDoes
<1>6. ASSUME NEW o \in Ops, Execute(o) PROVE UNCHANGED <<account, setter, lost>>
  BY <1>6, ExecuteDoes
<1>7. ASSUME NEW o \in Ops, ConfirmExternal(o) PROVE UNCHANGED <<account, setter, lost>>
  BY <1>7, ConfirmExternalDoes
<1>8. ASSUME NEW o \in Ops, ReconcileStep(o) PROVE UNCHANGED <<account, setter, lost>>
  BY <1>8, ReconcileStepDoes
<1>9. ASSUME NEW o \in Ops, Reconcile(o) PROVE UNCHANGED <<account, setter, lost>>
  BY <1>9, ReconcileDoes
<1>10. ASSUME NEW o \in Ops, Retry(o) PROVE UNCHANGED <<account, setter, lost>>
  BY <1>10, RetryDoes
<1>11. ASSUME NEW o \in Ops, Cancel(o) PROVE UNCHANGED <<account, setter, lost>>
  BY <1>11, CancelDoes
<1>12. ASSUME NEW o \in Ops, Report(o) PROVE UNCHANGED <<account, setter, lost>>
  BY <1>12, ReportDoes
<1>13. ASSUME NEW o \in Ops, ClaimSecret(o) PROVE UNCHANGED <<account, setter, lost>>
  BY <1>13, ClaimSecretDoes
<1>14. ASSUME NEW o \in Ops, Expire(o) PROVE UNCHANGED <<account, setter, lost>>
  BY <1>14, ExpireDoes
<1>15. ASSUME Failure PROVE UNCHANGED <<account, setter, lost>>
  BY <1>15, FailureDoes
<1>16. ASSUME Start PROVE UNCHANGED <<account, setter, lost>>
  BY <1>16, StartDoes
<1>17. ASSUME Complete PROVE UNCHANGED <<account, setter, lost>>
  BY <1>17, CompleteDoes
<1>18. ASSUME Begin PROVE UNCHANGED <<account, setter, lost>>
  BY <1>18, BeginDoes
<1>19. ASSUME Refused PROVE UNCHANGED <<account, setter, lost>>
  BY <1>19, RefusedDoes
<1>20. ASSUME Keep PROVE UNCHANGED <<account, setter, lost>>
  BY <1>20, KeepDoes
<1>21. ASSUME Record PROVE UNCHANGED <<account, setter, lost>>
  BY <1>21, RecordDoes
<1>22. ASSUME GiveUp PROVE UNCHANGED <<account, setter, lost>>
  BY <1>22, GiveUpDoes
<1>23. ASSUME Reserve PROVE UNCHANGED <<account, setter, lost>>
  BY <1>23, ReserveDoes
<1>24. ASSUME Confirm PROVE UNCHANGED <<account, setter, lost>>
  BY <1>24, ConfirmDoes
<1>25. ASSUME Candidate PROVE UNCHANGED <<account, setter, lost>>
  BY <1>25, CandidateDoes
<1>26. ASSUME Verify PROVE UNCHANGED <<account, setter, lost>>
  BY <1>26, VerifyDoes
<1>27. ASSUME Activate PROVE UNCHANGED <<account, setter, lost>>
  BY <1>27, ActivateDoes
<1>28. ASSUME Revoke PROVE UNCHANGED <<account, setter, lost>>
  BY <1>28, RevokeDoes
<1>29. ASSUME Revoked PROVE UNCHANGED <<account, setter, lost>>
  BY <1>29, RevokedDoes
<1>30. ASSUME Password PROVE UNCHANGED <<account, setter, lost>>
  BY <1>30, PasswordDoes
<1>31. ASSUME Claim PROVE UNCHANGED <<account, setter, lost>>
  BY <1>31, ClaimDoes
<1>32. ASSUME Validate PROVE UNCHANGED <<account, setter, lost>>
  BY <1>32, ValidateDoes
<1>33. ASSUME Gone PROVE UNCHANGED <<account, setter, lost>>
  BY <1>33, GoneDoes
<1>34. ASSUME External PROVE UNCHANGED <<account, setter, lost>>
  BY <1>34, ExternalDoes
<1>35. ASSUME Check PROVE UNCHANGED <<account, setter, lost>>
  BY <1>35, CheckDoes
<1>36. ASSUME SaveEntered PROVE UNCHANGED <<account, setter, lost>>
  BY <1>36, SaveEnteredDoes
<1>37. ASSUME Attach PROVE UNCHANGED <<account, setter, lost>>
  BY <1>37, AttachDoes
<1>38. ASSUME UpdateEndpoints PROVE UNCHANGED <<account, setter, lost>>
  BY <1>38, UpdateEndpointsDoes
<1>39. ASSUME Reactivate PROVE UNCHANGED <<account, setter, lost>>
  BY <1>39, ReactivateDoes
<1>40. ASSUME ConfigureConnection PROVE UNCHANGED <<account, setter, lost>>
  BY <1>40, ConfigureConnectionDoes
<1>41. ASSUME Commit PROVE UNCHANGED <<account, setter, lost>>
  BY <1>41, CommitDoes
<1>42. ASSUME Interrupt PROVE UNCHANGED <<account, setter, lost>>
  BY <1>42, InterruptDoes
<1>43. ASSUME Switch PROVE UNCHANGED <<account, setter, lost>>
  BY <1>43, SwitchDoes
<1>44. ASSUME Suspend PROVE UNCHANGED <<account, setter, lost>>
  BY <1>44, SuspendDoes
<1>45. ASSUME Unregister PROVE UNCHANGED <<account, setter, lost>>
  BY <1>45, UnregisterDoes
<1> QED
  BY Failures, <1>1, <1>2, <1>3, <1>4, <1>5, <1>6, <1>7, <1>8, <1>9, <1>10, <1>11, <1>12, <1>13, <1>14, <1>15, <1>16, <1>17,
     <1>18, <1>19, <1>20, <1>21, <1>22, <1>23, <1>24, <1>25, <1>26, <1>27, <1>28, <1>29, <1>30, <1>31, <1>32, <1>33, <1>34,
     <1>35, <1>36, <1>37, <1>38, <1>39, <1>40, <1>41, <1>42, <1>43, <1>44, <1>45 DEF Next, Execution

(* The password that was set is known. *)
LEMMA SetPasswordsStep ==
  ASSUME NoneIsNoOp, IMAPIsProtocol, LimitsAreNat, LocalTypes, OpTypes, RemoteTypes, Control, References, Secrets, Creations, Revocations, Passwords, Next
  PROVE  SetPasswords'
<1> USE NoneIsNoOp, IMAPIsProtocol, LimitsAreNat DEF vars, localVars, opVars, bounds, history, remoteVars
<1>1. ASSUME NEW u \in Ops, NEW w, w # 0, Known(u, w) PROVE Known(u, w)'
  BY <1>1, KnownStays
<1>2. ASSUME NEW call \in late, call.name = "mailbox.resetPassword" PROVE call.op \in Ops /\ call.key # 0 /\ Known(call.op, call.key)
  BY <1>2, LateKey DEF Passwords, SetPasswords
<1>3. ASSUME run.op # None, run.pc = "mailbox.resetPassword"
      PROVE  Call.name = "mailbox.resetPassword" /\ Call.op = run.op /\ Call.op \in Ops /\ Call.key # 0 /\ Known(Call.op, Call.key)
  <2>1. Call.name = "mailbox.resetPassword" /\ Call.op = run.op /\ Call.op \in Ops /\ Call.key = op[run.op].private /\ Call.key # 0
    BY <1>3, CallIs DEF Calls
  <2>2. Open(run.op) /\ Kind(run.op) = "mailbox.resetPassword"
    BY <1>3, Running DEF Control, OnPath, Kind, Open, Live
  <2> QED BY <2>1, <2>2 DEF Known
<1>4. \A call \in late' : call.name = "mailbox.resetPassword" => Known(call.op, call.key)'
  <2> SUFFICES ASSUME NEW call \in late', call.name = "mailbox.resetPassword" PROVE Known(call.op, call.key)'
    OBVIOUS
  <2>1. CASE call \in late
    <3>1. PICK u \in Ops, w \in {call.key} : u = call.op /\ w # 0 /\ Known(u, w)
      BY <1>2, <2>1
    <3> QED BY <1>1, <3>1
  <2>2. CASE Provider /\ run.op # None /\ run.pc \in Calls /\ call = Call
    <3>1. run.pc = "mailbox.resetPassword"
      BY <2>2, CallIs
    <3>2. PICK u \in Ops, w \in {call.key} : u = call.op /\ w # 0 /\ Known(u, w)
      BY <1>3, <2>2, <3>1
    <3> QED BY <1>1, <3>2
  <2> QED BY <2>1, <2>2, LateGrows
\* The password that was set stays, or another one is.
<1>5. ASSUME setter' # None
      PROVE  \/ setter' = setter /\ account'.primary = account.primary
             \/ setter' \in Ops /\ account'.primary # 0 /\ Known(setter', account'.primary)
  <2>2. ASSUME Provider PROVE (setter' = setter /\ account'.primary = account.primary) \/ (setter' \in Ops /\ account'.primary # 0 /\ Known(setter', account'.primary))
    <3>1. run.op # None /\ run.pc \in Calls /\ (Perform(Call) \/ UNCHANGED <<account, setter>>)
      BY <2>2, ProviderDoes
    <3>2. CASE Perform(Call)
      <4>1. Call \in CallRow /\ (Call.name # "mailbox.delete" => Call.key # 0) /\ Call.name = run.pc
        BY <3>1, CallKey DEF Keys
      <4>2. CASE run.pc = "mailbox.resetPassword"
        BY <1>3, <3>1, <3>2, <4>1, <4>2, PerformDoes
      <4>3. CASE run.pc # "mailbox.resetPassword"
        BY <1>5, <3>1, <3>2, <4>1, <4>3, PerformDoes DEF Calls
      <4> QED BY <4>2, <4>3
    <3> QED BY <3>1, <3>2
  <2>3. ASSUME Land PROVE (setter' = setter /\ account'.primary = account.primary) \/ (setter' \in Ops /\ account'.primary # 0 /\ Known(setter', account'.primary))
    <3>1. PICK call \in late : Perform(call) \/ UNCHANGED <<account, setter>>
      BY <2>3, LandDoes
    <3>2. CASE Perform(call)
      <4>1. call \in CallRow /\ (call.name # "mailbox.delete" => call.key # 0) /\ call.name \in Calls
        BY LateKey
      <4>2. CASE call.name = "mailbox.resetPassword"
        BY <1>2, <3>1, <3>2, <4>1, <4>2, PerformDoes
      <4>3. CASE call.name # "mailbox.resetPassword"
        BY <1>5, <3>2, <4>1, <4>3, PerformDoes DEF Calls
      <4> QED BY <4>2, <4>3
    <3> QED BY <3>1, <3>2
  <2>4. ASSUME Foreign PROVE (setter' = setter /\ account'.primary = account.primary) \/ (setter' \in Ops /\ account'.primary # 0 /\ Known(setter', account'.primary))
    BY <1>5, <2>4, ForeignDoes
  <2>5. Provider \/ Land \/ Foreign \/ UNCHANGED <<account, setter, lost>>
    BY AccountMoves
  <2> QED BY <2>2, <2>3, <2>4, <2>5
<1>6. setter' # None => account'.primary # 0 /\ Known(setter, account.primary)'
  <2> SUFFICES ASSUME setter' # None PROVE account'.primary # 0 /\ Known(setter, account.primary)'
    OBVIOUS
  <2>1. setter' \in Ops /\ account'.primary # 0 /\ Known(setter', account'.primary)
    <3>1. CASE setter' = setter /\ account'.primary = account.primary
      BY <3>1, NoneIsNoOp DEF RemoteTypes, Passwords, SetPasswords
    <3> QED BY <1>5, <3>1
  <2>2. PICK u \in Ops, w \in {account'.primary} : u = setter' /\ w # 0 /\ Known(u, w)
    BY <2>1
  <2> QED BY <1>1, <2>1, <2>2
<1> QED BY <1>4, <1>6 DEF SetPasswords

(* Together. *)
LEMMA PasswordsStep ==
  ASSUME NoneIsNoOp, IMAPIsProtocol, LimitsAreNat, LocalTypes, OpTypes, RemoteTypes, Control, References, Secrets, Creations, Revocations, Passwords, Next
  PROVE  Passwords'
BY ResetsStep, SetPasswordsStep DEF Passwords

-----------------------------------------------------------------------------
(* What endpoints log in with: what changes it.  *)

\* Rows and endpoints stay, and so do the templates.
Stays == /\ cred' = cred /\ conn'.templates = conn.templates
         /\ mailbox.remote = "missing" => mailbox'.remote = "missing"
         /\ \A p \in Protocols : endpoint'[p].mode = endpoint[p].mode /\ endpoint'[p].cred = endpoint[p].cred
Turns == \/ Reserve \/ Activate \/ Revoked \/ Keep \/ EntersRow \/ ConfigureConnection \/ Commit \/ Unregister
         \/ \E o \in Ops : ConfirmExternal(o)
\* What is executed has not moved, nor has what it is about.
AtWork == /\ run' = run /\ run.op # None /\ op'[run.op].request = op[run.op].request /\ op'[run.op].cand = op[run.op].cand
          /\ cred' = cred /\ endpoint' = endpoint /\ conn'.templates = conn.templates
\* No revocation is about this secret.
Spared(k) == /\ run.op # None /\ run.pc = "credential.revoke" => cred[run.old].key # k
             /\ \A call \in late : call.name = "credential.revoke" => call.key # k

(* Few steps change rows and endpoints. *)
LEMMA ServiceMoves ==
  ASSUME NoneIsNoOp, IMAPIsProtocol, LimitsAreNat, LocalTypes, OpTypes, RemoteTypes, Control, References, Next
  PROVE  Stays \/ Turns
<1> USE NoneIsNoOp, IMAPIsProtocol, LimitsAreNat DEF vars, localVars, opVars, bounds, history, remoteVars
<1>1. ASSUME NEW o \in Ops, NEW k \in Kinds, Queue(o, k) PROVE (Stays \/ Turns)
  BY <1>1, QueueDoes DEF Stays
<1>2. ASSUME NEW o \in Ops, ConfirmExternal(o) PROVE (Stays \/ Turns)
  BY <1>2 DEF Turns
<1>3. ASSUME Keep PROVE (Stays \/ Turns)
  BY <1>3 DEF Turns
<1>4. ASSUME Reserve PROVE (Stays \/ Turns)
  BY <1>4 DEF Turns
<1>5. ASSUME Confirm PROVE (Stays \/ Turns)
  <2>1. PICK q \in Ops : q = run.op /\ IsLive(q) /\ Kind(q) = "mailbox.create" /\ step[q][Reservation] = "succeeded"
    BY <1>5, ConfirmDoes, Running DEF Control, OnPath, Kind, References, ReservedAt, IsLive, Live
  <2>2. mailbox.remote # "missing"
    BY <2>1 DEF References, Reserved
  <2> QED BY <2>2, <1>5, ConfirmDoes DEF Stays
<1>6. ASSUME Activate PROVE (Stays \/ Turns)
  BY <1>6 DEF Turns
<1>7. ASSUME Revoked PROVE (Stays \/ Turns)
  BY <1>7 DEF Turns
<1>8. ASSUME SaveEntered PROVE (Stays \/ Turns)
  BY <1>8 DEF Turns, EntersRow
<1>9. ASSUME Attach PROVE (Stays \/ Turns)
  BY <1>9 DEF Turns, EntersRow
<1>10. ASSUME UpdateEndpoints PROVE (Stays \/ Turns)
  BY <1>10 DEF Turns, EntersRow
<1>11. ASSUME Reactivate PROVE (Stays \/ Turns)
  BY <1>11, ReactivateDoes DEF Stays
<1>12. ASSUME ConfigureConnection PROVE (Stays \/ Turns)
  BY <1>12 DEF Turns
<1>13. ASSUME Commit PROVE (Stays \/ Turns)
  BY <1>13 DEF Turns
<1>14. ASSUME Switch PROVE (Stays \/ Turns)
  BY <1>14, SwitchDoes DEF Stays
<1>15. ASSUME Suspend PROVE (Stays \/ Turns)
  BY <1>15, SuspendDoes DEF Stays
<1>16. ASSUME Unregister PROVE (Stays \/ Turns)
  BY <1>16 DEF Turns
<1>17. UNCHANGED <<cred, conn, endpoint, mailbox>> => (Stays \/ Turns)
  BY DEF Stays
<1>18. ASSUME NEW o \in Ops, Execute(o) PROVE UNCHANGED <<cred, conn, endpoint, mailbox>>
  BY <1>18, ExecuteDoes
<1>19. ASSUME NEW o \in Ops, ReconcileStep(o) PROVE UNCHANGED <<cred, conn, endpoint, mailbox>>
  BY <1>19, ReconcileStepDoes
<1>20. ASSUME NEW o \in Ops, Reconcile(o) PROVE UNCHANGED <<cred, conn, endpoint, mailbox>>
  BY <1>20, ReconcileDoes
<1>21. ASSUME NEW o \in Ops, Retry(o) PROVE UNCHANGED <<cred, conn, endpoint, mailbox>>
  BY <1>21, RetryDoes
<1>22. ASSUME NEW o \in Ops, Cancel(o) PROVE UNCHANGED <<cred, conn, endpoint, mailbox>>
  BY <1>22, CancelDoes
<1>23. ASSUME NEW o \in Ops, Report(o) PROVE UNCHANGED <<cred, conn, endpoint, mailbox>>
  BY <1>23, ReportDoes
<1>24. ASSUME NEW o \in Ops, ClaimSecret(o) PROVE UNCHANGED <<cred, conn, endpoint, mailbox>>
  BY <1>24, ClaimSecretDoes
<1>25. ASSUME NEW o \in Ops, Expire(o) PROVE UNCHANGED <<cred, conn, endpoint, mailbox>>
  BY <1>25, ExpireDoes
<1>26. ASSUME Failure PROVE UNCHANGED <<cred, conn, endpoint, mailbox>>
  BY <1>26, FailureDoes
<1>27. ASSUME Start PROVE UNCHANGED <<cred, conn, endpoint, mailbox>>
  BY <1>27, StartDoes
<1>28. ASSUME Complete PROVE UNCHANGED <<cred, conn, endpoint, mailbox>>
  BY <1>28, CompleteDoes
<1>29. ASSUME Begin PROVE UNCHANGED <<cred, conn, endpoint, mailbox>>
  BY <1>29, BeginDoes
<1>30. ASSUME Provider PROVE UNCHANGED <<cred, conn, endpoint, mailbox>>
  BY <1>30, ProviderDoes
<1>31. ASSUME Refused PROVE UNCHANGED <<cred, conn, endpoint, mailbox>>
  BY <1>31, RefusedDoes
<1>32. ASSUME Record PROVE UNCHANGED <<cred, conn, endpoint, mailbox>>
  BY <1>32, RecordDoes
<1>33. ASSUME GiveUp PROVE UNCHANGED <<cred, conn, endpoint, mailbox>>
  BY <1>33, GiveUpDoes
<1>34. ASSUME Candidate PROVE UNCHANGED <<cred, conn, endpoint, mailbox>>
  BY <1>34, CandidateDoes
<1>35. ASSUME Verify PROVE UNCHANGED <<cred, conn, endpoint, mailbox>>
  BY <1>35, VerifyDoes
<1>36. ASSUME Revoke PROVE UNCHANGED <<cred, conn, endpoint, mailbox>>
  BY <1>36, RevokeDoes
<1>37. ASSUME Password PROVE UNCHANGED <<cred, conn, endpoint, mailbox>>
  BY <1>37, PasswordDoes
<1>38. ASSUME Claim PROVE UNCHANGED <<cred, conn, endpoint, mailbox>>
  BY <1>38, ClaimDoes
<1>39. ASSUME Validate PROVE UNCHANGED <<cred, conn, endpoint, mailbox>>
  BY <1>39, ValidateDoes
<1>40. ASSUME Gone PROVE UNCHANGED <<cred, conn, endpoint, mailbox>>
  BY <1>40, GoneDoes
<1>41. ASSUME External PROVE UNCHANGED <<cred, conn, endpoint, mailbox>>
  BY <1>41, ExternalDoes
<1>42. ASSUME Check PROVE UNCHANGED <<cred, conn, endpoint, mailbox>>
  BY <1>42, CheckDoes
<1>43. ASSUME Interrupt PROVE UNCHANGED <<cred, conn, endpoint, mailbox>>
  BY <1>43, InterruptDoes
<1>44. ASSUME Land PROVE UNCHANGED <<cred, conn, endpoint, mailbox>>
  BY <1>44, LandDoes
<1>45. ASSUME Foreign PROVE UNCHANGED <<cred, conn, endpoint, mailbox>>
  BY <1>45, ForeignDoes
<1> QED
  BY Failures, <1>1, <1>2, <1>3, <1>4, <1>5, <1>6, <1>7, <1>8, <1>9, <1>10, <1>11, <1>12, <1>13, <1>14, <1>15, <1>16, <1>17,
     <1>18, <1>19, <1>20, <1>21, <1>22, <1>23, <1>24, <1>25, <1>26, <1>27, <1>28, <1>29, <1>30, <1>31, <1>32, <1>33, <1>34,
     <1>35, <1>36, <1>37, <1>38, <1>39, <1>40, <1>41, <1>42, <1>43, <1>44, <1>45 DEF Next, Execution

(* What was tried is applied before anything else happens to it. *)
LEMMA WorkGoesOn ==
  ASSUME NoneIsNoOp, IMAPIsProtocol, LimitsAreNat, LocalTypes, OpTypes, RemoteTypes, Control, References, Next
  PROVE  run'.op # None /\ run'.pc \in {"activate", "apply"} => Verify \/ Check \/ AtWork
<1> USE NoneIsNoOp, IMAPIsProtocol, LimitsAreNat DEF vars, localVars, opVars, bounds, history, remoteVars
<1>a. run.op # None => run.op \in Ops /\ op[run.op].status = "running"
  BY Running
<1>1. ASSUME NEW o \in Ops, NEW k \in Kinds, Queue(o, k) PROVE (run'.op # None /\ run'.pc \in {"activate", "apply"} => Verify \/ Check \/ AtWork)
  BY <1>a, <1>1, QueueDoes DEF Live
<1>2. ASSUME NEW o \in Ops, Execute(o) PROVE (run'.op # None /\ run'.pc \in {"activate", "apply"} => Verify \/ Check \/ AtWork)
  BY <1>2, ExecuteDoes
<1>3. ASSUME NEW o \in Ops, ConfirmExternal(o) PROVE (run'.op # None /\ run'.pc \in {"activate", "apply"} => Verify \/ Check \/ AtWork)
  <2>1. op[o].status = "needs_action" /\ run' = run
    BY <1>3, ConfirmExternalDoes
  <2>2. run.op = None
    BY <2>1, Running DEF Control, OneLive, IsLive, Live
  <2> QED BY <2>1, <2>2
<1>4. ASSUME NEW o \in Ops, Reconcile(o) PROVE (run'.op # None /\ run'.pc \in {"activate", "apply"} => Verify \/ Check \/ AtWork)
  <2>1. run' = run /\ UNCHANGED <<cred, endpoint, conn>>
    BY <1>4, ReconcileDoes
  <2>2. run.op # None => op'[run.op].request = op[run.op].request /\ op'[run.op].cand = op[run.op].cand
    BY <1>a, <1>4, ReconcileDoes DEF Turned, Dropped, Became
  <2> QED BY <2>1, <2>2 DEF AtWork
<1>5. ASSUME NEW o \in Ops, Retry(o) PROVE (run'.op # None /\ run'.pc \in {"activate", "apply"} => Verify \/ Check \/ AtWork)
  <2>1. run' = run /\ UNCHANGED <<cred, endpoint, conn>>
    BY <1>5, RetryDoes
  <2>2. run.op # None => op'[run.op].request = op[run.op].request /\ op'[run.op].cand = op[run.op].cand
    BY <1>a, <1>5, RetryDoes DEF Turned, Dropped, Became
  <2> QED BY <2>1, <2>2 DEF AtWork
<1>6. ASSUME NEW o \in Ops, Cancel(o) PROVE (run'.op # None /\ run'.pc \in {"activate", "apply"} => Verify \/ Check \/ AtWork)
  <2>1. run' = run /\ UNCHANGED <<cred, endpoint, conn>>
    BY <1>6, CancelDoes
  <2>2. run.op # None => op'[run.op].request = op[run.op].request /\ op'[run.op].cand = op[run.op].cand
    BY <1>a, <1>6, CancelDoes DEF Turned, Dropped, Became
  <2> QED BY <2>1, <2>2 DEF AtWork
<1>7. ASSUME NEW o \in Ops, Report(o) PROVE (run'.op # None /\ run'.pc \in {"activate", "apply"} => Verify \/ Check \/ AtWork)
  <2>1. run' = run /\ UNCHANGED <<cred, endpoint, conn>>
    BY <1>7, ReportDoes
  <2>2. run.op # None => op'[run.op].request = op[run.op].request /\ op'[run.op].cand = op[run.op].cand
    BY <1>a, <1>7, ReportDoes DEF Turned, Dropped, Became
  <2> QED BY <2>1, <2>2 DEF AtWork
<1>8. ASSUME NEW o \in Ops, ClaimSecret(o) PROVE (run'.op # None /\ run'.pc \in {"activate", "apply"} => Verify \/ Check \/ AtWork)
  <2>1. run' = run /\ UNCHANGED <<cred, endpoint, conn>>
    BY <1>8, ClaimSecretDoes
  <2>2. run.op # None => op'[run.op].request = op[run.op].request /\ op'[run.op].cand = op[run.op].cand
    BY <1>a, <1>8, ClaimSecretDoes DEF Turned, Dropped, Became
  <2> QED BY <2>1, <2>2 DEF AtWork
<1>9. ASSUME NEW o \in Ops, Expire(o) PROVE (run'.op # None /\ run'.pc \in {"activate", "apply"} => Verify \/ Check \/ AtWork)
  <2>1. run' = run /\ UNCHANGED <<cred, endpoint, conn>>
    BY <1>9, ExpireDoes
  <2>2. run.op # None => op'[run.op].request = op[run.op].request /\ op'[run.op].cand = op[run.op].cand
    BY <1>a, <1>9, ExpireDoes DEF Turned, Dropped, Became
  <2> QED BY <2>1, <2>2 DEF AtWork
<1>10. ASSUME Failure PROVE (run'.op # None /\ run'.pc \in {"activate", "apply"} => Verify \/ Check \/ AtWork)
  BY <1>10, FailureDoes DEF Stops, Idle, Concluded
<1>11. ASSUME Start PROVE (run'.op # None /\ run'.pc \in {"activate", "apply"} => Verify \/ Check \/ AtWork)
  BY <1>11, StartDoes DEF Moved, First
<1>12. ASSUME Complete PROVE (run'.op # None /\ run'.pc \in {"activate", "apply"} => Verify \/ Check \/ AtWork)
  BY <1>12, CompleteDoes DEF Stops, Idle
<1>13. ASSUME Begin PROVE (run'.op # None /\ run'.pc \in {"activate", "apply"} => Verify \/ Check \/ AtWork)
  BY <1>13, BeginDoes DEF Moved, Concluded, Stops, Idle, After, Calls
<1>14. ASSUME Provider PROVE (run'.op # None /\ run'.pc \in {"activate", "apply"} => Verify \/ Check \/ AtWork)
  BY <1>14, ProviderDoes DEF Moved, Calls
<1>15. ASSUME Refused PROVE (run'.op # None /\ run'.pc \in {"activate", "apply"} => Verify \/ Check \/ AtWork)
  BY <1>15, RefusedDoes DEF Moved, Calls
<1>16. ASSUME Keep PROVE (run'.op # None /\ run'.pc \in {"activate", "apply"} => Verify \/ Check \/ AtWork)
  BY <1>16, KeepDoes DEF Moved, Calls
<1>17. ASSUME Record PROVE (run'.op # None /\ run'.pc \in {"activate", "apply"} => Verify \/ Check \/ AtWork)
  BY <1>17, RecordDoes DEF Moved, After, Calls
<1>18. ASSUME GiveUp PROVE (run'.op # None /\ run'.pc \in {"activate", "apply"} => Verify \/ Check \/ AtWork)
  BY <1>18, GiveUpDoes DEF Stops, Idle, Concluded
<1>19. ASSUME Reserve PROVE (run'.op # None /\ run'.pc \in {"activate", "apply"} => Verify \/ Check \/ AtWork)
  BY <1>19, ReserveDoes DEF Moved
<1>20. ASSUME Confirm PROVE (run'.op # None /\ run'.pc \in {"activate", "apply"} => Verify \/ Check \/ AtWork)
  BY <1>20, ConfirmDoes DEF Moved
<1>21. ASSUME Candidate PROVE (run'.op # None /\ run'.pc \in {"activate", "apply"} => Verify \/ Check \/ AtWork)
  BY <1>21, CandidateDoes DEF Moved
<1>22. ASSUME Verify PROVE (run'.op # None /\ run'.pc \in {"activate", "apply"} => Verify \/ Check \/ AtWork)
  BY <1>22
<1>23. ASSUME Activate PROVE (run'.op # None /\ run'.pc \in {"activate", "apply"} => Verify \/ Check \/ AtWork)
  BY <1>23, ActivateDoes DEF Moved
<1>24. ASSUME Revoke PROVE (run'.op # None /\ run'.pc \in {"activate", "apply"} => Verify \/ Check \/ AtWork)
  BY <1>24, RevokeDoes DEF Moved
<1>25. ASSUME Revoked PROVE (run'.op # None /\ run'.pc \in {"activate", "apply"} => Verify \/ Check \/ AtWork)
  BY <1>25, RevokedDoes DEF Moved
<1>26. ASSUME Password PROVE (run'.op # None /\ run'.pc \in {"activate", "apply"} => Verify \/ Check \/ AtWork)
  BY <1>26, PasswordDoes DEF Moved
<1>27. ASSUME Claim PROVE (run'.op # None /\ run'.pc \in {"activate", "apply"} => Verify \/ Check \/ AtWork)
  BY <1>27, ClaimDoes DEF Moved
<1>28. ASSUME Validate PROVE (run'.op # None /\ run'.pc \in {"activate", "apply"} => Verify \/ Check \/ AtWork)
  BY <1>28, ValidateDoes DEF Moved
<1>29. ASSUME Gone PROVE (run'.op # None /\ run'.pc \in {"activate", "apply"} => Verify \/ Check \/ AtWork)
  BY <1>29, GoneDoes DEF Moved, Concluded, Stops, Idle
<1>30. ASSUME External PROVE (run'.op # None /\ run'.pc \in {"activate", "apply"} => Verify \/ Check \/ AtWork)
  BY <1>30, ExternalDoes DEF Stops, Idle
<1>31. ASSUME Check PROVE (run'.op # None /\ run'.pc \in {"activate", "apply"} => Verify \/ Check \/ AtWork)
  BY <1>31
<1>32. ASSUME SaveEntered PROVE (run'.op # None /\ run'.pc \in {"activate", "apply"} => Verify \/ Check \/ AtWork)
  BY <1>32, SaveEnteredDoes DEF Moved
<1>33. ASSUME Attach PROVE (run'.op # None /\ run'.pc \in {"activate", "apply"} => Verify \/ Check \/ AtWork)
  BY <1>33, AttachDoes DEF Moved
<1>34. ASSUME UpdateEndpoints PROVE (run'.op # None /\ run'.pc \in {"activate", "apply"} => Verify \/ Check \/ AtWork)
  BY <1>34, UpdateEndpointsDoes DEF Stops, Idle
<1>35. ASSUME Reactivate PROVE (run'.op # None /\ run'.pc \in {"activate", "apply"} => Verify \/ Check \/ AtWork)
  BY <1>35, ReactivateDoes DEF Moved
<1>36. ASSUME ConfigureConnection PROVE (run'.op # None /\ run'.pc \in {"activate", "apply"} => Verify \/ Check \/ AtWork)
  BY <1>36, ConfigureConnectionDoes DEF Stops, Idle
<1>37. ASSUME Commit PROVE (run'.op # None /\ run'.pc \in {"activate", "apply"} => Verify \/ Check \/ AtWork)
  BY <1>37, CommitDoes DEF Moved, Stops, Idle
<1>38. ASSUME Interrupt PROVE (run'.op # None /\ run'.pc \in {"activate", "apply"} => Verify \/ Check \/ AtWork)
  BY <1>38, InterruptDoes DEF Stops, Idle
<1>39. ASSUME Switch PROVE (run'.op # None /\ run'.pc \in {"activate", "apply"} => Verify \/ Check \/ AtWork)
  BY <1>a, <1>39, SwitchDoes DEF Live
<1>40. ASSUME Unregister PROVE (run'.op # None /\ run'.pc \in {"activate", "apply"} => Verify \/ Check \/ AtWork)
  BY <1>a, <1>40, UnregisterDoes DEF Live
<1>41. UNCHANGED <<op, run, cred, conn, endpoint>> => (run'.op # None /\ run'.pc \in {"activate", "apply"} => Verify \/ Check \/ AtWork)
  BY DEF AtWork
<1>42. ASSUME NEW o \in Ops, ReconcileStep(o) PROVE UNCHANGED <<op, run, cred, conn, endpoint>>
  BY <1>42, ReconcileStepDoes
<1>43. ASSUME Land PROVE UNCHANGED <<op, run, cred, conn, endpoint>>
  BY <1>43, LandDoes
<1>44. ASSUME Suspend PROVE UNCHANGED <<op, run, cred, conn, endpoint>>
  BY <1>44, SuspendDoes
<1>45. ASSUME Foreign PROVE UNCHANGED <<op, run, cred, conn, endpoint>>
  BY <1>45, ForeignDoes
<1> QED
  BY Failures, <1>1, <1>2, <1>3, <1>4, <1>5, <1>6, <1>7, <1>8, <1>9, <1>10, <1>11, <1>12, <1>13, <1>14, <1>15, <1>16, <1>17,
     <1>18, <1>19, <1>20, <1>21, <1>22, <1>23, <1>24, <1>25, <1>26, <1>27, <1>28, <1>29, <1>30, <1>31, <1>32, <1>33, <1>34,
     <1>35, <1>36, <1>37, <1>38, <1>39, <1>40, <1>41, <1>42, <1>43, <1>44, <1>45 DEF Next, Execution

(* No revocation is about the secret of a row that is in use. *)
LEMMA RowSpared ==
  ASSUME NoneIsNoOp, IMAPIsProtocol, LimitsAreNat, LocalTypes, OpTypes, RemoteTypes, Control, References, Secrets, Creations, Revocations, Passwords, NEW c \in Rows, cred[c].state \in {"active", "candidate"}
  PROVE  Spared(cred[c].key)
<1>0. cred[c] \in RowOf
  BY DEF LocalTypes, Rows
<1>1. PICK k \in 0..MaxKeys : k = cred[c].key
  BY <1>0 DEF RowOf
<1>2. ASSUME run.op # None, run.pc = "credential.revoke" PROVE cred[run.old].key # k
  <2>1. run.old \in Rows /\ cred[run.old].source = "managed" /\ cred[run.old].state = "revocation_pending"
    BY <1>2 DEF References, OldRow, OfState, Rows
  <2>2. SUFFICES ASSUME cred[run.old].key = k PROVE FALSE
    OBVIOUS
  <2>3. k # 0
    BY <2>1, <2>2 DEF Secrets, Below, RowsBelow
  <2>4. k \in Keys /\ AppPassword(k)
    BY <1>1, <2>1, <2>2, <2>3, LimitsAreNat DEF AppPassword, Keys
  <2>5. cred[c].source = "managed"
    BY <1>1, <2>4 DEF Secrets, Apart, ApartRows
  <2>6. c = run.old
    BY <1>1, <2>1, <2>2, <2>5 DEF Secrets, Distinct
  <2> QED BY <2>1, <2>6
<1>3. \A call \in late : call.name = "credential.revoke" => call.key # k
  BY <1>1 DEF Secrets, LateRevocations
<1> QED BY <1>1, <1>2, <1>3 DEF Spared

(* None is about a secret that was entered. *)
LEMMA SecretSpared ==
  ASSUME NoneIsNoOp, IMAPIsProtocol, LimitsAreNat, LocalTypes, OpTypes, RemoteTypes, Control, References, Secrets, Creations, Revocations, Passwords, NEW o \in Ops, Open(o)
  PROVE  Spared(op[o].request.secret)
<1>1. PICK k \in 0..MaxKeys : k = op[o].request.secret
  BY DEF Control, Requested, Request
<1>2. k \in Keys => ~AppPassword(k)
  BY <1>1 DEF Secrets, Apart, ApartOps
<1>3. ASSUME run.op # None, run.pc = "credential.revoke" PROVE cred[run.old].key # k
  <2>1. run.old \in Rows /\ cred[run.old].source = "managed"
    BY <1>3 DEF References, OldRow, OfState, Rows
  <2>2. cred[run.old].key # 0
    BY <2>1 DEF Secrets, Below, RowsBelow
  <2>3. cred[run.old].key = k => k \in Keys /\ AppPassword(k)
    BY <1>1, <2>1, <2>2, LimitsAreNat DEF AppPassword, Keys
  <2> QED BY <1>2, <2>3
<1>4. ASSUME NEW call \in late, call.name = "credential.revoke" PROVE call.key # k
  <2>1. call.key # 0
    BY <1>4 DEF Secrets, Below, LateBelow
  <2>2. call.key = k => k \in Keys /\ AppPassword(k)
    BY <1>1, <1>4, <2>1, LimitsAreNat DEF AppPassword, Keys
  <2> QED BY <1>2, <2>2
<1> QED BY <1>1, <1>3, <1>4 DEF Spared

(* What is performed takes no secret away, unless it revokes it. *)
LEMMA PerformedGood ==
  ASSUME LimitsAreNat, RemoteTypes, NEW call \in CallRow, call.name # "mailbox.delete" => call.key # 0, Perform(call),
         NEW k, Good(k), call.name = "credential.revoke" => call.key # k
  PROVE  k \in account'.accepted \/ k \in lost'
<1>1. CASE call.name = "credential.revoke"
  BY <1>1, PerformDoes DEF Good
<1>2. CASE call.name # "credential.revoke"
  <2>1. account' = Effect(call) /\ lost' = lost \cup (account.accepted \ Effect(call).accepted)
    BY <1>2 DEF Perform
  <2> QED BY <2>1 DEF Good
<1> QED BY <1>1, <1>2

(* A secret stays good, or becomes invalid otherwise than by a revocation. *)
LEMMA GoodStays ==
  ASSUME NoneIsNoOp, IMAPIsProtocol, LimitsAreNat, LocalTypes, OpTypes, RemoteTypes, Control, References, Secrets, Creations, Revocations, Passwords, Next, NEW k, Good(k), Spared(k)
  PROVE  k \in account'.accepted \/ k \in lost'
<1> USE NoneIsNoOp, IMAPIsProtocol, LimitsAreNat DEF vars, localVars, opVars, bounds, history, remoteVars
<1>1. ASSUME Provider PROVE k \in account'.accepted \/ k \in lost'
  <2>1. run.op # None /\ run.pc \in Calls /\ (Perform(Call) \/ UNCHANGED <<account, lost>>)
    BY <1>1, ProviderDoes
  <2>2. CASE Perform(Call)
    <3>1. Call \in CallRow /\ (Call.name # "mailbox.delete" => Call.key # 0)
      BY <2>1, CallKey DEF Keys
    <3>2. Call.name = "credential.revoke" => Call.key # k
      BY <2>1, CallIs DEF Spared
    <3> QED BY <2>2, <3>1, <3>2, PerformedGood
  <2> QED BY <2>1, <2>2 DEF Good
<1>2. ASSUME Land PROVE k \in account'.accepted \/ k \in lost'
  <2>1. PICK call \in late : Perform(call) \/ UNCHANGED <<account, lost>>
    BY <1>2, LandDoes
  <2>2. CASE Perform(call)
    <3>1. call \in CallRow /\ (call.name # "mailbox.delete" => call.key # 0)
      BY LateKey
    <3>2. call.name = "credential.revoke" => call.key # k
      BY DEF Spared
    <3> QED BY <2>2, <3>1, <3>2, PerformedGood
  <2> QED BY <2>1, <2>2 DEF Good
<1>3. ASSUME Foreign PROVE k \in account'.accepted \/ k \in lost'
  BY <1>3, ForeignDoes DEF Good
<1> QED BY <1>1, <1>2, <1>3, AccountMoves DEF Good

-----------------------------------------------------------------------------
(* What endpoints log in with, step by step. *)

(* One app password is in use. *)
LEMMA OneActiveStep ==
  ASSUME NoneIsNoOp, IMAPIsProtocol, LimitsAreNat, LocalTypes, OpTypes, RemoteTypes, Control, References, Secrets, Creations, Revocations, Passwords, Service, Next
  PROVE  OneActive'
<1> USE NoneIsNoOp, IMAPIsProtocol, LimitsAreNat DEF vars, localVars, opVars, bounds, history, remoteVars
<1> SUFFICES ASSUME NEW c \in Rows', NEW d \in Rows', c # d, cred'[c].source = "managed", cred'[c].state = "active",
                    cred'[d].source = "managed", cred'[d].state = "active"
             PROVE  FALSE
  BY DEF OneActive, OfState, Rows
<1>a. \A u, w \in Rows : cred[u].source = "managed" /\ cred[u].state = "active" /\ cred[w].source = "managed" /\ cred[w].state = "active" => u = w
  BY DEF Service, OneActive, OfState, Rows
<1>1. ASSUME cred' = cred PROVE FALSE
  BY <1>a, <1>1 DEF Rows
<1>2. ASSUME Activate PROVE FALSE
  <2>1. CASE cred' = cred
    BY <1>1, <2>1
  <2>2. CASE cred' # cred
    <3>1. SameRows /\ \A w \in Rows : cred'[w].state = ActivatedState(op[run.op].cand, w)
      BY <1>2, <2>2, ActivateDoes
    <3>2. \A w \in Rows : cred'[w].source = "managed" /\ cred'[w].state = "active" => w = op[run.op].cand
      BY <3>1 DEF SameRows, ActivatedState
    <3> QED BY <3>1, <3>2 DEF SameRows
  <2> QED BY <2>1, <2>2
<1>3. ASSUME Revoked PROVE FALSE
  BY <1>a, <1>3, RevokedDoes DEF SameRows
<1>4. ASSUME NEW o \in Ops, ConfirmExternal(o) PROVE FALSE
  BY <1>a, <1>4, RowsDisused DEF SameRows
<1>5. ASSUME Keep PROVE FALSE
  BY <1>a, <1>5, KeepDoes DEF Adds, Rows
<1>6. ASSUME SaveEntered \/ Attach PROVE FALSE
  <2>1. c \in Rows /\ d \in Rows /\ cred'[c] = cred[c] /\ cred'[d] = cred[d]
    BY <1>6, RowsEntered DEF Adds, Rows, EnteredRow
  <2> QED BY <1>a, <2>1
<1>7. ASSUME UpdateEndpoints PROVE FALSE
  <2>1. c \in Rows /\ d \in Rows
    BY <1>7, RowsUpdated DEF EnteredRow
  <2>2. cred'[c] = cred[c] /\ cred'[d] = cred[d]
    BY <1>7, <2>1, RowsUpdated
  <2> QED BY <1>a, <2>1, <2>2
<1>8. ASSUME Commit PROVE FALSE
  <2>1. CASE Kind(run.op) # "mailbox.deleteRemote"
    BY <1>1, <1>8, <2>1, RowsForgotten
  <2>2. CASE Kind(run.op) = "mailbox.deleteRemote"
    BY <1>8, <2>2, RowsForgotten DEF SameRows
  <2> QED BY <2>1, <2>2
<1>9. ASSUME Reserve \/ ConfigureConnection PROVE cred' = cred
  BY <1>9, ReserveDoes, ConfigureConnectionDoes
<1>10. ASSUME Unregister PROVE FALSE
  BY <1>10, UnregisterDoes DEF Rows
<1> QED BY <1>1, <1>2, <1>3, <1>4, <1>5, <1>6, <1>7, <1>8, <1>9, <1>10, ServiceMoves DEF Stays, Turns, EntersRow

(* What was wanted was offered and tried. *)
LEMMA Wanting ==
  ASSUME NoneIsNoOp, IMAPIsProtocol, LimitsAreNat, LocalTypes, OpTypes, RemoteTypes, Control, References, Secrets, Creations, Revocations, Passwords, Service, EntersRow
  PROVE  LET r == op[run.op].request
         IN  /\ run.op \in Ops /\ Open(run.op) /\ r \in Request /\ Room(r) /\ Choosable(r)
             /\ endpoint' = EndpointsOf(r) /\ UNCHANGED <<conn, account, lost>>
             /\ \A p \in Protocols :
                  /\ r.want[p] \in {0, New} \cup Rows
                  /\ r.want[p] # 0 => p \in conn.templates /\ Good(SecretOf(r, p))
                  /\ ~UpdateEndpoints => r.want[p] \in {0, New}
<1> USE NoneIsNoOp, IMAPIsProtocol, LimitsAreNat DEF vars, localVars, opVars, bounds, history, remoteVars
<1> DEFINE r == op[run.op].request
<1>1. run.op # None /\ run.pc = "apply" /\ Room(r) /\ endpoint' = EndpointsOf(r) /\ UNCHANGED <<conn, account, lost>>
      /\ Kind(run.op) \in Additions \cup {"mailbox.endpoints"} /\ (~UpdateEndpoints => Kind(run.op) \in Additions)
  BY SaveEnteredDoes, AttachDoes, UpdateEndpointsDoes DEF EntersRow, Additions
<1>2. run.op \in Ops /\ Open(run.op) /\ r \in Request /\ r.kind = Kind(run.op)
  BY <1>1, Running DEF Open, Live, Kind
<1>3. Choosable(r) /\ \A p \in Protocols : r.want[p] # 0 => p \in conn.templates /\ Good(SecretOf(r, p))
  BY <1>1, <1>2 DEF Service, Applying
<1>4. \A p \in Protocols : r.want[p] \in {0, New} \cup Rows /\ (~UpdateEndpoints => r.want[p] \in {0, New})
  BY <1>1, <1>2 DEF References, Wishes, Additions
<1> QED BY <1>1, <1>2, <1>3, <1>4

(* No endpoint inherits from a template that is off. *)
LEMMA TemplatesStep ==
  ASSUME NoneIsNoOp, IMAPIsProtocol, LimitsAreNat, LocalTypes, OpTypes, RemoteTypes, Control, References, Secrets, Creations, Revocations, Passwords, Service, Next
  PROVE  Templates'
<1> USE NoneIsNoOp, IMAPIsProtocol, LimitsAreNat DEF vars, localVars, opVars, bounds, history, remoteVars
<1> SUFFICES ASSUME NEW p \in Protocols, endpoint'[p].mode = "inherit" PROVE p \in conn'.templates
  BY DEF Templates, Enabled
<1>a. endpoint[p].mode = "inherit" => p \in conn.templates
  BY DEF Service, Templates, Enabled
<1>1. ASSUME endpoint'[p].mode = endpoint[p].mode, conn'.templates = conn.templates PROVE p \in conn'.templates
  BY <1>a, <1>1
<1>2. ASSUME Reserve PROVE p \in conn'.templates
  BY <1>a, <1>2, ReserveDoes
<1>3. ASSUME Activate PROVE p \in conn'.templates
  <2>1. op[run.op].cand \in 0..MaxCreds /\ conn' = conn /\ (endpoint' = endpoint \/ endpoint' = Activated(op[run.op].cand))
    BY <1>3, ActivateDoes DEF OpTypes, OpRow
  <2> QED BY <1>1, <2>1, EndpointsActivated
<1>4. ASSUME EntersRow PROVE p \in conn'.templates
  <2>1. PICK r \in Request : /\ Room(r) /\ endpoint' = EndpointsOf(r) /\ conn' = conn /\ (r.want[p] # 0 => p \in conn.templates)
    BY <1>4, Wanting
  <2> QED BY <2>1, EndpointsWanted DEF Off
<1>5. ASSUME ConfigureConnection PROVE p \in conn'.templates
  <2>1. run.op # None /\ run.pc = "apply" /\ op[run.op].request.kind = "connection.configure" /\ conn'.templates = op[run.op].request.templates
        /\ endpoint'[p].mode = endpoint[p].mode
    BY <1>5, ConfigureConnectionDoes DEF Kind
  <2>2. Enabled \subseteq op[run.op].request.templates
    BY <2>1 DEF Service, Applying
  <2> QED BY <2>1, <2>2 DEF Enabled
<1>6. ASSUME Revoked \/ Keep \/ Commit \/ (\E o \in Ops : ConfirmExternal(o)) PROVE UNCHANGED <<endpoint, conn>>
  BY <1>6, RevokedDoes, KeepDoes, CommitDoes, ConfirmExternalDoes
<1>7. ASSUME Unregister PROVE FALSE
  BY <1>7, UnregisterDoes
<1> QED BY <1>1, <1>2, <1>3, <1>4, <1>5, <1>6, <1>7, ServiceMoves DEF Stays, Turns

(* What an endpoint logs in with is in use, and good. *)
LEMMA UseStep ==
  ASSUME NoneIsNoOp, IMAPIsProtocol, LimitsAreNat, LocalTypes, OpTypes, RemoteTypes, Control, References, Secrets, Creations, Revocations, Passwords, Service, Next, NEW p \in Protocols, endpoint'[p].cred # 0
  PROVE  /\ mailbox'.remote # "missing" => cred'[endpoint'[p].cred].state \in {"active", "retired"}
         /\ cred'[endpoint'[p].cred].state = "active" => cred'[endpoint'[p].cred].key \in account'.accepted \/ cred'[endpoint'[p].cred].key \in lost'
<1> USE NoneIsNoOp, IMAPIsProtocol, LimitsAreNat DEF vars, localVars, opVars, bounds, history, remoteVars
<1> DEFINE d == endpoint[p].cred
           e == endpoint'[p].cred
           r == op[run.op].request
           c == op[run.op].cand
           Aim == /\ mailbox'.remote # "missing" => cred'[e].state \in {"active", "retired"}
                  /\ cred'[e].state = "active" => cred'[e].key \in account'.accepted \/ cred'[e].key \in lost'
           Kept == /\ e = d /\ cred'[d].key = cred[d].key /\ (cred'[d].state = cred[d].state \/ cred'[d].state = "retired")
                   /\ mailbox.remote = "missing" => mailbox'.remote = "missing"
<1>a. d # 0 => /\ d \in Rows /\ p \in Enabled
               /\ mailbox.remote # "missing" => cred[d].state \in {"active", "retired"}
               /\ cred[d].state = "active" => Good(cred[d].key)
  <2>1. d # 0 => d \in Rows /\ endpoint[p].mode # "disabled" /\ endpoint[p] \in EndpointRow
    BY DEF References, EndpointsRefer, LocalTypes
  <2>2. d # 0 => p \in Enabled
    BY <2>1 DEF Enabled, EndpointRow
  <2> QED BY <2>1, <2>2 DEF Service, NoneLeftBehind, Serving
<1>b. ASSUME NEW w \in Rows, cred[w].state \in {"active", "candidate"}, Good(cred[w].key)
      PROVE  cred[w].key \in account'.accepted \/ cred[w].key \in lost'
  BY <1>b, RowSpared, GoodStays
<1>1. ASSUME Kept PROVE Aim
  BY <1>1, <1>a, <1>b
<1>2. ASSUME Stays PROVE Aim
  BY <1>1, <1>2 DEF Stays
<1>3. ASSUME Activate PROVE Aim
  <2>1. CASE cred[c].state = "active"
    BY <1>1, <1>3, <2>1, ActivateDoes
  <2>2. CASE cred[c].state # "active"
    <3>1. /\ mailbox'.remote = mailbox.remote /\ endpoint' = Activated(c) /\ SameRows /\ \A w \in Rows : cred'[w].state = ActivatedState(c, w)
          /\ run.op # None /\ run.pc = "activate" /\ run.op \in Ops
      BY <1>3, <2>2, ActivateDoes
    <3>2. c \in 0..MaxCreds /\ c # 0 /\ IsLive(run.op)
      BY <3>1, Running DEF OpRow, References, HasCandidate, IsLive, Live
    <3>3. c \in Rows /\ cred[c].state = "candidate"
      BY <2>2, <3>1, <3>2 DEF References, Candidates
    <3>4. CASE p \in For(c)
      <4>1. e = c /\ cred'[c].state = "active" /\ cred'[c].key = cred[c].key
        BY <3>1, <3>2, <3>3, <3>4, EndpointsActivated DEF SameRows, ActivatedState
      <4>2. Good(cred[c].key)
        BY <3>1 DEF Service, Activating
      <4> QED BY <1>b, <3>3, <4>1, <4>2
    <3>5. CASE p \notin For(c)
      <4>1. e = d /\ d # 0
        BY <3>1, <3>2, <3>5, EndpointsActivated
      <4>2. d # c /\ cred[d].source # "managed" /\ d \in Rows
        BY <1>a, <3>5, <4>1 DEF For, Managed
      <4>3. cred'[d].state = cred[d].state /\ cred'[d].key = cred[d].key
        BY <3>1, <4>2 DEF SameRows, ActivatedState
      <4> QED BY <1>1, <3>1, <4>1, <4>3
    <3> QED BY <3>4, <3>5
  <2> QED BY <2>1, <2>2
<1>4. ASSUME Revoked PROVE Aim
  <2>1. e = d /\ d \in Rows /\ UNCHANGED mailbox /\ cred[run.old].state = "revocation_pending"
    BY <1>a, <1>4, RevokedDoes DEF OfState
  <2>2. CASE d = run.old
    <3>1. cred'[d].state = "revoked"
      BY <1>4, <2>1, <2>2, RevokedDoes
    <3> QED BY <1>a, <2>1, <2>2, <3>1
  <2>3. CASE d # run.old
    BY <1>1, <1>4, <2>1, <2>3, RevokedDoes
  <2> QED BY <2>2, <2>3
<1>5. ASSUME NEW o \in Ops, ConfirmExternal(o) PROVE Aim
  <2>1. e = d /\ d \in Rows /\ mailbox'.remote = mailbox.remote
    BY <1>a, <1>5, ConfirmExternalDoes
  <2>2. cred'[d].key = cred[d].key /\ (cred'[d].state = cred[d].state \/ cred'[d].state = "retired")
    BY <1>5, <2>1, RowsDisused DEF SameRows
  <2> QED BY <1>1, <2>1, <2>2
<1>6. ASSUME Keep PROVE Aim
  <2>1. e = d /\ d \in Rows /\ UNCHANGED mailbox
    BY <1>a, <1>6, KeepDoes
  <2>2. cred'[d] = cred[d]
    BY <1>6, <2>1, KeepDoes DEF Adds
  <2> QED BY <1>1, <2>1, <2>2
<1>7. ASSUME EntersRow PROVE Aim
  <2>1. /\ run.op \in Ops /\ Open(run.op) /\ r \in Request /\ Room(r) /\ Choosable(r) /\ endpoint' = EndpointsOf(r)
        /\ UNCHANGED <<account, lost>> /\ r.want[p] \in {0, New} \cup Rows /\ (r.want[p] # 0 => Good(SecretOf(r, p)))
        /\ (~UpdateEndpoints => r.want[p] \in {0, New})
    BY <1>7, Wanting
  <2>2. r.want[p] # 0 /\ e = IF r.want[p] = New THEN Len(cred) + 1 ELSE r.want[p]
    BY <2>1, EndpointsWanted DEF Off
  <2>3. CASE r.want[p] = New
    <3>1. e = Len(cred) + 1 /\ cred'[e].state = "active" /\ cred'[e].key = r.secret
      BY <1>7, <2>2, <2>3, RowsEntered, RowsUpdated DEF EntersRow, Adds, EnteredRow
    <3>2. Good(r.secret)
      <4>1. r.want[p] # 0 /\ SecretOf(r, p) = r.secret
        BY <2>3 DEF SecretOf, New
      <4> QED BY <2>1, <4>1
    <3> QED BY <2>1, <3>1, <3>2 DEF Good
  <2>4. CASE r.want[p] # New
    <3>1. UpdateEndpoints /\ e = r.want[p] /\ e \in Rows
      BY <2>1, <2>2, <2>4
    <3>2. cred[e].state = "active"
      BY <2>1, <3>1 DEF Choosable, Rows
    <3>3. cred'[e] = cred[e]
      BY <3>1, RowsUpdated
    <3>4. Good(cred[e].key)
      BY <2>1, <2>2, <2>4, <3>1 DEF SecretOf
    <3> QED BY <2>1, <3>2, <3>3, <3>4 DEF Good
  <2> QED BY <2>3, <2>4
<1>8. ASSUME ConfigureConnection PROVE Aim
  BY <1>1, <1>8, ConfigureConnectionDoes
<1>9. ASSUME Commit PROVE Aim
  <2>1. CASE Kind(run.op) # "mailbox.deleteRemote"
    BY <1>1, <1>9, <2>1, CommitDoes, RowsForgotten
  <2>2. CASE Kind(run.op) = "mailbox.deleteRemote"
    <3>1. e = d /\ d \in Rows /\ mailbox'.remote = "missing"
      BY <1>a, <1>9, <2>2, CommitDoes
    <3>2. cred'[d].state # "active"
      BY <1>9, <2>2, <3>1, RowsForgotten
    <3> QED BY <3>1, <3>2
  <2> QED BY <2>1, <2>2
<1>10. ASSUME Reserve PROVE Aim
  <2>1. CASE UNCHANGED <<mailbox, endpoint>>
    BY <1>1, <1>10, <2>1, ReserveDoes
  <2>2. CASE ~UNCHANGED <<mailbox, endpoint>>
    BY <1>10, <2>2, ReserveDoes
  <2> QED BY <2>1, <2>2
<1>11. ASSUME Unregister PROVE FALSE
  BY <1>11, UnregisterDoes
<1>12. Aim
  BY <1>2, <1>3, <1>4, <1>5, <1>6, <1>7, <1>8, <1>9, <1>10, <1>11, ServiceMoves DEF Turns
<1> QED BY <1>12

(* What was tried before it is activated is good until it is. *)
LEMMA ActivatingStep ==
  ASSUME NoneIsNoOp, IMAPIsProtocol, LimitsAreNat, LocalTypes, OpTypes, RemoteTypes, Control, References, Secrets, Creations, Revocations, Passwords, Service, Next
  PROVE  Activating'
<1> USE NoneIsNoOp, IMAPIsProtocol, LimitsAreNat DEF vars, localVars, opVars, bounds, history, remoteVars
<1> SUFFICES ASSUME run'.op # None, run'.pc = "activate"
             PROVE  LET k == cred'[op'[run'.op].cand].key IN k \in account'.accepted \/ k \in lost'
  BY DEF Activating, Good
<1>1. CASE Verify
  <2>1. run'.op = run.op /\ UNCHANGED <<cred, op, account>> /\ Verified(op[run.op].cand)
    BY <1>1, VerifyDoes DEF Moved
  <2> QED BY <2>1 DEF Verified, Accepted
<1>2. CASE AtWork
  <2>1. run.op # None /\ run.pc = "activate" /\ run' = run /\ op'[run.op].cand = op[run.op].cand /\ cred' = cred
    BY <1>2 DEF AtWork
  <2>2. PICK c \in Rows : c = op[run.op].cand /\ cred[c].state \in {"active", "candidate"}
    BY <2>1, Running DEF References, HasCandidate, Candidates, IsLive, Live
  <2>3. Good(cred[c].key)
    BY <2>1, <2>2 DEF Service, Activating
  <2>4. cred[c].key \in account'.accepted \/ cred[c].key \in lost'
    BY <2>2, <2>3, RowSpared, GoodStays
  <2> QED BY <2>1, <2>2, <2>4
<1>3. CASE Check
  BY <1>3, CheckDoes DEF Moved
<1> QED BY <1>1, <1>2, <1>3, WorkGoesOn

(* So is what was tried before it is applied, and what is wanted can be chosen. *)
LEMMA ApplyingStep ==
  ASSUME NoneIsNoOp, IMAPIsProtocol, LimitsAreNat, LocalTypes, OpTypes, RemoteTypes, Control, References, Secrets, Creations, Revocations, Passwords, Service, Next
  PROVE  Applying'
<1> USE NoneIsNoOp, IMAPIsProtocol, LimitsAreNat DEF vars, localVars, opVars, bounds, history, remoteVars
<1> SUFFICES ASSUME run'.op # None, run'.pc = "apply" PROVE Applying'
  BY DEF Applying
<1>1. CASE Check
  <2>1. /\ run.op # None /\ run.op \in Ops /\ run.pc = "check" /\ run'.op = run.op /\ UNCHANGED <<cred, endpoint, conn, op, account>>
        /\ Checked(op[run.op].request) /\ op[run.op].request = op'[run'.op].request
    BY <1>1, CheckDoes DEF Moved
  <2>2. Open(run.op) /\ op[run.op].request \in Request
    BY <2>1, Running DEF Open, Live
  <2>r. PICK r \in Request : r = op[run.op].request
    BY <2>2
  <2>3. ASSUME r.kind \in Additions \cup {"mailbox.endpoints"}
        PROVE  Choosable(r) /\ \A p \in Protocols : r.want[p] # 0 => p \in conn.templates /\ SecretOf(r, p) \in account.accepted
    <3>1. CASE r.kind \in Additions
      <4>1. CreationChecked(r)
        BY <2>1, <2>r, <3>1 DEF Checked, Additions
      <4>2. \A p \in Protocols : r.want[p] \notin Rows
        <5>1. \A p \in Protocols : r.want[p] \in {0, New}
          BY <2>r, <2>1, <2>2, <3>1 DEF References, Wishes
        <5>2. Rows \subseteq 1..MaxCreds
          BY LimitsAreNat DEF LocalTypes, Rows
        <5> QED BY <5>1, <5>2, LimitsAreNat DEF New
      <4> QED BY <4>1, <4>2 DEF CreationChecked, Offered, Tried, Accepted, Choosable, Rows
    <3>2. CASE r.kind = "mailbox.endpoints"
      <4>1. EndpointsChecked(r)
        BY <2>r, <2>1, <3>2 DEF Checked, Additions
      <4> QED BY <4>1 DEF EndpointsChecked, Offered, Tried, Accepted
    <3> QED BY <2>3, <3>1, <3>2
  <2>4. r.kind = "connection.configure" => Enabled \subseteq r.templates
    BY <2>r, <2>1 DEF Checked, ConfigurationChecked, Additions
  <2>5. \A p : SecretOf(r, p)' = SecretOf(r, p)
    BY <2>1 DEF SecretOf
  <2>6. Choosable(r)' = Choosable(r) /\ Enabled' = Enabled
    BY <2>1 DEF Choosable, Enabled
  <2>7. op'[run'.op].request = r
    BY <2>1, <2>r
  <2> QED BY <2>1, <2>3, <2>4, <2>5, <2>6, <2>7 DEF Applying, Good
<1>2. CASE AtWork
  <2>1. run.op # None /\ run.pc = "apply" /\ run' = run /\ UNCHANGED <<cred, endpoint>> /\ conn'.templates = conn.templates
        /\ op'[run'.op].request = op[run.op].request
    BY <1>2 DEF AtWork
  <2>2. Open(run.op) /\ run.op \in Ops /\ op[run.op].request \in Request
    BY <2>1, Running DEF Open, Live
  <2>r. PICK r \in Request : r = op[run.op].request
    BY <2>2
  <2>3. ASSUME r.kind \in Additions \cup {"mailbox.endpoints"}
        PROVE  Choosable(r) /\ \A p \in Protocols : r.want[p] # 0 => p \in conn.templates /\ Good(SecretOf(r, p))
    BY <2>r, <2>1, <2>3 DEF Service, Applying
  <2>4. r.kind = "connection.configure" => Enabled \subseteq r.templates
    BY <2>r, <2>1 DEF Service, Applying
  <2>5. ASSUME r.kind \in Additions \cup {"mailbox.endpoints"}, NEW p \in Protocols, r.want[p] # 0
        PROVE  SecretOf(r, p) \in account'.accepted \/ SecretOf(r, p) \in lost'
    <3>1. CASE r.want[p] = New
      BY <2>r, <2>2, <2>3, <2>5, <3>1, SecretSpared, GoodStays DEF SecretOf
    <3>2. CASE r.want[p] # New
      <4>1. r.want[p] \in Rows
        BY <2>r, <2>2, <2>5, <3>2 DEF References, Wishes
      <4>2. cred[r.want[p]].state = "active" /\ Good(cred[r.want[p]].key)
        BY <2>r, <2>3, <2>5, <3>2, <4>1 DEF Choosable, SecretOf, Rows
      <4> QED BY <3>2, <4>1, <4>2, RowSpared, GoodStays DEF SecretOf
    <3> QED BY <3>1, <3>2
  <2>6. \A p : SecretOf(r, p)' = SecretOf(r, p)
    BY <2>1 DEF SecretOf
  <2>7. Choosable(r)' = Choosable(r) /\ Enabled' = Enabled
    BY <2>1 DEF Choosable, Enabled
  <2>8. op'[run'.op].request = r
    BY <2>1, <2>r
  <2> QED BY <2>1, <2>3, <2>4, <2>5, <2>6, <2>7, <2>8 DEF Applying, Good
<1>3. CASE Verify
  BY <1>3, VerifyDoes DEF Moved
<1> QED BY <1>1, <1>2, <1>3, WorkGoesOn

(* Together. *)
LEMMA ServiceStep ==
  ASSUME NoneIsNoOp, IMAPIsProtocol, LimitsAreNat, LocalTypes, OpTypes, RemoteTypes, Control, References, Secrets, Creations, Revocations, Passwords, Service, Next
  PROVE  Service'
<1>1. NoneLeftBehind'
  BY UseStep DEF NoneLeftBehind, Enabled
<1>2. Serving'
  BY UseStep DEF Serving, Good
<1> QED BY <1>1, <1>2, OneActiveStep, TemplatesStep, ActivatingStep, ApplyingStep DEF Service

-----------------------------------------------------------------------------
(* The inductive invariant. *)

IInv == /\ LocalTypes /\ OpTypes /\ RemoteTypes /\ Control /\ References
        /\ Secrets /\ Creations /\ Revocations /\ Passwords /\ Service

(* It holds at the beginning, whatever mailbox there is. *)
LEMMA InitHolds ==
  ASSUME NoneIsNoOp, LimitsAreNat, InitiallyConsistent, Init
  PROVE  IInv
<1> USE NoneIsNoOp, LimitsAreNat
<1>1. PICK i \in Initially :
         /\ conn = i.conn /\ mailbox = i.mailbox /\ endpoint = i.endpoint /\ cred = i.cred
         /\ account = i.account /\ fresh = i.fresh
         /\ op = [o \in Ops |-> Settled(IF o \in i.asking THEN "none" ELSE "cancelled")]
         /\ foreign = i.foreign /\ changes = i.changes /\ trouble = i.trouble
  BY DEF Init
<1>2. /\ step = [o \in Ops |-> NotRun] /\ run = Idle /\ late = {}
      /\ maker = [k \in Keys |-> None] /\ lost = {} /\ setter = None /\ named = {}
  BY DEF Init
<1>3. Consistent(i)
  BY <1>1, InitiallyConsistent
<1>4. LocalTypes
  BY <1>1, <1>3 DEF Consistent, LocalTypes
<1>5. \A o \in Ops :
                   /\ op[o] \in OpRow /\ op[o].request = None /\ op[o].status \in {"none", "cancelled"}
                   /\ op[o].cand = 0 /\ op[o].private = 0 /\ op[o].claim = 0 /\ op[o].claimed = 0
  <2>1. 0 \in 0..MaxCreds /\ 0 \in 0..MaxKeys /\ 0 \in Nat
    OBVIOUS
  <2> QED BY <1>1, <2>1 DEF Settled, OpRow
<1>6. run.op = None /\ run.pc = "idle" /\ run.answer = "none" /\ run.old = 0 /\ run.secret = 0
  BY <1>2 DEF Idle
<1>7. \A o \in Ops : step[o] = NotRun /\ \A s \in Steps : step[o][s] = "none"
  BY <1>2 DEF NotRun
<1>8. OpTypes
  <2>1. op \in [Ops -> OpRow]
    BY <1>1, <1>5
  <2>2. step \in [Ops -> [Steps -> StepStatus]]
    BY <1>2 DEF NotRun, StepStatus
  <2> QED BY <1>2, <2>1, <2>2, IdleIsRun DEF OpTypes
<1>9. RemoteTypes
  BY <1>1, <1>2, <1>3 DEF Consistent, RemoteTypes
<1>10. \A o \in Ops : ~Open(o) /\ ~IsLive(o)
  BY <1>5 DEF Open, IsLive, Live
<1>11. Control
  <2>1. OneLive /\ Executing /\ Requested /\ OnPath /\ Answers /\ Calling
    BY <1>2, <1>5, <1>6, <1>10 DEF OneLive, Executing, Requested, OnPath, Answers, Calling, Calls
  <2>2. Settling /\ Untouched /\ Failing /\ GivenUp
    BY <1>5, <1>7 DEF Settling, Unsure, Untouched, Failing, GivenUp
  <2> QED BY <2>1, <2>2 DEF Control
<1>12. References
  <2>1. EndpointsRefer
    <3> SUFFICES ASSUME NEW p \in Protocols
                 PROVE  endpoint[p].cred \in Rows \cup {0} /\ (endpoint[p].mode = "disabled" => endpoint[p].cred = 0)
      BY DEF EndpointsRefer
    <3> QED BY <1>1, <1>3 DEF Consistent, Rows
  <2>2. Candidates /\ Uncreated /\ Created /\ HasCandidate /\ OldRow /\ Reserved /\ ReservedAt /\ PasswordAt /\ Wishes
    BY <1>6, <1>10 DEF Candidates, Uncreated, Created, HasCandidate, OldRow, Reserved, ReservedAt, PasswordAt, Wishes
  <2> QED BY <2>1, <2>2 DEF References
\* What the rows at the beginning are about.
<1>13. \A k \in account.accepted : k < fresh
  BY <1>1, <1>3 DEF Consistent
<1>14. \A c \in Rows :
                      /\ cred[c].key < fresh
                      /\ cred[c].state = "revoked" => cred[c].source = "managed" /\ ~cred[c].secret /\ cred[c].key \notin account.accepted
  BY <1>1, <1>3 DEF Consistent, Rows
<1>15. \A c \in Rows : cred[c].source = "managed" =>
          /\ cred[c].key # 0 /\ cred[c].key # account.primary
          /\ \A d \in Rows : d # c => cred[d].key # cred[c].key
          /\ \A d \in Rows : d # c /\ cred[d].source = "managed" => {cred[c].state, cred[d].state} # {"active"}
  <2> SUFFICES ASSUME NEW c \in Rows, cred[c].source = "managed"
               PROVE  /\ cred[c].key # 0 /\ cred[c].key # account.primary
                      /\ \A d \in Rows : d # c => cred[d].key # cred[c].key
                      /\ \A d \in Rows : d # c /\ cred[d].source = "managed" => {cred[c].state, cred[d].state} # {"active"}
    OBVIOUS
  <2>1. cred[c].key \notin {0, account.primary}
    BY <1>1, <1>3 DEF Consistent, Rows
  <2>2. \A d \in Rows \ {c} : cred[d].key # cred[c].key /\ (cred[d].source = "managed" => {cred[c].state, cred[d].state} # {"active"})
    <3>1. i.cred = cred /\ Rows = DOMAIN cred
      BY <1>1 DEF Rows
    <3> QED BY <1>3, <3>1, Zenon DEF Consistent
  <2> QED BY <2>1, <2>2
<1>16. \A p \in Protocols :
                           /\ endpoint[p].mode = "inherit" => p \in conn.templates
                           /\ endpoint[p].cred # 0 /\ mailbox.remote # "missing" => cred[endpoint[p].cred].state \in {"active", "retired"}
                           /\ endpoint[p].cred # 0 /\ cred[endpoint[p].cred].state = "active" => cred[endpoint[p].cred].key \in account.accepted
  BY <1>1, <1>3 DEF Consistent
<1>17. Secrets
  <2>1. 0 < fresh
    BY <1>9 DEF RemoteTypes, Keys
  <2>2. Below
    BY <1>2, <1>5, <1>6, <1>10, <1>13, <1>14, <1>15, <2>1 DEF Below, AcceptedBelow, RowsBelow, PrivateBelow, LateBelow, MadeBelow
  <2>3. Balance
    BY <1>1, <1>3 DEF Balance, Consistent
  <2>4. \A k \in Keys : AppPassword(k) => \E c \in Rows : cred[c].source = "managed" /\ cred[c].key = k
    BY <1>2 DEF AppPassword
  <2>5. ApartPrimary /\ ApartRows
    BY <1>15, <2>4 DEF ApartPrimary, ApartRows
  <2>6. ApartOps /\ ApartLate
    BY <1>2, <1>5, <1>10 DEF ApartOps, ApartLate, Keys
  <2>7. Distinct /\ LateRevocations
    BY <1>2, <1>15 DEF Distinct, LateRevocations
  <2> QED BY <2>2, <2>3, <2>5, <2>6, <2>7 DEF Secrets, Apart
<1>18. Creations
  BY <1>2, <1>6 DEF Creations, Made, Returned, LateCreations
<1>19. Revocations
  BY <1>6, <1>14 DEF Revocations, Deleted, RevokedIsRefused, RevokedAreManaged, Accepted
<1>20. Passwords
  BY <1>2, <1>10 DEF Passwords, Resets, SetPasswords
<1>21. Service
  <2>1. OneActive
    BY <1>15 DEF OneActive, OfState, Rows
  <2>2. Templates /\ NoneLeftBehind /\ Serving /\ Activating /\ Applying
    BY <1>6, <1>16 DEF Templates, NoneLeftBehind, Serving, Activating, Applying, Enabled, Good
  <2> QED BY <2>1, <2>2 DEF Service
<1> QED BY <1>4, <1>8, <1>9, <1>11, <1>12, <1>17, <1>18, <1>19, <1>20, <1>21 DEF IInv

(* Nothing of it changes as long as no variable does. *)
LEMMA Stutters ==
  ASSUME IInv, UNCHANGED vars
  PROVE  IInv'
<1>1. UNCHANGED <<conn, mailbox, endpoint, cred, op, step, run, account, late, fresh, trouble, foreign, changes, maker, lost, setter, named>>
  BY DEF vars, localVars, opVars, remoteVars, bounds, history
<1>2. LocalTypes' /\ OpTypes' /\ RemoteTypes'
  BY <1>1 DEF IInv, LocalTypes, OpTypes, RemoteTypes
<1>3. Rows' = Rows /\ (\A o : Open(o)' = Open(o)) /\ (\A o : Kind(o)' = Kind(o)) /\ Step' = Step
  BY <1>1 DEF Rows, Open, Kind, Step
<1>c. Control'
  BY <1>1 DEF IInv, Control, OneLive, IsLive, Executing, Requested, Open, OnPath, Answers, Calling, Step, Settling,
     Untouched, Failing, Kind, GivenUp
<1>4. References'
  BY <1>1 DEF IInv, References, EndpointsRefer, Rows, Candidates, IsLive, Kind, Uncreated, Created, Open, HasCandidate,
     OldRow, OfState, Reserved,
    ReservedAt, PasswordAt, Wishes
<1>5. Secrets'
  BY <1>1 DEF IInv, Secrets, Below, AcceptedBelow, RowsBelow, PrivateBelow, LateBelow, MadeBelow, Balance, Apart,
     AppPassword, ApartPrimary, ApartOps,
    ApartLate, ApartRows, Distinct, LateRevocations, Rows, Open
<1>6. Creations'
  BY <1>1 DEF IInv, Creations, Made, Returned, LateCreations, Orphan, Arriving, Unread, Stored, NoRow, InLate, Rows, IsLive
<1>7. Revocations'
  BY <1>1 DEF IInv, Revocations, Deleted, RevokedIsRefused, RevokedAreManaged, Rows, Accepted, Kind
<1>8. Passwords'
  BY <1>1 DEF IInv, Passwords, Resets, SetPasswords, Known, Open, Kind
<1>9. Service'
  <2>1. OneActive' /\ Templates' /\ NoneLeftBehind'
    BY <1>1 DEF IInv, Service, OneActive, OfState, Templates, Enabled, NoneLeftBehind
  <2>2. Serving' /\ Activating'
    BY <1>1 DEF IInv, Service, Serving, Good, Activating
  <2>3. Applying'
    <3>1. Enabled' = Enabled /\ Choosable(op[run.op].request)' = Choosable(op[run.op].request)
      BY <1>1 DEF Enabled, Choosable
    <3>2. \A p \in Protocols : Good(SecretOf(op[run.op].request, p))' = Good(SecretOf(op[run.op].request, p))
      BY <1>1 DEF Good, SecretOf
    <3> QED BY <1>1, <3>1, <3>2 DEF IInv, Service, Applying
  <2> QED BY <2>1, <2>2, <2>3 DEF Service
<1> QED BY <1>2, <1>c, <1>4, <1>5, <1>6, <1>7, <1>8, <1>9 DEF IInv

(* The credentials of a mailbox stay consistent: every step keeps the invariant. *)
THEOREM InvHolds == Spec => []IInv
<1>1. Init => IInv
  BY InitHolds, NoneIsNoOp, LimitsAreNat, InitiallyConsistent
<1>2. IInv /\ [Next]_vars => IInv'
  <2>1. ASSUME IInv, Next PROVE IInv'
    <3>1. LocalTypes' /\ OpTypes' /\ RemoteTypes'
      BY <2>1, NoneIsNoOp, IMAPIsProtocol, LimitsAreNat, LocalTypesStep, OpTypesStep, RemoteTypesStep DEF IInv
    <3>2. Control' /\ References'
      BY <2>1, NoneIsNoOp, IMAPIsProtocol, LimitsAreNat, ControlStep, ReferencesStep DEF IInv
    <3>3. Secrets' /\ Creations' /\ Revocations'
      BY <2>1, NoneIsNoOp, IMAPIsProtocol, LimitsAreNat, SecretsStep, CreationsStep, RevocationsStep DEF IInv
    <3>4. Passwords' /\ Service'
      BY <2>1, NoneIsNoOp, IMAPIsProtocol, LimitsAreNat, PasswordsStep, ServiceStep DEF IInv
    <3> QED BY <3>1, <3>2, <3>3, <3>4 DEF IInv
  <2> QED BY <2>1, Stutters
<1> QED BY <1>1, <1>2, PTL DEF Spec

-----------------------------------------------------------------------------
(* What it says of the mailbox.  *)

(* Rows keep their types, and endpoints refer to rows there are (the columns *)
(* of mailbox_endpoints and mailbox_credentials).                            *)
THEOREM TypeCorrect == Spec => []TypeOK
<1>1. IInv => TypeOK
  <2> SUFFICES ASSUME IInv PROVE TypeOK
    OBVIOUS
  <2>1. LocalTypes /\ OpTypes /\ RemoteTypes /\ EndpointsRefer /\ Executing /\ Requested /\ Balance
    BY DEF IInv, References, Control, Secrets
  <2>2. \A o \in Ops :
                      /\ op[o].status \in {"none", "succeeded", "failed", "cancelled"} \cup Live
                      /\ op[o].status \in Live \cup {"failed"} => op[o].request \in Request
                      /\ {op[o].private, op[o].claim, op[o].claimed} \subseteq Keys \cup {0}
    <3> SUFFICES ASSUME NEW o \in Ops
                 PROVE  /\ op[o].status \in {"none", "succeeded", "failed", "cancelled"} \cup Live
                        /\ op[o].status \in Live \cup {"failed"} => op[o].request \in Request
                        /\ {op[o].private, op[o].claim, op[o].claimed} \subseteq Keys \cup {0}
      OBVIOUS
    <3>1. op[o] \in OpRow
      BY <2>1 DEF OpTypes
    <3>2. op[o].private \in 0..MaxKeys /\ op[o].claim \in 0..MaxKeys /\ op[o].claimed \in 0..MaxKeys
          /\ op[o].status \in {"none", "succeeded", "failed", "cancelled"} \cup Live
      BY <3>1 DEF OpRow
    <3>3. 0..MaxKeys = Keys \cup {0}
      BY LimitsAreNat DEF Keys
    <3> QED BY <2>1, <3>2, <3>3 DEF Requested, Open
  <2>3. /\ conn \in ConnectionRow /\ mailbox \in MailboxRow /\ account \in Account
        /\ cred \in Seq(RowOf) /\ Len(cred) <= MaxCreds /\ endpoint \in [Protocols -> EndpointRow]
    BY <2>1 DEF LocalTypes, RemoteTypes
  <2>4. step \in [Ops -> [Steps -> {"none", "running", "succeeded", "failed", "unknown", "external_reported"}]]
    BY <2>1 DEF OpTypes, StepStatus
  <2> QED BY <2>1, <2>2, <2>3, <2>4 DEF TypeOK, EndpointsRefer, Executing, Balance
<1> QED BY <1>1, InvHolds, PTL

(* No app password that Mailhearth had created is forgotten while it is valid, whatever fails  *)
(* between the call and the row that stores it (managedCredential, reconcileRemoteSteps,       *)
(* ReportLostCredentialCleanup, DeleteMailbox).                                                *)
THEOREM NoneIsForgotten == Spec => []NothingForgotten
<1>1. IInv => NothingForgotten
  <2> SUFFICES ASSUME IInv, NEW k \in account.accepted, maker[k] # None
               PROVE  \/ \E c \in Rows : cred[c].key = k /\ cred[c].secret
                      \/ step[maker[k]][Creation] \in {"running", "unknown", "external_reported"}
                      \/ k \in named
    BY DEF NothingForgotten, Creation
  <2>1. PICK o \in Ops : o = maker[k] /\ k \in Keys
    BY DEF IInv, RemoteTypes, Account
  <2>2. Orphan(k, o) \/ Arriving(k, o) \/ Unread(k, o) \/ Stored(k, o)
    BY <2>1 DEF IInv, Creations, Made
  <2>3. ASSUME Arriving(k, o) PROVE step[o][Creation] = "running"
    <3>1. run.op = o /\ run.pc = "credential.create" /\ run.answer = "ok" /\ run.op # None
      BY <2>1, <2>3, NoneIsNoOp DEF Arriving
    <3>2. Step = Creation
      BY <3>1 DEF IInv, Control, Answers, Step, Creation
    <3> QED BY <3>1, <3>2 DEF IInv, Control, Calling, Calls
  <2> QED BY <2>1, <2>2, <2>3 DEF Orphan, Unread, Stored, Unsure
<1> QED BY <1>1, InvHolds, PTL

(* What is shown as revoked is refused by the provider, whatever late call arrives              *)
(* (verifySavedManagedCredential, commitMailboxManagement).                                     *)
THEOREM RevokedAreRefused == Spec => []RevokedIsRefused
<1>1. IInv => RevokedIsRefused
  BY DEF IInv, Revocations
<1> QED BY <1>1, InvHolds, PTL

(* A password that Mailhearth set can be fetched until somebody did or came too late            *)
(* (operationPassword, setOperationClaim, claimOperationSecret).                                *)
THEOREM PasswordsAreKnown == Spec => []PasswordIsKnown
<1>1. IInv => PasswordIsKnown
  <2> SUFFICES ASSUME IInv, setter # None, op[setter].status # "cancelled", ~op[setter].expired
               PROVE  account.primary \in {op[setter].private, op[setter].claim, op[setter].claimed}
    BY DEF PasswordIsKnown
  <2>1. Known(setter, account.primary)
    BY DEF IInv, Passwords, SetPasswords
  <2> QED BY <2>1 DEF Known
<1> QED BY <1>1, InvHolds, PTL

(* No rotation and no other change takes a mailbox its service away: what its endpoints log in  *)
(* with is current and valid, unless it became invalid by other means than a revocation of      *)
(* Mailhearth's (managedCredential, UpdateEndpoints, ConfigureConnection, ResolveEndpoint).     *)
THEOREM ServiceGoesOn == Spec => []ServiceContinues
<1>1. IInv => ServiceContinues
  <2> SUFFICES ASSUME IInv PROVE ServiceContinues
    OBVIOUS
  <2>1. OneActive /\ Templates /\ NoneLeftBehind /\ Serving
    BY DEF IInv, Service
  <2>2. Cardinality(OfState({"active"})) <= 1
    <3>1. CASE OfState({"active"}) = {}
      BY <3>1, FS_EmptySet
    <3>2. CASE OfState({"active"}) # {}
      <4>1. PICK c : OfState({"active"}) = {c}
        BY <2>1, <3>2 DEF OneActive
      <4>2. Cardinality({c}) = 1
        BY FS_Singleton
      <4> QED BY <4>1, <4>2
    <3> QED BY <3>1, <3>2
  <2>3. ASSUME NEW p \in Protocols, Usable(p) PROVE Works(p) \/ cred[endpoint[p].cred].key \in lost
    BY <2>1, <2>3 DEF Usable, Serving, Good, Works, Accepted
  <2> QED BY <2>1, <2>2, <2>3 DEF ServiceContinues, EndpointsAreCurrent, Templates, NoneLeftBehind
<1> QED BY <1>1, InvHolds, PTL

=============================================================================
