--------------------------- MODULE CredentialsRows --------------------------
(***************************************************************************)
(* The second part of the proofs about Credentials: what operations,       *)
(* executions and endpoints refer to is there, no secret is used before    *)
(* it is made, and app passwords and passwords stay apart.                 *)
(***************************************************************************)
EXTENDS CredentialsTypes

-----------------------------------------------------------------------------
(* Rows. *)

\* Rows stay what they are about, and none is used again.
RowsStay == Unregister \/ (/\ Rows \subseteq Rows'
                          /\ \A c \in Rows : /\ cred'[c].source = cred[c].source /\ cred'[c].key = cred[c].key
                                             /\ cred'[c].state \in {"active", "candidate"} => cred[c].state \in {"active", "candidate"})

(* Rows stay, unless the mailbox is removed. *)
LEMMA RowsStayStep ==
  ASSUME NoneIsNoOp, IMAPIsProtocol, LimitsAreNat, LocalTypes, OpTypes, RemoteTypes, Control, References, Next
  PROVE  RowsStay
<1> USE NoneIsNoOp, IMAPIsProtocol, LimitsAreNat DEF vars, localVars, opVars, bounds, history, remoteVars
<1>1. ASSUME NEW o \in Ops, ConfirmExternal(o) PROVE RowsStay
  BY <1>1, RowsDisused DEF RowsStay, Adds, SameRows, ActivatedState
<1>2. ASSUME Keep PROVE RowsStay
  <2>1. Rows \subseteq Rows' /\ \A c \in Rows : cred'[c] = cred[c]
    BY <1>2, KeepDoes DEF Adds, Rows
  <2> QED BY <2>1 DEF RowsStay
<1>3. ASSUME Activate PROVE RowsStay
  BY <1>3, RowsActivated DEF RowsStay, Adds, SameRows, ActivatedState
<1>4. ASSUME Revoked PROVE RowsStay
  BY <1>4, RevokedDoes DEF RowsStay, Adds, SameRows, ActivatedState
<1>5. ASSUME SaveEntered PROVE RowsStay
  <2>1. Rows \subseteq Rows' /\ \A c \in Rows : cred'[c] = cred[c]
    BY <1>5, RowsEntered DEF Adds, Rows
  <2> QED BY <2>1 DEF RowsStay
<1>6. ASSUME Attach PROVE RowsStay
  <2>1. Rows \subseteq Rows' /\ \A c \in Rows : cred'[c] = cred[c]
    BY <1>6, RowsEntered DEF Adds, Rows
  <2> QED BY <2>1 DEF RowsStay
<1>7. ASSUME UpdateEndpoints PROVE RowsStay
  <2>1. Rows \subseteq Rows' /\ \A c \in Rows : /\ cred'[c].source = cred[c].source /\ cred'[c].key = cred[c].key
                                                /\ cred'[c].state = cred[c].state \/ cred'[c].state = "retired"
    BY <1>7, RowsUpdated
  <2> QED BY <2>1 DEF RowsStay
<1>8. ASSUME Commit PROVE RowsStay
  BY <1>8, RowsForgotten DEF RowsStay, Adds, SameRows, ActivatedState
<1>9. ASSUME Unregister PROVE RowsStay
  BY <1>9 DEF RowsStay
<1>10. UNCHANGED <<cred>> => RowsStay
  BY DEF RowsStay, Rows
<1>11. ASSUME NEW o \in Ops, NEW k \in Kinds, Queue(o, k) PROVE UNCHANGED <<cred>>
  BY <1>11, QueueDoes
<1>12. ASSUME NEW o \in Ops, Execute(o) PROVE UNCHANGED <<cred>>
  BY <1>12, ExecuteDoes
<1>13. ASSUME NEW o \in Ops, ReconcileStep(o) PROVE UNCHANGED <<cred>>
  BY <1>13, ReconcileStepDoes
<1>14. ASSUME NEW o \in Ops, Reconcile(o) PROVE UNCHANGED <<cred>>
  BY <1>14, ReconcileDoes
<1>15. ASSUME NEW o \in Ops, Retry(o) PROVE UNCHANGED <<cred>>
  BY <1>15, RetryDoes
<1>16. ASSUME NEW o \in Ops, Cancel(o) PROVE UNCHANGED <<cred>>
  BY <1>16, CancelDoes
<1>17. ASSUME NEW o \in Ops, Report(o) PROVE UNCHANGED <<cred>>
  BY <1>17, ReportDoes
<1>18. ASSUME NEW o \in Ops, ClaimSecret(o) PROVE UNCHANGED <<cred>>
  BY <1>18, ClaimSecretDoes
<1>19. ASSUME NEW o \in Ops, Expire(o) PROVE UNCHANGED <<cred>>
  BY <1>19, ExpireDoes
<1>20. ASSUME Failure PROVE UNCHANGED <<cred>>
  BY <1>20, FailureDoes
<1>21. ASSUME Start PROVE UNCHANGED <<cred>>
  BY <1>21, StartDoes
<1>22. ASSUME Complete PROVE UNCHANGED <<cred>>
  BY <1>22, CompleteDoes
<1>23. ASSUME Begin PROVE UNCHANGED <<cred>>
  BY <1>23, BeginDoes
<1>24. ASSUME Provider PROVE UNCHANGED <<cred>>
  BY <1>24, ProviderDoes
<1>25. ASSUME Refused PROVE UNCHANGED <<cred>>
  BY <1>25, RefusedDoes
<1>26. ASSUME Record PROVE UNCHANGED <<cred>>
  BY <1>26, RecordDoes
<1>27. ASSUME GiveUp PROVE UNCHANGED <<cred>>
  BY <1>27, GiveUpDoes
<1>28. ASSUME Reserve PROVE UNCHANGED <<cred>>
  BY <1>28, ReserveDoes
<1>29. ASSUME Confirm PROVE UNCHANGED <<cred>>
  BY <1>29, ConfirmDoes
<1>30. ASSUME Candidate PROVE UNCHANGED <<cred>>
  BY <1>30, CandidateDoes
<1>31. ASSUME Verify PROVE UNCHANGED <<cred>>
  BY <1>31, VerifyDoes
<1>32. ASSUME Revoke PROVE UNCHANGED <<cred>>
  BY <1>32, RevokeDoes
<1>33. ASSUME Password PROVE UNCHANGED <<cred>>
  BY <1>33, PasswordDoes
<1>34. ASSUME Claim PROVE UNCHANGED <<cred>>
  BY <1>34, ClaimDoes
<1>35. ASSUME Validate PROVE UNCHANGED <<cred>>
  BY <1>35, ValidateDoes
<1>36. ASSUME Gone PROVE UNCHANGED <<cred>>
  BY <1>36, GoneDoes
<1>37. ASSUME External PROVE UNCHANGED <<cred>>
  BY <1>37, ExternalDoes
<1>38. ASSUME Check PROVE UNCHANGED <<cred>>
  BY <1>38, CheckDoes
<1>39. ASSUME Reactivate PROVE UNCHANGED <<cred>>
  BY <1>39, ReactivateDoes
<1>40. ASSUME ConfigureConnection PROVE UNCHANGED <<cred>>
  BY <1>40, ConfigureConnectionDoes
<1>41. ASSUME Interrupt PROVE UNCHANGED <<cred>>
  BY <1>41, InterruptDoes
<1>42. ASSUME Land PROVE UNCHANGED <<cred>>
  BY <1>42, LandDoes
<1>43. ASSUME Switch PROVE UNCHANGED <<cred>>
  BY <1>43, SwitchDoes
<1>44. ASSUME Suspend PROVE UNCHANGED <<cred>>
  BY <1>44, SuspendDoes
<1>45. ASSUME Foreign PROVE UNCHANGED <<cred>>
  BY <1>45, ForeignDoes
<1> QED
  BY Failures, <1>1, <1>2, <1>3, <1>4, <1>5, <1>6, <1>7, <1>8, <1>9, <1>10, <1>11, <1>12, <1>13, <1>14, <1>15, <1>16, <1>17,
     <1>18, <1>19, <1>20, <1>21, <1>22, <1>23, <1>24, <1>25, <1>26, <1>27, <1>28, <1>29, <1>30, <1>31, <1>32, <1>33, <1>34,
     <1>35, <1>36, <1>37, <1>38, <1>39, <1>40, <1>41, <1>42, <1>43, <1>44, <1>45 DEF Next, Execution

(* Endpoints refer to rows there are. *)
LEMMA EndpointsReferStep ==
  ASSUME NoneIsNoOp, IMAPIsProtocol, LimitsAreNat, LocalTypes, OpTypes, RemoteTypes, Control, References, Next
  PROVE  EndpointsRefer'
<1> USE NoneIsNoOp, IMAPIsProtocol, LimitsAreNat DEF vars, localVars, opVars, bounds, history, remoteVars
<1>1. ASSUME NEW o \in Ops, ConfirmExternal(o) PROVE EndpointsRefer'
  BY <1>1, RowsDisused, ConfirmExternalDoes DEF References, EndpointsRefer, Adds, SameRows, Rows, LocalTypes, EndpointRow
<1>2. ASSUME Keep PROVE EndpointsRefer'
  BY <1>2, KeepDoes DEF References, EndpointsRefer, Adds, SameRows, Rows, LocalTypes, EndpointRow
<1>3. ASSUME Reserve PROVE EndpointsRefer'
  <2>1. cred' = cred /\ \A p \in Protocols : endpoint'[p] = endpoint[p] \/ endpoint'[p].cred = 0
    BY <1>3, ReserveDoes
  <2> QED BY <2>1 DEF References, EndpointsRefer, Rows
<1>4. ASSUME Activate PROVE EndpointsRefer'
  <2>1. op[run.op].cand \in Rows /\ op[run.op].cand # 0 /\ op[run.op].cand \in 0..MaxCreds
    BY <1>4, ActivateDoes, Running DEF References, Candidates, HasCandidate, IsLive, Live, OpRow
  <2>2. CASE UNCHANGED <<cred, endpoint>>
    BY <2>2 DEF References, EndpointsRefer, Rows
  <2>3. CASE endpoint' = Activated(op[run.op].cand)
    <3>1. \A p \in Protocols : /\ endpoint'[p].mode = endpoint[p].mode
                              /\ \/ p \in For(op[run.op].cand) /\ endpoint'[p].cred = op[run.op].cand
                                 \/ endpoint'[p] = endpoint[p]
      BY <2>1, <2>3, EndpointsActivated
    <3>2. \A p \in For(op[run.op].cand) : endpoint[p].mode # "disabled"
      BY DEF For, Enabled, Managed
    <3> QED BY <2>1, <3>1, <3>2, <1>4, ActivateDoes DEF References, EndpointsRefer, SameRows
  <2> QED BY <2>2, <2>3, <1>4, ActivateDoes
<1>5. ASSUME Revoked PROVE EndpointsRefer'
  BY <1>5, RevokedDoes DEF References, EndpointsRefer, Adds, SameRows, Rows, LocalTypes, EndpointRow
<1>6. ASSUME SaveEntered PROVE EndpointsRefer'
  <2> DEFINE r == op[run.op].request
  <2>1. r \in Request /\ Room(r) /\ endpoint' = EndpointsOf(r) /\ run.op \in Ops /\ Open(run.op)
    BY <1>6, SaveEnteredDoes, Running DEF Open, Live
  <2>2. \A p \in Protocols : r.want[p] \in {0, New} \cup Rows
    BY <2>1, <1>6, SaveEnteredDoes DEF References, Wishes, Kind, Additions
  <2>3. \A p \in Protocols : \/ r.want[p] = 0 /\ endpoint'[p] = Off
                            \/ /\ r.want[p] # 0 /\ endpoint'[p].mode = "inherit"
                               /\ endpoint'[p].cred = IF r.want[p] = New THEN Len(cred) + 1 ELSE r.want[p]
    BY <2>1, EndpointsWanted
  <2>4. Rows \subseteq Rows' /\ ((\E p \in Protocols : r.want[p] = New) => Len(cred) + 1 \in Rows')
    BY <1>6, RowsEntered DEF Adds, Rows
  <2> HIDE DEF r
  <2> QED BY <2>2, <2>3, <2>4 DEF EndpointsRefer, Off
<1>7. ASSUME Attach PROVE EndpointsRefer'
  <2> DEFINE r == op[run.op].request
  <2>1. r \in Request /\ Room(r) /\ endpoint' = EndpointsOf(r) /\ run.op \in Ops /\ Open(run.op)
    BY <1>7, AttachDoes, Running DEF Open, Live
  <2>2. \A p \in Protocols : r.want[p] \in {0, New} \cup Rows
    BY <2>1, <1>7, AttachDoes DEF References, Wishes, Kind, Additions
  <2>3. \A p \in Protocols : \/ r.want[p] = 0 /\ endpoint'[p] = Off
                            \/ /\ r.want[p] # 0 /\ endpoint'[p].mode = "inherit"
                               /\ endpoint'[p].cred = IF r.want[p] = New THEN Len(cred) + 1 ELSE r.want[p]
    BY <2>1, EndpointsWanted
  <2>4. Rows \subseteq Rows' /\ ((\E p \in Protocols : r.want[p] = New) => Len(cred) + 1 \in Rows')
    BY <1>7, RowsEntered DEF Adds, Rows
  <2> HIDE DEF r
  <2> QED BY <2>2, <2>3, <2>4 DEF EndpointsRefer, Off
<1>8. ASSUME UpdateEndpoints PROVE EndpointsRefer'
  <2> DEFINE r == op[run.op].request
  <2>1. r \in Request /\ Room(r) /\ endpoint' = EndpointsOf(r) /\ run.op \in Ops /\ Open(run.op)
    BY <1>8, UpdateEndpointsDoes, Running DEF Open, Live
  <2>2. \A p \in Protocols : r.want[p] \in {0, New} \cup Rows
    BY <2>1, <1>8, UpdateEndpointsDoes DEF References, Wishes, Kind, Additions
  <2>3. \A p \in Protocols : \/ r.want[p] = 0 /\ endpoint'[p] = Off
                            \/ /\ r.want[p] # 0 /\ endpoint'[p].mode = "inherit"
                               /\ endpoint'[p].cred = IF r.want[p] = New THEN Len(cred) + 1 ELSE r.want[p]
    BY <2>1, EndpointsWanted
  <2>4. Rows \subseteq Rows' /\ ((\E p \in Protocols : r.want[p] = New) => Len(cred) + 1 \in Rows')
    BY <1>8, RowsUpdated DEF Adds, Rows
  <2> HIDE DEF r
  <2> QED BY <2>2, <2>3, <2>4 DEF EndpointsRefer, Off
<1>9. ASSUME Reactivate PROVE EndpointsRefer'
  BY <1>9, ReactivateDoes DEF References, EndpointsRefer, Adds, SameRows, Rows, LocalTypes, EndpointRow
<1>10. ASSUME ConfigureConnection PROVE EndpointsRefer'
  BY <1>10, ConfigureConnectionDoes DEF References, EndpointsRefer, Adds, SameRows, Rows, LocalTypes, EndpointRow
<1>11. ASSUME Commit PROVE EndpointsRefer'
  BY <1>11, RowsForgotten, CommitDoes DEF References, EndpointsRefer, Adds, SameRows, Rows, LocalTypes, EndpointRow
<1>12. ASSUME Unregister PROVE EndpointsRefer'
  BY <1>12, UnregisterDoes DEF References, EndpointsRefer, Adds, SameRows, Rows, LocalTypes, EndpointRow
<1>13. UNCHANGED <<cred, endpoint>> => EndpointsRefer'
  BY DEF References, EndpointsRefer, Rows
<1>14. ASSUME NEW o \in Ops, NEW k \in Kinds, Queue(o, k) PROVE UNCHANGED <<cred, endpoint>>
  BY <1>14, QueueDoes
<1>15. ASSUME NEW o \in Ops, Execute(o) PROVE UNCHANGED <<cred, endpoint>>
  BY <1>15, ExecuteDoes
<1>16. ASSUME NEW o \in Ops, ReconcileStep(o) PROVE UNCHANGED <<cred, endpoint>>
  BY <1>16, ReconcileStepDoes
<1>17. ASSUME NEW o \in Ops, Reconcile(o) PROVE UNCHANGED <<cred, endpoint>>
  BY <1>17, ReconcileDoes
<1>18. ASSUME NEW o \in Ops, Retry(o) PROVE UNCHANGED <<cred, endpoint>>
  BY <1>18, RetryDoes
<1>19. ASSUME NEW o \in Ops, Cancel(o) PROVE UNCHANGED <<cred, endpoint>>
  BY <1>19, CancelDoes
<1>20. ASSUME NEW o \in Ops, Report(o) PROVE UNCHANGED <<cred, endpoint>>
  BY <1>20, ReportDoes
<1>21. ASSUME NEW o \in Ops, ClaimSecret(o) PROVE UNCHANGED <<cred, endpoint>>
  BY <1>21, ClaimSecretDoes
<1>22. ASSUME NEW o \in Ops, Expire(o) PROVE UNCHANGED <<cred, endpoint>>
  BY <1>22, ExpireDoes
<1>23. ASSUME Failure PROVE UNCHANGED <<cred, endpoint>>
  BY <1>23, FailureDoes
<1>24. ASSUME Start PROVE UNCHANGED <<cred, endpoint>>
  BY <1>24, StartDoes
<1>25. ASSUME Complete PROVE UNCHANGED <<cred, endpoint>>
  BY <1>25, CompleteDoes
<1>26. ASSUME Begin PROVE UNCHANGED <<cred, endpoint>>
  BY <1>26, BeginDoes
<1>27. ASSUME Provider PROVE UNCHANGED <<cred, endpoint>>
  BY <1>27, ProviderDoes
<1>28. ASSUME Refused PROVE UNCHANGED <<cred, endpoint>>
  BY <1>28, RefusedDoes
<1>29. ASSUME Record PROVE UNCHANGED <<cred, endpoint>>
  BY <1>29, RecordDoes
<1>30. ASSUME GiveUp PROVE UNCHANGED <<cred, endpoint>>
  BY <1>30, GiveUpDoes
<1>31. ASSUME Confirm PROVE UNCHANGED <<cred, endpoint>>
  BY <1>31, ConfirmDoes
<1>32. ASSUME Candidate PROVE UNCHANGED <<cred, endpoint>>
  BY <1>32, CandidateDoes
<1>33. ASSUME Verify PROVE UNCHANGED <<cred, endpoint>>
  BY <1>33, VerifyDoes
<1>34. ASSUME Revoke PROVE UNCHANGED <<cred, endpoint>>
  BY <1>34, RevokeDoes
<1>35. ASSUME Password PROVE UNCHANGED <<cred, endpoint>>
  BY <1>35, PasswordDoes
<1>36. ASSUME Claim PROVE UNCHANGED <<cred, endpoint>>
  BY <1>36, ClaimDoes
<1>37. ASSUME Validate PROVE UNCHANGED <<cred, endpoint>>
  BY <1>37, ValidateDoes
<1>38. ASSUME Gone PROVE UNCHANGED <<cred, endpoint>>
  BY <1>38, GoneDoes
<1>39. ASSUME External PROVE UNCHANGED <<cred, endpoint>>
  BY <1>39, ExternalDoes
<1>40. ASSUME Check PROVE UNCHANGED <<cred, endpoint>>
  BY <1>40, CheckDoes
<1>41. ASSUME Interrupt PROVE UNCHANGED <<cred, endpoint>>
  BY <1>41, InterruptDoes
<1>42. ASSUME Land PROVE UNCHANGED <<cred, endpoint>>
  BY <1>42, LandDoes
<1>43. ASSUME Switch PROVE UNCHANGED <<cred, endpoint>>
  BY <1>43, SwitchDoes
<1>44. ASSUME Suspend PROVE UNCHANGED <<cred, endpoint>>
  BY <1>44, SuspendDoes
<1>45. ASSUME Foreign PROVE UNCHANGED <<cred, endpoint>>
  BY <1>45, ForeignDoes
<1> QED
  BY Failures, <1>1, <1>2, <1>3, <1>4, <1>5, <1>6, <1>7, <1>8, <1>9, <1>10, <1>11, <1>12, <1>13, <1>14, <1>15, <1>16, <1>17,
     <1>18, <1>19, <1>20, <1>21, <1>22, <1>23, <1>24, <1>25, <1>26, <1>27, <1>28, <1>29, <1>30, <1>31, <1>32, <1>33, <1>34,
     <1>35, <1>36, <1>37, <1>38, <1>39, <1>40, <1>41, <1>42, <1>43, <1>44, <1>45 DEF Next, Execution

(* A candidate stays a row of its operation. *)
LEMMA CandidatesStep ==
  ASSUME NoneIsNoOp, IMAPIsProtocol, LimitsAreNat, LocalTypes, OpTypes, RemoteTypes, Control, References, Next
  PROVE  Candidates'
<1> USE NoneIsNoOp, IMAPIsProtocol, LimitsAreNat DEF vars, localVars, opVars, bounds, history, remoteVars
<1>1. ASSUME NEW o \in Ops, NEW k \in Kinds, Queue(o, k) PROVE Candidates'
  <2>1. PICK r \in Requests(k) : r \in Request /\ Became(o, r, "queued", 0, 0, 0, 0, FALSE)
    BY <1>1, QueueDoes
  <2>2. /\ op[o].status = "none" /\ (\A p \in Ops : op[p].status \notin Live) /\ UNCHANGED <<run, step>>
    BY <1>1, QueueDoes
  <2>3. \A p \in Ops : IsLive(p)' => op'[p].cand = 0
    BY <2>1, <2>2 DEF IsLive, Became
  <2> QED BY <2>3 DEF Candidates
<1>2. ASSUME NEW o \in Ops, Execute(o) PROVE Candidates'
  <2>1. \A p \in Ops : IsLive(p)' => IsLive(p) /\ op'[p].cand = op[p].cand /\ op'[p].request = op[p].request
    BY <1>2, ExecuteDoes DEF OpTypes, IsLive, Live, Turned, Dropped, Became
  <2>2. \A p \in Ops : IsLive(p)' /\ op'[p].cand # 0 /\ step[p][Creation] \in Unsure \cup {"succeeded"} => step'[p][Creation] \in Unsure \cup {"succeeded"}
    BY <1>2, ExecuteDoes DEF IsLive, Live, Marked, Creation, Steps, Dropped, Became
  <2> QED BY <2>1, <2>2, <1>2, ExecuteDoes DEF References, Candidates, Kind, Rows
<1>3. ASSUME NEW o \in Ops, ConfirmExternal(o) PROVE Candidates'
  <2>1. \A p \in Ops : ~IsLive(p)'
    BY <1>3, ConfirmExternalDoes DEF Control, OneLive, IsLive, Live, Ended, Became
  <2> QED BY <2>1 DEF Candidates
<1>4. ASSUME NEW o \in Ops, ReconcileStep(o) PROVE Candidates'
  <2>1. Creation \in Steps /\ \A v : v = Verdict(o, Creation) => v # "failed"
    BY DEF Creation, Steps, Verdict
  <2>2. \A p \in Ops : step'[p][Creation] \in {step[p][Creation], "succeeded"}
    BY <2>1, <1>4, ReconcileStepDoes DEF Marked
  <2> QED BY <2>2, <1>4, ReconcileStepDoes DEF References, Candidates, Kind, Rows, IsLive
<1>5. ASSUME NEW o \in Ops, Reconcile(o) PROVE Candidates'
  <2>1. \A p \in Ops : IsLive(p)' => IsLive(p) /\ op'[p].cand = op[p].cand /\ op'[p].request = op[p].request
    BY <1>5, ReconcileDoes DEF OpTypes, IsLive, Live, Turned, Dropped, Became
  <2>2. \A p \in Ops : IsLive(p)' /\ op'[p].cand # 0 /\ step[p][Creation] \in Unsure \cup {"succeeded"} => step'[p][Creation] \in Unsure \cup {"succeeded"}
    BY <1>5, ReconcileDoes DEF IsLive, Live, Marked, Creation, Steps, Dropped, Became
  <2> QED BY <2>1, <2>2, <1>5, ReconcileDoes DEF References, Candidates, Kind, Rows
<1>6. ASSUME NEW o \in Ops, Retry(o) PROVE Candidates'
  <2>1. \A p \in Ops : IsLive(p)' => p = o
    BY <1>6, RetryDoes DEF IsLive, Turned, Became
  <2>2. /\ op'[o].cand = op[o].cand /\ op'[o].request = op[o].request /\ cred' = cred
        /\ op[o].cand # 0 => IsLive(o)
    BY <1>6, RetryDoes DEF Control, Failing, IsLive, Live, Turned, Became
  <2>3. op[o].cand # 0 => step'[o][Creation] \in Unsure \cup {"succeeded"}
    BY <2>2, <1>6, RetryDoes DEF References, Candidates, Creation, Steps, Unsure
  <2> QED BY <2>1, <2>2, <2>3 DEF References, Candidates, Kind, Rows
<1>7. ASSUME NEW o \in Ops, Cancel(o) PROVE Candidates'
  <2>1. \A p \in Ops : IsLive(p)' => IsLive(p) /\ op'[p].cand = op[p].cand /\ op'[p].request = op[p].request
    BY <1>7, CancelDoes DEF OpTypes, IsLive, Live, Turned, Dropped, Became
  <2>2. \A p \in Ops : IsLive(p)' /\ op'[p].cand # 0 /\ step[p][Creation] \in Unsure \cup {"succeeded"} => step'[p][Creation] \in Unsure \cup {"succeeded"}
    BY <1>7, CancelDoes DEF IsLive, Live, Marked, Creation, Steps, Dropped, Became
  <2> QED BY <2>1, <2>2, <1>7, CancelDoes DEF References, Candidates, Kind, Rows
<1>8. ASSUME NEW o \in Ops, Report(o) PROVE Candidates'
  <2>1. \A p \in Ops : IsLive(p)' => IsLive(p) /\ op'[p].cand = op[p].cand /\ op'[p].request = op[p].request
    BY <1>8, ReportDoes DEF OpTypes, IsLive, Live, Turned, Dropped, Became
  <2>2. \A p \in Ops : IsLive(p)' /\ op'[p].cand # 0 /\ step[p][Creation] \in Unsure \cup {"succeeded"} => step'[p][Creation] \in Unsure \cup {"succeeded"}
    BY <1>8, ReportDoes DEF IsLive, Live, Marked, Creation, Steps, Dropped, Became
  <2> QED BY <2>1, <2>2, <1>8, ReportDoes DEF References, Candidates, Kind, Rows
<1>9. ASSUME NEW o \in Ops, ClaimSecret(o) PROVE Candidates'
  <2>1. \A p \in Ops : IsLive(p)' => IsLive(p) /\ op'[p].cand = op[p].cand /\ op'[p].request = op[p].request
    BY <1>9, ClaimSecretDoes DEF OpTypes, IsLive, Live, Turned, Dropped, Became
  <2>2. \A p \in Ops : IsLive(p)' /\ op'[p].cand # 0 /\ step[p][Creation] \in Unsure \cup {"succeeded"} => step'[p][Creation] \in Unsure \cup {"succeeded"}
    BY <1>9, ClaimSecretDoes DEF IsLive, Live, Marked, Creation, Steps, Dropped, Became
  <2> QED BY <2>1, <2>2, <1>9, ClaimSecretDoes DEF References, Candidates, Kind, Rows
<1>10. ASSUME NEW o \in Ops, Expire(o) PROVE Candidates'
  <2>1. \A p \in Ops : IsLive(p)' => IsLive(p) /\ op'[p].cand = op[p].cand /\ op'[p].request = op[p].request
    BY <1>10, ExpireDoes DEF OpTypes, IsLive, Live, Turned, Dropped, Became
  <2>2. UNCHANGED <<cred, step>>
    BY <1>10, ExpireDoes DEF localVars
  <2> QED BY <2>1, <2>2 DEF References, Candidates, Kind, Rows
<1>11. ASSUME Failure PROVE Candidates'
  <2>0. PICK q \in Ops : q = run.op
    BY <1>11, FailureDoes, Running
  <2>1. IsLive(q) /\ \A o \in Ops : IsLive(o) => o = q
    BY <2>0, <1>11, FailureDoes, Running DEF Control, OneLive, IsLive, Live
  <2>2. \A o \in Ops \ {q} : ~IsLive(o)'
    BY <2>0, <2>1, <1>11, FailureDoes DEF Turned, Ended, Became, Concluded, IsLive
  <2>3. IsLive(q)' => op'[q].cand = op[q].cand /\ op'[q].request = op[q].request
    BY <2>0, <2>1, <1>11, FailureDoes DEF Turned, Ended, Became, Concluded, IsLive, Live
  <2>4. IsLive(q)' /\ op[q].cand # 0 => LET c == op[q].cand IN c \in Rows /\ c \in Rows' /\ cred'[c].source = "managed" /\ cred'[c].secret /\ cred'[c].state \in {"candidate", "active"}
    BY <2>0, <2>1, <1>11, FailureDoes DEF References, Candidates, Rows
  <2>5. IsLive(q)' /\ op[q].cand # 0 => step'[q][Creation] \in Unsure \cup {"succeeded"}
    <3>1. op[q].cand # 0 => step[q][Creation] \in Unsure \cup {"succeeded"}
      BY <2>1 DEF References, Candidates
    <3>2. Creation \in Steps
      BY DEF Creation, Steps
    <3> QED BY <2>0, <3>1, <3>2, <1>11, FailureDoes DEF Marked, Unsure
  <2> QED BY <2>1, <2>2, <2>3, <2>4, <2>5 DEF References, Candidates, Kind
<1>12. ASSUME Complete PROVE Candidates'
  <2>0. PICK q \in Ops : q = run.op
    BY <1>12, CompleteDoes, Running
  <2>1. IsLive(q) /\ \A o \in Ops : IsLive(o) => o = q
    BY <2>0, <1>12, CompleteDoes, Running DEF Control, OneLive, IsLive, Live
  <2>2. \A o \in Ops \ {q} : ~IsLive(o)'
    BY <2>0, <2>1, <1>12, CompleteDoes DEF Turned, Ended, Became, Concluded, IsLive
  <2>3. IsLive(q)' => op'[q].cand = op[q].cand /\ op'[q].request = op[q].request
    BY <2>0, <2>1, <1>12, CompleteDoes DEF Turned, Ended, Became, Concluded, IsLive, Live
  <2>4. IsLive(q)' /\ op[q].cand # 0 => LET c == op[q].cand IN c \in Rows /\ c \in Rows' /\ cred'[c].source = "managed" /\ cred'[c].secret /\ cred'[c].state \in {"candidate", "active"}
    BY <2>0, <2>1, <1>12, CompleteDoes DEF References, Candidates, Rows
  <2>5. IsLive(q)' /\ op[q].cand # 0 => step'[q][Creation] \in Unsure \cup {"succeeded"}
    <3>1. op[q].cand # 0 => step[q][Creation] \in Unsure \cup {"succeeded"}
      BY <2>1 DEF References, Candidates
    <3>2. Creation \in Steps
      BY DEF Creation, Steps
    <3> QED BY <2>0, <3>1, <3>2, <1>12, CompleteDoes DEF Marked, Unsure
  <2> QED BY <2>1, <2>2, <2>3, <2>4, <2>5 DEF References, Candidates, Kind
<1>13. ASSUME Begin PROVE Candidates'
  <2>0. PICK q \in Ops : q = run.op
    BY <1>13, BeginDoes, Running
  <2>1. IsLive(q) /\ \A o \in Ops : IsLive(o) => o = q
    BY <2>0, <1>13, BeginDoes, Running DEF Control, OneLive, IsLive, Live
  <2>2. \A o \in Ops \ {q} : ~IsLive(o)'
    BY <2>0, <2>1, <1>13, BeginDoes DEF Turned, Ended, Became, Concluded, IsLive
  <2>3. IsLive(q)' => op'[q].cand = op[q].cand /\ op'[q].request = op[q].request
    BY <2>0, <2>1, <1>13, BeginDoes DEF Turned, Ended, Became, Concluded, IsLive, Live
  <2>4. IsLive(q)' /\ op[q].cand # 0 => LET c == op[q].cand IN c \in Rows /\ c \in Rows' /\ cred'[c].source = "managed" /\ cred'[c].secret /\ cred'[c].state \in {"candidate", "active"}
    BY <2>0, <2>1, <1>13, BeginDoes DEF References, Candidates, Rows
  <2>5. IsLive(q)' /\ op[q].cand # 0 => step'[q][Creation] \in Unsure \cup {"succeeded"}
    <3>1. op[q].cand # 0 => step[q][Creation] \in Unsure \cup {"succeeded"}
      BY <2>1 DEF References, Candidates
    <3>2. Creation \in Steps
      BY DEF Creation, Steps
    <3> QED BY <2>0, <3>1, <3>2, <1>13, BeginDoes DEF Marked, Unsure
  <2> QED BY <2>1, <2>2, <2>3, <2>4, <2>5 DEF References, Candidates, Kind
<1>14. ASSUME Keep PROVE Candidates'
  <2>0. PICK q \in Ops : q = run.op
    BY <1>14, KeepDoes, Running
  <2>1. IsLive(q) /\ \A o \in Ops : IsLive(o) => o = q
    BY <2>0, <1>14, KeepDoes, Running DEF Control, OneLive, IsLive, Live
  <2>2. \A o \in Ops \ {q} : ~IsLive(o)'
    BY <2>0, <2>1, <1>14, KeepDoes DEF Turned, Ended, Became, Concluded, IsLive
  <2>3. CASE cred' = cred /\ op' = op
    BY <2>3, <1>14, KeepDoes DEF References, Candidates, IsLive, Kind, Rows
  <2>4. CASE Adds([source |-> "managed", state |-> "candidate", key |-> run.secret, secret |-> TRUE])
             /\ op'[q].cand = Len(cred) + 1 /\ op'[q].request = op[q].request
    <3>1. Kind(q) \in {"mailbox.create", "mailbox.connect", "mailbox.rotate"}
      BY <2>0, <1>14, KeepDoes DEF Control, OnPath, Kind
    <3>2. Step = Creation /\ step[q][Step] = "running"
      BY <2>0, <1>14, KeepDoes DEF Control, Calling, Answers, Step, Creation, Calls
    <3>3. op'[q].cand \in Rows' /\ cred'[op'[q].cand].source = "managed" /\ cred'[op'[q].cand].secret
          /\ cred'[op'[q].cand].state = "candidate"
      BY <2>4 DEF Adds
    <3> QED BY <2>0, <2>2, <2>4, <3>1, <3>2, <3>3, <1>14, KeepDoes DEF Candidates, Kind, Unsure
  <2> QED BY <2>0, <2>3, <2>4, <1>14, KeepDoes DEF Became
<1>15. ASSUME Record PROVE Candidates'
  <2>0. PICK q \in Ops : q = run.op
    BY <1>15, RecordDoes, Running
  <2>1. IsLive(q) /\ \A o \in Ops : IsLive(o) => o = q
    BY <2>0, <1>15, RecordDoes, Running DEF Control, OneLive, IsLive, Live
  <2>2. \A o \in Ops \ {q} : ~IsLive(o)'
    BY <2>0, <2>1, <1>15, RecordDoes DEF Turned, Ended, Became, Concluded, IsLive
  <2>3. IsLive(q)' => op'[q].cand = op[q].cand /\ op'[q].request = op[q].request
    BY <2>0, <2>1, <1>15, RecordDoes DEF Turned, Ended, Became, Concluded, IsLive, Live
  <2>4. IsLive(q)' /\ op[q].cand # 0 => LET c == op[q].cand IN c \in Rows /\ c \in Rows' /\ cred'[c].source = "managed" /\ cred'[c].secret /\ cred'[c].state \in {"candidate", "active"}
    BY <2>0, <2>1, <1>15, RecordDoes DEF References, Candidates, Rows
  <2>5. IsLive(q)' /\ op[q].cand # 0 => step'[q][Creation] \in Unsure \cup {"succeeded"}
    <3>1. op[q].cand # 0 => step[q][Creation] \in Unsure \cup {"succeeded"}
      BY <2>1 DEF References, Candidates
    <3>2. Creation \in Steps
      BY DEF Creation, Steps
    <3>3. CASE Step # Creation
      BY <2>0, <3>1, <3>2, <3>3, <1>15, RecordDoes DEF Marked
    <3>4. CASE Step = Creation
      <4>1. run.pc = "credential.create"
        BY <3>4 DEF Step, Creation
      <4>2. op[q].cand # 0 => run.answer # "failed"
        BY <2>0, <4>1, <1>15, RecordDoes DEF References, Uncreated
      <4> QED BY <2>0, <3>4, <4>2, <1>15, RecordDoes DEF Marked, Outcome, Unsure
    <3> QED BY <3>3, <3>4
  <2> QED BY <2>1, <2>2, <2>3, <2>4, <2>5 DEF References, Candidates, Kind
<1>16. ASSUME GiveUp PROVE Candidates'
  <2>0. PICK q \in Ops : q = run.op
    BY <1>16, GiveUpDoes, Running
  <2>1. IsLive(q) /\ \A o \in Ops : IsLive(o) => o = q
    BY <2>0, <1>16, GiveUpDoes, Running DEF Control, OneLive, IsLive, Live
  <2>2. \A o \in Ops \ {q} : ~IsLive(o)'
    BY <2>0, <2>1, <1>16, GiveUpDoes DEF Turned, Ended, Became, Concluded, IsLive
  <2>3. IsLive(q)' => op'[q].cand = op[q].cand /\ op'[q].request = op[q].request
    BY <2>0, <2>1, <1>16, GiveUpDoes DEF Turned, Ended, Became, Concluded, IsLive, Live
  <2>4. IsLive(q)' /\ op[q].cand # 0 => LET c == op[q].cand IN c \in Rows /\ c \in Rows' /\ cred'[c].source = "managed" /\ cred'[c].secret /\ cred'[c].state \in {"candidate", "active"}
    BY <2>0, <2>1, <1>16, GiveUpDoes DEF References, Candidates, Rows
  <2>5. IsLive(q)' /\ op[q].cand # 0 => step'[q][Creation] \in Unsure \cup {"succeeded"}
    <3>1. op[q].cand # 0 => step[q][Creation] \in Unsure \cup {"succeeded"}
      BY <2>1 DEF References, Candidates
    <3>2. Creation \in Steps
      BY DEF Creation, Steps
    <3> QED BY <2>0, <3>1, <3>2, <1>16, GiveUpDoes DEF Marked, Unsure
  <2> QED BY <2>1, <2>2, <2>3, <2>4, <2>5 DEF References, Candidates, Kind
<1>17. ASSUME Reserve PROVE Candidates'
  <2>0. PICK q \in Ops : q = run.op
    BY <1>17, ReserveDoes, Running
  <2>1. IsLive(q) /\ \A o \in Ops : IsLive(o) => o = q
    BY <2>0, <1>17, ReserveDoes, Running DEF Control, OneLive, IsLive, Live
  <2>2. \A o \in Ops \ {q} : ~IsLive(o)'
    BY <2>0, <2>1, <1>17, ReserveDoes DEF Turned, Ended, Became, Concluded, IsLive
  <2>3. IsLive(q)' => op'[q].cand = op[q].cand /\ op'[q].request = op[q].request
    BY <2>0, <2>1, <1>17, ReserveDoes DEF Turned, Ended, Became, Concluded, IsLive, Live
  <2>4. IsLive(q)' /\ op[q].cand # 0 => LET c == op[q].cand IN c \in Rows /\ c \in Rows' /\ cred'[c].source = "managed" /\ cred'[c].secret /\ cred'[c].state \in {"candidate", "active"}
    BY <2>0, <2>1, <1>17, ReserveDoes DEF References, Candidates, Rows
  <2>5. IsLive(q)' /\ op[q].cand # 0 => step'[q][Creation] \in Unsure \cup {"succeeded"}
    <3>1. op[q].cand # 0 => step[q][Creation] \in Unsure \cup {"succeeded"}
      BY <2>1 DEF References, Candidates
    <3>2. Creation \in Steps
      BY DEF Creation, Steps
    <3> QED BY <2>0, <3>1, <3>2, <1>17, ReserveDoes DEF Marked, Unsure
  <2> QED BY <2>1, <2>2, <2>3, <2>4, <2>5 DEF References, Candidates, Kind
<1>18. ASSUME Activate PROVE Candidates'
  <2>0. PICK q \in Ops : q = run.op
    BY <1>18, ActivateDoes, Running
  <2>1. IsLive(q) /\ \A o \in Ops : IsLive(o) => o = q
    BY <2>0, <1>18, ActivateDoes, Running DEF Control, OneLive, IsLive, Live
  <2>2. \A o \in Ops \ {q} : ~IsLive(o)'
    BY <2>0, <2>1, <1>18, ActivateDoes DEF Turned, Ended, Became, Concluded, IsLive
  <2>3. IsLive(q)' => op'[q].cand = op[q].cand /\ op'[q].request = op[q].request
    BY <2>0, <2>1, <1>18, ActivateDoes DEF Turned, Ended, Became, Concluded, IsLive, Live
  <2>4. IsLive(q)' /\ op[q].cand # 0 => LET c == op[q].cand IN c \in Rows /\ c \in Rows' /\ cred'[c].source = "managed" /\ cred'[c].secret /\ cred'[c].state \in {"candidate", "active"}
    BY <2>0, <2>1, <1>18, ActivateDoes DEF References, Candidates, SameRows, ActivatedState, OfState, HasCandidate
  <2>5. IsLive(q)' /\ op[q].cand # 0 => step'[q][Creation] \in Unsure \cup {"succeeded"}
    <3>1. op[q].cand # 0 => step[q][Creation] \in Unsure \cup {"succeeded"}
      BY <2>1 DEF References, Candidates
    <3>2. Creation \in Steps
      BY DEF Creation, Steps
    <3> QED BY <2>0, <3>1, <3>2, <1>18, ActivateDoes DEF Marked, Unsure
  <2> QED BY <2>1, <2>2, <2>3, <2>4, <2>5 DEF References, Candidates, Kind
<1>19. ASSUME Revoked PROVE Candidates'
  <2>0. PICK q \in Ops : q = run.op
    BY <1>19, RevokedDoes, Running
  <2>1. IsLive(q) /\ \A o \in Ops : IsLive(o) => o = q
    BY <2>0, <1>19, RevokedDoes, Running DEF Control, OneLive, IsLive, Live
  <2>2. \A o \in Ops \ {q} : ~IsLive(o)'
    BY <2>0, <2>1, <1>19, RevokedDoes DEF Turned, Ended, Became, Concluded, IsLive
  <2>3. IsLive(q)' => op'[q].cand = op[q].cand /\ op'[q].request = op[q].request
    BY <2>0, <2>1, <1>19, RevokedDoes DEF Turned, Ended, Became, Concluded, IsLive, Live
  <2>4. IsLive(q)' /\ op[q].cand # 0 => LET c == op[q].cand IN c \in Rows /\ c \in Rows' /\ cred'[c].source = "managed" /\ cred'[c].secret /\ cred'[c].state \in {"candidate", "active"}
    BY <2>0, <2>1, <1>19, RevokedDoes DEF References, Candidates, SameRows, OfState
  <2>5. IsLive(q)' /\ op[q].cand # 0 => step'[q][Creation] \in Unsure \cup {"succeeded"}
    <3>1. op[q].cand # 0 => step[q][Creation] \in Unsure \cup {"succeeded"}
      BY <2>1 DEF References, Candidates
    <3>2. Creation \in Steps
      BY DEF Creation, Steps
    <3> QED BY <2>0, <3>1, <3>2, <1>19, RevokedDoes DEF Marked, Unsure
  <2> QED BY <2>1, <2>2, <2>3, <2>4, <2>5 DEF References, Candidates, Kind
<1>20. ASSUME Password PROVE Candidates'
  <2>0. PICK q \in Ops : q = run.op
    BY <1>20, PasswordDoes, Running
  <2>1. IsLive(q) /\ \A o \in Ops : IsLive(o) => o = q
    BY <2>0, <1>20, PasswordDoes, Running DEF Control, OneLive, IsLive, Live
  <2>2. \A o \in Ops \ {q} : ~IsLive(o)'
    BY <2>0, <2>1, <1>20, PasswordDoes DEF Turned, Ended, Became, Concluded, IsLive
  <2>3. IsLive(q)' => op'[q].cand = op[q].cand /\ op'[q].request = op[q].request
    BY <2>0, <2>1, <1>20, PasswordDoes DEF Turned, Ended, Became, Concluded, IsLive, Live
  <2>4. IsLive(q)' /\ op[q].cand # 0 => LET c == op[q].cand IN c \in Rows /\ c \in Rows' /\ cred'[c].source = "managed" /\ cred'[c].secret /\ cred'[c].state \in {"candidate", "active"}
    BY <2>0, <2>1, <1>20, PasswordDoes DEF References, Candidates, Rows
  <2>5. IsLive(q)' /\ op[q].cand # 0 => step'[q][Creation] \in Unsure \cup {"succeeded"}
    <3>1. op[q].cand # 0 => step[q][Creation] \in Unsure \cup {"succeeded"}
      BY <2>1 DEF References, Candidates
    <3>2. Creation \in Steps
      BY DEF Creation, Steps
    <3> QED BY <2>0, <3>1, <3>2, <1>20, PasswordDoes DEF Marked, Unsure
  <2> QED BY <2>1, <2>2, <2>3, <2>4, <2>5 DEF References, Candidates, Kind
<1>21. ASSUME Claim PROVE Candidates'
  <2>0. PICK q \in Ops : q = run.op
    BY <1>21, ClaimDoes, Running
  <2>1. IsLive(q) /\ \A o \in Ops : IsLive(o) => o = q
    BY <2>0, <1>21, ClaimDoes, Running DEF Control, OneLive, IsLive, Live
  <2>2. \A o \in Ops \ {q} : ~IsLive(o)'
    BY <2>0, <2>1, <1>21, ClaimDoes DEF Turned, Ended, Became, Concluded, IsLive
  <2>3. IsLive(q)' => op'[q].cand = op[q].cand /\ op'[q].request = op[q].request
    BY <2>0, <2>1, <1>21, ClaimDoes DEF Turned, Ended, Became, Concluded, IsLive, Live
  <2>4. IsLive(q)' /\ op[q].cand # 0 => LET c == op[q].cand IN c \in Rows /\ c \in Rows' /\ cred'[c].source = "managed" /\ cred'[c].secret /\ cred'[c].state \in {"candidate", "active"}
    BY <2>0, <2>1, <1>21, ClaimDoes DEF References, Candidates, Rows
  <2>5. IsLive(q)' /\ op[q].cand # 0 => step'[q][Creation] \in Unsure \cup {"succeeded"}
    <3>1. op[q].cand # 0 => step[q][Creation] \in Unsure \cup {"succeeded"}
      BY <2>1 DEF References, Candidates
    <3>2. Creation \in Steps
      BY DEF Creation, Steps
    <3> QED BY <2>0, <3>1, <3>2, <1>21, ClaimDoes DEF Marked, Unsure
  <2> QED BY <2>1, <2>2, <2>3, <2>4, <2>5 DEF References, Candidates, Kind
<1>22. ASSUME Gone PROVE Candidates'
  <2>0. PICK q \in Ops : q = run.op
    BY <1>22, GoneDoes, Running
  <2>1. IsLive(q) /\ \A o \in Ops : IsLive(o) => o = q
    BY <2>0, <1>22, GoneDoes, Running DEF Control, OneLive, IsLive, Live
  <2>2. \A o \in Ops \ {q} : ~IsLive(o)'
    BY <2>0, <2>1, <1>22, GoneDoes DEF Turned, Ended, Became, Concluded, IsLive
  <2>3. IsLive(q)' => op'[q].cand = op[q].cand /\ op'[q].request = op[q].request
    BY <2>0, <2>1, <1>22, GoneDoes DEF Turned, Ended, Became, Concluded, IsLive, Live
  <2>4. IsLive(q)' /\ op[q].cand # 0 => LET c == op[q].cand IN c \in Rows /\ c \in Rows' /\ cred'[c].source = "managed" /\ cred'[c].secret /\ cred'[c].state \in {"candidate", "active"}
    BY <2>0, <2>1, <1>22, GoneDoes DEF References, Candidates, Rows
  <2>5. IsLive(q)' /\ op[q].cand # 0 => step'[q][Creation] \in Unsure \cup {"succeeded"}
    <3>1. op[q].cand # 0 => step[q][Creation] \in Unsure \cup {"succeeded"}
      BY <2>1 DEF References, Candidates
    <3>2. Creation \in Steps
      BY DEF Creation, Steps
    <3> QED BY <2>0, <3>1, <3>2, <1>22, GoneDoes DEF Marked, Unsure
  <2> QED BY <2>1, <2>2, <2>3, <2>4, <2>5 DEF References, Candidates, Kind
<1>23. ASSUME External PROVE Candidates'
  <2>0. PICK q \in Ops : q = run.op
    BY <1>23, ExternalDoes, Running
  <2>1. IsLive(q) /\ \A o \in Ops : IsLive(o) => o = q
    BY <2>0, <1>23, ExternalDoes, Running DEF Control, OneLive, IsLive, Live
  <2>2. \A o \in Ops \ {q} : ~IsLive(o)'
    BY <2>0, <2>1, <1>23, ExternalDoes DEF Turned, Ended, Became, Concluded, IsLive
  <2>3. IsLive(q)' => op'[q].cand = op[q].cand /\ op'[q].request = op[q].request
    BY <2>0, <2>1, <1>23, ExternalDoes DEF Turned, Ended, Became, Concluded, IsLive, Live
  <2>4. IsLive(q)' /\ op[q].cand # 0 => LET c == op[q].cand IN c \in Rows /\ c \in Rows' /\ cred'[c].source = "managed" /\ cred'[c].secret /\ cred'[c].state \in {"candidate", "active"}
    BY <2>0, <2>1, <1>23, ExternalDoes DEF References, Candidates, Rows
  <2>5. IsLive(q)' /\ op[q].cand # 0 => step'[q][Creation] \in Unsure \cup {"succeeded"}
    <3>1. op[q].cand # 0 => step[q][Creation] \in Unsure \cup {"succeeded"}
      BY <2>1 DEF References, Candidates
    <3>2. Creation \in Steps
      BY DEF Creation, Steps
    <3> QED BY <2>0, <3>1, <3>2, <1>23, ExternalDoes DEF Marked, Unsure
  <2> QED BY <2>1, <2>2, <2>3, <2>4, <2>5 DEF References, Candidates, Kind
<1>24. ASSUME SaveEntered PROVE Candidates'
  <2>0. PICK q \in Ops : q = run.op
    BY <1>24, SaveEnteredDoes, Running
  <2>1. IsLive(q) /\ \A o \in Ops : IsLive(o) => o = q
    BY <2>0, <1>24, SaveEnteredDoes, Running DEF Control, OneLive, IsLive, Live
  <2>2. \A o \in Ops \ {q} : ~IsLive(o)'
    BY <2>0, <2>1, <1>24, SaveEnteredDoes DEF Turned, Ended, Became, Concluded, IsLive
  <2>3. IsLive(q)' => op'[q].cand = op[q].cand /\ op'[q].request = op[q].request
    BY <2>0, <2>1, <1>24, SaveEnteredDoes DEF Turned, Ended, Became, Concluded, IsLive, Live
  <2>4. IsLive(q)' /\ op[q].cand # 0 => LET c == op[q].cand IN c \in Rows /\ c \in Rows' /\ cred'[c].source = "managed" /\ cred'[c].secret /\ cred'[c].state \in {"candidate", "active"}
    BY <2>0, <2>1, <1>24, RowsEntered DEF References, Candidates, Adds, Rows
  <2>5. IsLive(q)' /\ op[q].cand # 0 => step'[q][Creation] \in Unsure \cup {"succeeded"}
    <3>1. op[q].cand # 0 => step[q][Creation] \in Unsure \cup {"succeeded"}
      BY <2>1 DEF References, Candidates
    <3>2. Creation \in Steps
      BY DEF Creation, Steps
    <3> QED BY <2>0, <3>1, <3>2, <1>24, SaveEnteredDoes DEF Marked, Unsure
  <2> QED BY <2>1, <2>2, <2>3, <2>4, <2>5 DEF References, Candidates, Kind
<1>25. ASSUME Attach PROVE Candidates'
  <2>0. PICK q \in Ops : q = run.op
    BY <1>25, AttachDoes, Running
  <2>1. IsLive(q) /\ \A o \in Ops : IsLive(o) => o = q
    BY <2>0, <1>25, AttachDoes, Running DEF Control, OneLive, IsLive, Live
  <2>2. \A o \in Ops \ {q} : ~IsLive(o)'
    BY <2>0, <2>1, <1>25, AttachDoes DEF Turned, Ended, Became, Concluded, IsLive
  <2>3. IsLive(q)' => op'[q].cand = op[q].cand /\ op'[q].request = op[q].request
    BY <2>0, <2>1, <1>25, AttachDoes DEF Turned, Ended, Became, Concluded, IsLive, Live
  <2>4. IsLive(q)' /\ op[q].cand # 0 => LET c == op[q].cand IN c \in Rows /\ c \in Rows' /\ cred'[c].source = "managed" /\ cred'[c].secret /\ cred'[c].state \in {"candidate", "active"}
    BY <2>0, <2>1, <1>25, RowsEntered DEF References, Candidates, Adds, Rows
  <2>5. IsLive(q)' /\ op[q].cand # 0 => step'[q][Creation] \in Unsure \cup {"succeeded"}
    <3>1. op[q].cand # 0 => step[q][Creation] \in Unsure \cup {"succeeded"}
      BY <2>1 DEF References, Candidates
    <3>2. Creation \in Steps
      BY DEF Creation, Steps
    <3> QED BY <2>0, <3>1, <3>2, <1>25, AttachDoes DEF Marked, Unsure
  <2> QED BY <2>1, <2>2, <2>3, <2>4, <2>5 DEF References, Candidates, Kind
<1>26. ASSUME UpdateEndpoints PROVE Candidates'
  <2>0. PICK q \in Ops : q = run.op
    BY <1>26, UpdateEndpointsDoes, Running
  <2>1. IsLive(q) /\ \A o \in Ops : IsLive(o) => o = q
    BY <2>0, <1>26, UpdateEndpointsDoes, Running DEF Control, OneLive, IsLive, Live
  <2>2. \A o \in Ops \ {q} : ~IsLive(o)'
    BY <2>0, <2>1, <1>26, UpdateEndpointsDoes DEF Turned, Ended, Became, Concluded, IsLive
  <2>3. IsLive(q)' => op'[q].cand = op[q].cand /\ op'[q].request = op[q].request
    BY <2>0, <2>1, <1>26, UpdateEndpointsDoes DEF Turned, Ended, Became, Concluded, IsLive, Live
  <2>4. IsLive(q)' /\ op[q].cand # 0 => LET c == op[q].cand IN c \in Rows /\ c \in Rows' /\ cred'[c].source = "managed" /\ cred'[c].secret /\ cred'[c].state \in {"candidate", "active"}
    BY <2>0, <2>1, <1>26, UpdateEndpointsDoes DEF References, Candidates, Ended, Became, IsLive, Live
  <2>5. IsLive(q)' /\ op[q].cand # 0 => step'[q][Creation] \in Unsure \cup {"succeeded"}
    <3>1. op[q].cand # 0 => step[q][Creation] \in Unsure \cup {"succeeded"}
      BY <2>1 DEF References, Candidates
    <3>2. Creation \in Steps
      BY DEF Creation, Steps
    <3> QED BY <2>0, <3>1, <3>2, <1>26, UpdateEndpointsDoes DEF Marked, Unsure
  <2> QED BY <2>1, <2>2, <2>3, <2>4, <2>5 DEF References, Candidates, Kind
<1>27. ASSUME Reactivate PROVE Candidates'
  <2>0. PICK q \in Ops : q = run.op
    BY <1>27, ReactivateDoes, Running
  <2>1. IsLive(q) /\ \A o \in Ops : IsLive(o) => o = q
    BY <2>0, <1>27, ReactivateDoes, Running DEF Control, OneLive, IsLive, Live
  <2>2. \A o \in Ops \ {q} : ~IsLive(o)'
    BY <2>0, <2>1, <1>27, ReactivateDoes DEF Turned, Ended, Became, Concluded, IsLive
  <2>3. IsLive(q)' => op'[q].cand = op[q].cand /\ op'[q].request = op[q].request
    BY <2>0, <2>1, <1>27, ReactivateDoes DEF Turned, Ended, Became, Concluded, IsLive, Live
  <2>4. IsLive(q)' /\ op[q].cand # 0 => LET c == op[q].cand IN c \in Rows /\ c \in Rows' /\ cred'[c].source = "managed" /\ cred'[c].secret /\ cred'[c].state \in {"candidate", "active"}
    BY <2>0, <2>1, <1>27, ReactivateDoes DEF References, Candidates, Rows
  <2>5. IsLive(q)' /\ op[q].cand # 0 => step'[q][Creation] \in Unsure \cup {"succeeded"}
    <3>1. op[q].cand # 0 => step[q][Creation] \in Unsure \cup {"succeeded"}
      BY <2>1 DEF References, Candidates
    <3>2. Creation \in Steps
      BY DEF Creation, Steps
    <3> QED BY <2>0, <3>1, <3>2, <1>27, ReactivateDoes DEF Marked, Unsure
  <2> QED BY <2>1, <2>2, <2>3, <2>4, <2>5 DEF References, Candidates, Kind
<1>28. ASSUME ConfigureConnection PROVE Candidates'
  <2>0. PICK q \in Ops : q = run.op
    BY <1>28, ConfigureConnectionDoes, Running
  <2>1. IsLive(q) /\ \A o \in Ops : IsLive(o) => o = q
    BY <2>0, <1>28, ConfigureConnectionDoes, Running DEF Control, OneLive, IsLive, Live
  <2>2. \A o \in Ops \ {q} : ~IsLive(o)'
    BY <2>0, <2>1, <1>28, ConfigureConnectionDoes DEF Turned, Ended, Became, Concluded, IsLive
  <2>3. IsLive(q)' => op'[q].cand = op[q].cand /\ op'[q].request = op[q].request
    BY <2>0, <2>1, <1>28, ConfigureConnectionDoes DEF Turned, Ended, Became, Concluded, IsLive, Live
  <2>4. IsLive(q)' /\ op[q].cand # 0 => LET c == op[q].cand IN c \in Rows /\ c \in Rows' /\ cred'[c].source = "managed" /\ cred'[c].secret /\ cred'[c].state \in {"candidate", "active"}
    BY <2>0, <2>1, <1>28, ConfigureConnectionDoes DEF References, Candidates, Rows
  <2>5. IsLive(q)' /\ op[q].cand # 0 => step'[q][Creation] \in Unsure \cup {"succeeded"}
    <3>1. op[q].cand # 0 => step[q][Creation] \in Unsure \cup {"succeeded"}
      BY <2>1 DEF References, Candidates
    <3>2. Creation \in Steps
      BY DEF Creation, Steps
    <3> QED BY <2>0, <3>1, <3>2, <1>28, ConfigureConnectionDoes DEF Marked, Unsure
  <2> QED BY <2>1, <2>2, <2>3, <2>4, <2>5 DEF References, Candidates, Kind
<1>29. ASSUME Commit PROVE Candidates'
  <2>0. PICK q \in Ops : q = run.op
    BY <1>29, CommitDoes, Running
  <2>1. IsLive(q) /\ \A o \in Ops : IsLive(o) => o = q
    BY <2>0, <1>29, CommitDoes, Running DEF Control, OneLive, IsLive, Live
  <2>2. \A o \in Ops \ {q} : ~IsLive(o)'
    BY <2>0, <2>1, <1>29, CommitDoes DEF Turned, Ended, Became, Concluded, IsLive
  <2>3. IsLive(q)' => op'[q].cand = op[q].cand /\ op'[q].request = op[q].request
    BY <2>0, <2>1, <1>29, CommitDoes DEF Turned, Ended, Became, Concluded, IsLive, Live
  <2>4. IsLive(q)' /\ op[q].cand # 0 => LET c == op[q].cand IN c \in Rows /\ c \in Rows' /\ cred'[c].source = "managed" /\ cred'[c].secret /\ cred'[c].state \in {"candidate", "active"}
    BY <2>0, <2>1, <1>29, CommitDoes DEF References, Candidates, Ended, Became, IsLive, Live, Rows
  <2>5. IsLive(q)' /\ op[q].cand # 0 => step'[q][Creation] \in Unsure \cup {"succeeded"}
    <3>1. op[q].cand # 0 => step[q][Creation] \in Unsure \cup {"succeeded"}
      BY <2>1 DEF References, Candidates
    <3>2. Creation \in Steps
      BY DEF Creation, Steps
    <3> QED BY <2>0, <3>1, <3>2, <1>29, CommitDoes DEF Marked, Unsure
  <2> QED BY <2>1, <2>2, <2>3, <2>4, <2>5 DEF References, Candidates, Kind
<1>30. ASSUME Interrupt PROVE Candidates'
  <2>0. PICK q \in Ops : q = run.op
    BY <1>30, InterruptDoes, Running
  <2>1. IsLive(q) /\ \A o \in Ops : IsLive(o) => o = q
    BY <2>0, <1>30, InterruptDoes, Running DEF Control, OneLive, IsLive, Live
  <2>2. \A o \in Ops \ {q} : ~IsLive(o)'
    BY <2>0, <2>1, <1>30, InterruptDoes DEF Turned, Ended, Became, Concluded, IsLive
  <2>3. IsLive(q)' => op'[q].cand = op[q].cand /\ op'[q].request = op[q].request
    BY <2>0, <2>1, <1>30, InterruptDoes DEF Turned, Ended, Became, Concluded, IsLive, Live
  <2>4. IsLive(q)' /\ op[q].cand # 0 => LET c == op[q].cand IN c \in Rows /\ c \in Rows' /\ cred'[c].source = "managed" /\ cred'[c].secret /\ cred'[c].state \in {"candidate", "active"}
    BY <2>0, <2>1, <1>30, InterruptDoes DEF References, Candidates, Rows
  <2>5. IsLive(q)' /\ op[q].cand # 0 => step'[q][Creation] \in Unsure \cup {"succeeded"}
    <3>1. op[q].cand # 0 => step[q][Creation] \in Unsure \cup {"succeeded"}
      BY <2>1 DEF References, Candidates
    <3>2. Creation \in Steps
      BY DEF Creation, Steps
    <3> QED BY <2>0, <3>1, <3>2, <1>30, InterruptDoes DEF Marked, Unsure
  <2> QED BY <2>1, <2>2, <2>3, <2>4, <2>5 DEF References, Candidates, Kind
<1>31. ASSUME Unregister PROVE Candidates'
  <2>1. \A p \in Ops : ~IsLive(p)'
    BY <1>31, UnregisterDoes DEF IsLive
  <2> QED BY <2>1 DEF Candidates
<1>32. UNCHANGED <<op, step, cred>> => Candidates'
  BY DEF References, Candidates, IsLive, Kind, Rows
<1>33. ASSUME Start PROVE UNCHANGED <<op, step, cred>>
  BY <1>33, StartDoes
<1>34. ASSUME Provider PROVE UNCHANGED <<op, step, cred>>
  BY <1>34, ProviderDoes
<1>35. ASSUME Refused PROVE UNCHANGED <<op, step, cred>>
  BY <1>35, RefusedDoes
<1>36. ASSUME Confirm PROVE UNCHANGED <<op, step, cred>>
  BY <1>36, ConfirmDoes
<1>37. ASSUME Candidate PROVE UNCHANGED <<op, step, cred>>
  BY <1>37, CandidateDoes
<1>38. ASSUME Verify PROVE UNCHANGED <<op, step, cred>>
  BY <1>38, VerifyDoes
<1>39. ASSUME Revoke PROVE UNCHANGED <<op, step, cred>>
  BY <1>39, RevokeDoes
<1>40. ASSUME Validate PROVE UNCHANGED <<op, step, cred>>
  BY <1>40, ValidateDoes
<1>41. ASSUME Check PROVE UNCHANGED <<op, step, cred>>
  BY <1>41, CheckDoes
<1>42. ASSUME Land PROVE UNCHANGED <<op, step, cred>>
  BY <1>42, LandDoes
<1>43. ASSUME Switch PROVE UNCHANGED <<op, step, cred>>
  BY <1>43, SwitchDoes
<1>44. ASSUME Suspend PROVE UNCHANGED <<op, step, cred>>
  BY <1>44, SuspendDoes
<1>45. ASSUME Foreign PROVE UNCHANGED <<op, step, cred>>
  BY <1>45, ForeignDoes
<1> QED
  BY Failures, <1>1, <1>2, <1>3, <1>4, <1>5, <1>6, <1>7, <1>8, <1>9, <1>10, <1>11, <1>12, <1>13, <1>14, <1>15, <1>16, <1>17,
     <1>18, <1>19, <1>20, <1>21, <1>22, <1>23, <1>24, <1>25, <1>26, <1>27, <1>28, <1>29, <1>30, <1>31, <1>32, <1>33, <1>34,
     <1>35, <1>36, <1>37, <1>38, <1>39, <1>40, <1>41, <1>42, <1>43, <1>44, <1>45 DEF Next, Execution

-----------------------------------------------------------------------------
(* What executions and operations rely on. *)

(* A candidate is created only once. *)
LEMMA UncreatedStep ==
  ASSUME NoneIsNoOp, IMAPIsProtocol, LimitsAreNat, LocalTypes, OpTypes, RemoteTypes, Control, References, Next
  PROVE  Uncreated'
<1> USE NoneIsNoOp, IMAPIsProtocol, LimitsAreNat DEF vars, localVars, opVars, bounds, history, remoteVars
<1>1. ASSUME NEW o \in Ops, NEW k \in Kinds, Queue(o, k) PROVE Uncreated'
  <2>1. PICK r \in Requests(k) : r \in Request /\ Became(o, r, "queued", 0, 0, 0, 0, FALSE)
    BY <1>1, QueueDoes
  <2>2. /\ op[o].status = "none" /\ (\A p \in Ops : op[p].status \notin Live) /\ UNCHANGED <<run, step>>
    BY <1>1, QueueDoes
  <2>8. UNCHANGED run /\ (run.op # None => /\ run.op \in Ops /\ op'[run.op].request = op[run.op].request
                                          /\ op'[run.op].cand = op[run.op].cand /\ op'[run.op].private = op[run.op].private)
    BY <2>1, <2>2 DEF Became, Turned, Ended, Dropped, Marked, Moved, Stops, Concluded, OpTypes, Live, Control, Executing, RunRow
  <2> QED BY <2>8 DEF References, Uncreated
<1>2. ASSUME NEW o \in Ops, Execute(o) PROVE Uncreated'
  BY <1>2, ExecuteDoes DEF Uncreated
<1>3. ASSUME NEW o \in Ops, ConfirmExternal(o) PROVE Uncreated'
  <2>8. UNCHANGED run /\ (run.op # None => /\ run.op \in Ops /\ op'[run.op].request = op[run.op].request
                                          /\ op'[run.op].cand = op[run.op].cand /\ op'[run.op].private = op[run.op].private)
    BY <1>3, ConfirmExternalDoes DEF Became, Turned, Ended, Dropped, Marked, Moved, Stops, Concluded, OpTypes, Live, Control,
       Executing, RunRow
  <2> QED BY <2>8 DEF References, Uncreated
<1>4. ASSUME NEW o \in Ops, Reconcile(o) PROVE Uncreated'
  <2>8. UNCHANGED run /\ (run.op # None => /\ run.op \in Ops /\ op'[run.op].request = op[run.op].request
                                          /\ op'[run.op].cand = op[run.op].cand /\ op'[run.op].private = op[run.op].private)
    BY <1>4, ReconcileDoes DEF Became, Turned, Ended, Dropped, Marked, Moved, Stops, Concluded, OpTypes, Live, Control,
       Executing, RunRow
  <2> QED BY <2>8 DEF References, Uncreated
<1>5. ASSUME NEW o \in Ops, Retry(o) PROVE Uncreated'
  <2>8. UNCHANGED run /\ (run.op # None => /\ run.op \in Ops /\ op'[run.op].request = op[run.op].request
                                          /\ op'[run.op].cand = op[run.op].cand /\ op'[run.op].private = op[run.op].private)
    BY <1>5, RetryDoes DEF Became, Turned, Ended, Dropped, Marked, Moved, Stops, Concluded, OpTypes, Live, Control, Executing,
       RunRow
  <2> QED BY <2>8 DEF References, Uncreated
<1>6. ASSUME NEW o \in Ops, Cancel(o) PROVE Uncreated'
  <2>8. UNCHANGED run /\ (run.op # None => /\ run.op \in Ops /\ op'[run.op].request = op[run.op].request
                                          /\ op'[run.op].cand = op[run.op].cand /\ op'[run.op].private = op[run.op].private)
    BY <1>6, CancelDoes DEF Became, Turned, Ended, Dropped, Marked, Moved, Stops, Concluded, OpTypes, Live, Control,
       Executing, RunRow
  <2> QED BY <2>8 DEF References, Uncreated
<1>7. ASSUME NEW o \in Ops, Report(o) PROVE Uncreated'
  <2>8. UNCHANGED run /\ (run.op # None => /\ run.op \in Ops /\ op'[run.op].request = op[run.op].request
                                          /\ op'[run.op].cand = op[run.op].cand /\ op'[run.op].private = op[run.op].private)
    BY <1>7, ReportDoes DEF Became, Turned, Ended, Dropped, Marked, Moved, Stops, Concluded, OpTypes, Live, Control,
       Executing, RunRow
  <2> QED BY <2>8 DEF References, Uncreated
<1>8. ASSUME NEW o \in Ops, ClaimSecret(o) PROVE Uncreated'
  <2>8. UNCHANGED run /\ (run.op # None => /\ run.op \in Ops /\ op'[run.op].request = op[run.op].request
                                          /\ op'[run.op].cand = op[run.op].cand /\ op'[run.op].private = op[run.op].private)
    BY <1>8, ClaimSecretDoes DEF Became, Turned, Ended, Dropped, Marked, Moved, Stops, Concluded, OpTypes, Live, Control,
       Executing, RunRow
  <2> QED BY <2>8 DEF References, Uncreated
<1>9. ASSUME NEW o \in Ops, Expire(o) PROVE Uncreated'
  <2>8. UNCHANGED run /\ (run.op # None => /\ run.op \in Ops /\ op'[run.op].request = op[run.op].request
                                          /\ op'[run.op].cand = op[run.op].cand /\ op'[run.op].private = op[run.op].private)
    BY <1>9, ExpireDoes DEF Became, Turned, Ended, Dropped, Marked, Moved, Stops, Concluded, OpTypes, Live, Control,
       Executing, RunRow
  <2> QED BY <2>8 DEF References, Uncreated
<1>10. ASSUME Failure PROVE Uncreated'
  BY <1>10, FailureDoes DEF Uncreated, Stops, Idle, Concluded
<1>11. ASSUME Start PROVE Uncreated'
  BY <1>11, StartDoes DEF Uncreated, Calls, Control, Answers, Moved
<1>12. ASSUME Complete PROVE Uncreated'
  BY <1>12, CompleteDoes DEF Uncreated, Stops, Idle
<1>13. ASSUME Begin PROVE Uncreated'
  <2>1. CASE step[run.op][Step] \notin Unsure \cup {"succeeded"} /\ Moved(run.pc, run.old, run.secret, "calling") /\ UNCHANGED op
    <3>1. SUFFICES ASSUME run.pc = "credential.create" PROVE op[run.op].cand = 0
      BY <2>1 DEF Uncreated, Moved
    <3>2. Step = Creation
      BY <3>1 DEF Control, Answers, Step, Creation
    <3> QED BY <2>1, <3>2, <1>13, BeginDoes, Running DEF References, Candidates, IsLive, Live
  <2> QED BY <2>1, <1>13, BeginDoes DEF Uncreated, Moved, Concluded, Stops, Idle
<1>14. ASSUME Provider PROVE Uncreated'
  BY <1>14, ProviderDoes DEF Uncreated, Moved
<1>15. ASSUME Refused PROVE Uncreated'
  BY <1>15, RefusedDoes DEF References, Uncreated, Moved
<1>16. ASSUME Keep PROVE Uncreated'
  BY <1>16, KeepDoes DEF Uncreated, Moved
<1>17. ASSUME Record PROVE Uncreated'
  BY <1>17, RecordDoes DEF Uncreated, Moved, After, Calls
<1>18. ASSUME GiveUp PROVE Uncreated'
  BY <1>18, GiveUpDoes DEF Uncreated, Stops, Idle, Concluded
<1>19. ASSUME Reserve PROVE Uncreated'
  BY <1>19, ReserveDoes DEF Uncreated, Calls, Control, Answers, Moved
<1>20. ASSUME Confirm PROVE Uncreated'
  BY <1>20, ConfirmDoes DEF Uncreated, Calls, Control, Answers, Moved
<1>21. ASSUME Candidate PROVE Uncreated'
  BY <1>21, CandidateDoes DEF Uncreated, Calls, Control, Answers, Moved
<1>22. ASSUME Verify PROVE Uncreated'
  BY <1>22, VerifyDoes DEF Uncreated, Calls, Control, Answers, Moved
<1>23. ASSUME Activate PROVE Uncreated'
  BY <1>23, ActivateDoes DEF Uncreated, Calls, Control, Answers, Moved
<1>24. ASSUME Revoke PROVE Uncreated'
  BY <1>24, RevokeDoes DEF Uncreated, Calls, Control, Answers, Moved
<1>25. ASSUME Revoked PROVE Uncreated'
  BY <1>25, RevokedDoes DEF Uncreated, Calls, Control, Answers, Moved
<1>26. ASSUME Password PROVE Uncreated'
  BY <1>26, PasswordDoes DEF Uncreated, Calls, Control, Answers, Moved
<1>27. ASSUME Claim PROVE Uncreated'
  BY <1>27, ClaimDoes DEF Uncreated, Calls, Control, Answers, Moved
<1>28. ASSUME Validate PROVE Uncreated'
  BY <1>28, ValidateDoes DEF Uncreated, Calls, Control, Answers, Moved
<1>29. ASSUME Gone PROVE Uncreated'
  BY <1>29, GoneDoes DEF Uncreated, Moved, Concluded, Stops, Idle
<1>30. ASSUME External PROVE Uncreated'
  BY <1>30, ExternalDoes DEF Uncreated, Stops, Idle
<1>31. ASSUME Check PROVE Uncreated'
  BY <1>31, CheckDoes DEF Uncreated, Calls, Control, Answers, Moved
<1>32. ASSUME SaveEntered PROVE Uncreated'
  BY <1>32, SaveEnteredDoes DEF Uncreated, Calls, Control, Answers, Moved
<1>33. ASSUME Attach PROVE Uncreated'
  BY <1>33, AttachDoes DEF Uncreated, Calls, Control, Answers, Moved
<1>34. ASSUME UpdateEndpoints PROVE Uncreated'
  BY <1>34, UpdateEndpointsDoes DEF Uncreated, Stops, Idle
<1>35. ASSUME Reactivate PROVE Uncreated'
  BY <1>35, ReactivateDoes DEF Uncreated, Calls, Control, Answers, Moved
<1>36. ASSUME ConfigureConnection PROVE Uncreated'
  BY <1>36, ConfigureConnectionDoes DEF Uncreated, Stops, Idle
<1>37. ASSUME Commit PROVE Uncreated'
  BY <1>37, CommitDoes DEF Uncreated, Moved, Stops, Idle
<1>38. ASSUME Interrupt PROVE Uncreated'
  BY <1>38, InterruptDoes DEF Uncreated, Stops, Idle
<1>39. UNCHANGED <<op, run>> => Uncreated'
  BY DEF References, Uncreated
<1>40. ASSUME NEW o \in Ops, ReconcileStep(o) PROVE UNCHANGED <<op, run>>
  BY <1>40, ReconcileStepDoes
<1>41. ASSUME Land PROVE UNCHANGED <<op, run>>
  BY <1>41, LandDoes
<1>42. ASSUME Switch PROVE UNCHANGED <<op, run>>
  BY <1>42, SwitchDoes
<1>43. ASSUME Suspend PROVE UNCHANGED <<op, run>>
  BY <1>43, SuspendDoes
<1>44. ASSUME Unregister PROVE UNCHANGED <<op, run>>
  BY <1>44, UnregisterDoes
<1>45. ASSUME Foreign PROVE UNCHANGED <<op, run>>
  BY <1>45, ForeignDoes
<1> QED
  BY Failures, <1>1, <1>2, <1>3, <1>4, <1>5, <1>6, <1>7, <1>8, <1>9, <1>10, <1>11, <1>12, <1>13, <1>14, <1>15, <1>16, <1>17,
     <1>18, <1>19, <1>20, <1>21, <1>22, <1>23, <1>24, <1>25, <1>26, <1>27, <1>28, <1>29, <1>30, <1>31, <1>32, <1>33, <1>34,
     <1>35, <1>36, <1>37, <1>38, <1>39, <1>40, <1>41, <1>42, <1>43, <1>44, <1>45 DEF Next, Execution

(* What was created is saved before it is recorded. *)
LEMMA CreatedStep ==
  ASSUME NoneIsNoOp, IMAPIsProtocol, LimitsAreNat, LocalTypes, OpTypes, RemoteTypes, Control, References, Next
  PROVE  Created'
<1> USE NoneIsNoOp, IMAPIsProtocol, LimitsAreNat DEF vars, localVars, opVars, bounds, history, remoteVars
<1>1. ASSUME NEW o \in Ops, NEW k \in Kinds, Queue(o, k) PROVE Created'
  <2>1. PICK r \in Requests(k) : r \in Request /\ Became(o, r, "queued", 0, 0, 0, 0, FALSE)
    BY <1>1, QueueDoes
  <2>2. /\ op[o].status = "none" /\ (\A p \in Ops : op[p].status \notin Live) /\ UNCHANGED <<run, step>>
    BY <1>1, QueueDoes
  <2>3. step[o] = NotRun /\ Creation \in Steps
    BY <2>2 DEF Control, Untouched, Creation, Steps
  <2>4. \A p \in Ops \ {o} : op'[p] = op[p]
    BY <2>1 DEF Became
  <2> QED BY <2>2, <2>3, <2>4 DEF References, Created, Open, NotRun
<1>2. ASSUME NEW o \in Ops, Execute(o) PROVE Created'
  <2>1. \A p \in Ops : Open(p)' => Open(p) /\ op'[p].cand = op[p].cand
    BY <1>2, ExecuteDoes DEF OpTypes, Open, Live, Turned, Dropped, Ended, Became
  <2>2. \A p \in Ops : Open(p)' /\ step'[p][Creation] = "succeeded" => step[p][Creation] = "succeeded"
    BY <1>2, ExecuteDoes DEF Open, Live, Dropped, Became, Marked, Creation, Steps
  <2> QED BY <2>1, <2>2 DEF References, Created
<1>3. ASSUME NEW o \in Ops, ConfirmExternal(o) PROVE Created'
  <2>1. \A p \in Ops : Open(p)' => Open(p) /\ op'[p].cand = op[p].cand
    BY <1>3, ConfirmExternalDoes DEF OpTypes, Open, Live, Turned, Dropped, Ended, Became
  <2>2. \A p \in Ops : Open(p)' /\ step'[p][Creation] = "succeeded" => step[p][Creation] = "succeeded"
    BY <1>3, ConfirmExternalDoes DEF Open, Live, Dropped, Became, Marked, Creation, Steps
  <2> QED BY <2>1, <2>2 DEF References, Created
<1>4. ASSUME NEW o \in Ops, ReconcileStep(o) PROVE Created'
  <2>1. Creation \in Steps
    BY DEF Creation, Steps
  <2>2. op[o].cand = 0 => Verdict(o, Creation) # "succeeded"
    BY DEF Verdict, Creation
  <2>3. \A p \in Ops : step'[p][Creation] = "succeeded" => step[p][Creation] = "succeeded" \/ op[p].cand # 0
    BY <2>1, <2>2, <1>4, ReconcileStepDoes DEF Marked
  <2> QED BY <2>3, <1>4, ReconcileStepDoes DEF References, Created, Open
<1>5. ASSUME NEW o \in Ops, Reconcile(o) PROVE Created'
  <2>1. \A p \in Ops : Open(p)' => Open(p) /\ op'[p].cand = op[p].cand
    BY <1>5, ReconcileDoes DEF OpTypes, Open, Live, Turned, Dropped, Ended, Became
  <2>2. \A p \in Ops : Open(p)' /\ step'[p][Creation] = "succeeded" => step[p][Creation] = "succeeded"
    BY <1>5, ReconcileDoes DEF Open, Live, Dropped, Became, Marked, Creation, Steps
  <2> QED BY <2>1, <2>2 DEF References, Created
<1>6. ASSUME NEW o \in Ops, Retry(o) PROVE Created'
  <2>1. \A p \in Ops : Open(p)' => Open(p) /\ op'[p].cand = op[p].cand
    BY <1>6, RetryDoes DEF OpTypes, Open, Live, Turned, Dropped, Ended, Became
  <2>2. \A p \in Ops : Open(p)' /\ step'[p][Creation] = "succeeded" => step[p][Creation] = "succeeded"
    BY <1>6, RetryDoes DEF Open, Live, Dropped, Became, Marked, Creation, Steps
  <2> QED BY <2>1, <2>2 DEF References, Created
<1>7. ASSUME NEW o \in Ops, Cancel(o) PROVE Created'
  <2>1. \A p \in Ops : Open(p)' => Open(p) /\ op'[p].cand = op[p].cand
    BY <1>7, CancelDoes DEF OpTypes, Open, Live, Turned, Dropped, Ended, Became
  <2>2. \A p \in Ops : Open(p)' /\ step'[p][Creation] = "succeeded" => step[p][Creation] = "succeeded"
    BY <1>7, CancelDoes DEF Open, Live, Dropped, Became, Marked, Creation, Steps
  <2> QED BY <2>1, <2>2 DEF References, Created
<1>8. ASSUME NEW o \in Ops, Report(o) PROVE Created'
  <2>1. \A p \in Ops : Open(p)' => Open(p) /\ op'[p].cand = op[p].cand
    BY <1>8, ReportDoes DEF OpTypes, Open, Live, Turned, Dropped, Ended, Became
  <2>2. \A p \in Ops : Open(p)' /\ step'[p][Creation] = "succeeded" => step[p][Creation] = "succeeded"
    BY <1>8, ReportDoes DEF Open, Live, Dropped, Became, Marked, Creation, Steps
  <2> QED BY <2>1, <2>2 DEF References, Created
<1>9. ASSUME NEW o \in Ops, ClaimSecret(o) PROVE Created'
  <2>1. \A p \in Ops : Open(p)' => Open(p) /\ op'[p].cand = op[p].cand
    BY <1>9, ClaimSecretDoes DEF OpTypes, Open, Live, Turned, Dropped, Ended, Became
  <2>2. \A p \in Ops : Open(p)' /\ step'[p][Creation] = "succeeded" => step[p][Creation] = "succeeded"
    BY <1>9, ClaimSecretDoes DEF Open, Live, Dropped, Became, Marked, Creation, Steps
  <2> QED BY <2>1, <2>2 DEF References, Created
<1>10. ASSUME NEW o \in Ops, Expire(o) PROVE Created'
  <2>1. \A p \in Ops : Open(p)' => Open(p) /\ op'[p].cand = op[p].cand
    BY <1>10, ExpireDoes DEF OpTypes, Open, Live, Turned, Dropped, Ended, Became
  <2>2. \A p \in Ops : Open(p)' /\ step'[p][Creation] = "succeeded" => step[p][Creation] = "succeeded"
    BY <1>10, ExpireDoes DEF Open, Live, Dropped, Became, Marked, Creation, Steps
  <2> QED BY <2>1, <2>2 DEF References, Created
<1>11. ASSUME Failure PROVE Created'
  <2>0. PICK q \in Ops : q = run.op /\ op[q].status = "running"
    BY <1>11, FailureDoes, Running
  <2>1. \A o \in Ops \ {q} : op'[o] = op[o] /\ step'[o][Creation] = step[o][Creation]
    BY <2>0, <1>11, FailureDoes DEF Turned, Ended, Became, Concluded, Marked, Creation, Steps
  <2>2. Open(q)' => op'[q].cand = op[q].cand
    BY <2>0, <1>11, FailureDoes DEF Turned, Ended, Became, Concluded, Open, Live
  <2>3. step'[q][Creation] = "succeeded" => step[q][Creation] = "succeeded"
    BY <2>0, <1>11, FailureDoes DEF Marked, Creation, Steps
  <2> QED BY <2>0, <2>1, <2>2, <2>3 DEF References, Created, Open, Live
<1>12. ASSUME Complete PROVE Created'
  <2>0. PICK q \in Ops : q = run.op /\ op[q].status = "running"
    BY <1>12, CompleteDoes, Running
  <2>1. \A o \in Ops \ {q} : op'[o] = op[o] /\ step'[o][Creation] = step[o][Creation]
    BY <2>0, <1>12, CompleteDoes DEF Turned, Ended, Became, Concluded, Marked, Creation, Steps
  <2>2. Open(q)' => op'[q].cand = op[q].cand
    BY <2>0, <1>12, CompleteDoes DEF Turned, Ended, Became, Concluded, Open, Live
  <2>3. step'[q][Creation] = "succeeded" => step[q][Creation] = "succeeded"
    BY <2>0, <1>12, CompleteDoes DEF Marked, Creation, Steps
  <2> QED BY <2>0, <2>1, <2>2, <2>3 DEF References, Created, Open, Live
<1>13. ASSUME Begin PROVE Created'
  <2>0. PICK q \in Ops : q = run.op /\ op[q].status = "running"
    BY <1>13, BeginDoes, Running
  <2>1. \A o \in Ops \ {q} : op'[o] = op[o] /\ step'[o][Creation] = step[o][Creation]
    BY <2>0, <1>13, BeginDoes DEF Turned, Ended, Became, Concluded, Marked, Creation, Steps
  <2>2. Open(q)' => op'[q].cand = op[q].cand
    BY <2>0, <1>13, BeginDoes DEF Turned, Ended, Became, Concluded, Open, Live
  <2>3. step'[q][Creation] = "succeeded" => step[q][Creation] = "succeeded"
    BY <2>0, <1>13, BeginDoes DEF Marked, Creation, Steps
  <2> QED BY <2>0, <2>1, <2>2, <2>3 DEF References, Created, Open, Live
<1>14. ASSUME Keep PROVE Created'
  <2>1. \A o \in Ops : op'[o].cand \in {op[o].cand, Len(cred) + 1} /\ op'[o].status = op[o].status
    BY <1>14, KeepDoes DEF Became
  <2>2. Len(cred) + 1 # 0 /\ step' = step
    BY <1>14, KeepDoes DEF LocalTypes
  <2> QED BY <2>1, <2>2 DEF References, Created, Open
<1>15. ASSUME Record PROVE Created'
  <2>0. PICK q \in Ops : q = run.op /\ op[q].status = "running"
    BY <1>15, RecordDoes, Running
  <2>1. \A o \in Ops \ {q} : op'[o] = op[o] /\ step'[o][Creation] = step[o][Creation]
    BY <2>0, <1>15, RecordDoes DEF Turned, Ended, Became, Concluded, Marked, Creation, Steps
  <2>2. Open(q)' => op'[q].cand = op[q].cand
    BY <2>0, <1>15, RecordDoes DEF Turned, Ended, Became, Concluded, Open, Live
  <2>3. step'[q][Creation] = "succeeded" => step[q][Creation] = "succeeded" \/ op[q].cand # 0
    <3>1. CASE Step # Creation
      BY <2>0, <3>1, <1>15, RecordDoes DEF Marked, Creation, Steps
    <3>2. CASE Step = Creation
      BY <2>0, <3>2, <1>15, RecordDoes DEF Marked, Outcome, Step, Creation
    <3> QED BY <3>1, <3>2
  <2> QED BY <2>0, <2>1, <2>2, <2>3 DEF References, Created, Open, Live
<1>16. ASSUME GiveUp PROVE Created'
  <2>0. PICK q \in Ops : q = run.op /\ op[q].status = "running"
    BY <1>16, GiveUpDoes, Running
  <2>1. \A o \in Ops \ {q} : op'[o] = op[o] /\ step'[o][Creation] = step[o][Creation]
    BY <2>0, <1>16, GiveUpDoes DEF Turned, Ended, Became, Concluded, Marked, Creation, Steps
  <2>2. Open(q)' => op'[q].cand = op[q].cand
    BY <2>0, <1>16, GiveUpDoes DEF Turned, Ended, Became, Concluded, Open, Live
  <2>3. step'[q][Creation] = "succeeded" => step[q][Creation] = "succeeded"
    BY <2>0, <1>16, GiveUpDoes DEF Marked, Creation, Steps
  <2> QED BY <2>0, <2>1, <2>2, <2>3 DEF References, Created, Open, Live
<1>17. ASSUME Reserve PROVE Created'
  <2>0. PICK q \in Ops : q = run.op /\ op[q].status = "running"
    BY <1>17, ReserveDoes, Running
  <2>1. \A o \in Ops \ {q} : op'[o] = op[o] /\ step'[o][Creation] = step[o][Creation]
    BY <2>0, <1>17, ReserveDoes DEF Turned, Ended, Became, Concluded, Marked, Reservation, Creation, Steps
  <2>2. Open(q)' => op'[q].cand = op[q].cand
    BY <2>0, <1>17, ReserveDoes DEF Turned, Ended, Became, Concluded, Open, Live
  <2>3. step'[q][Creation] = "succeeded" => step[q][Creation] = "succeeded"
    BY <2>0, <1>17, ReserveDoes DEF Marked, Reservation, Creation, Steps
  <2> QED BY <2>0, <2>1, <2>2, <2>3 DEF References, Created, Open, Live
<1>18. ASSUME Activate PROVE Created'
  <2>0. PICK q \in Ops : q = run.op /\ op[q].status = "running"
    BY <1>18, ActivateDoes, Running
  <2>1. \A o \in Ops \ {q} : op'[o] = op[o] /\ step'[o][Creation] = step[o][Creation]
    BY <2>0, <1>18, ActivateDoes DEF Turned, Ended, Became, Concluded, Marked, Creation, Steps
  <2>2. Open(q)' => op'[q].cand = op[q].cand
    BY <2>0, <1>18, ActivateDoes DEF Turned, Ended, Became, Concluded, Open, Live
  <2>3. step'[q][Creation] = "succeeded" => step[q][Creation] = "succeeded"
    BY <2>0, <1>18, ActivateDoes DEF Marked, Creation, Steps
  <2> QED BY <2>0, <2>1, <2>2, <2>3 DEF References, Created, Open, Live
<1>19. ASSUME Password PROVE Created'
  <2>0. PICK q \in Ops : q = run.op /\ op[q].status = "running"
    BY <1>19, PasswordDoes, Running
  <2>1. \A o \in Ops \ {q} : op'[o] = op[o] /\ step'[o][Creation] = step[o][Creation]
    BY <2>0, <1>19, PasswordDoes DEF Turned, Ended, Became, Concluded, Marked, Creation, Steps
  <2>2. Open(q)' => op'[q].cand = op[q].cand
    BY <2>0, <1>19, PasswordDoes DEF Turned, Ended, Became, Concluded, Open, Live
  <2>3. step'[q][Creation] = "succeeded" => step[q][Creation] = "succeeded"
    BY <2>0, <1>19, PasswordDoes DEF Marked, Creation, Steps
  <2> QED BY <2>0, <2>1, <2>2, <2>3 DEF References, Created, Open, Live
<1>20. ASSUME Claim PROVE Created'
  <2>0. PICK q \in Ops : q = run.op /\ op[q].status = "running"
    BY <1>20, ClaimDoes, Running
  <2>1. \A o \in Ops \ {q} : op'[o] = op[o] /\ step'[o][Creation] = step[o][Creation]
    BY <2>0, <1>20, ClaimDoes DEF Turned, Ended, Became, Concluded, Marked, Creation, Steps
  <2>2. Open(q)' => op'[q].cand = op[q].cand
    BY <2>0, <1>20, ClaimDoes DEF Turned, Ended, Became, Concluded, Open, Live
  <2>3. step'[q][Creation] = "succeeded" => step[q][Creation] = "succeeded"
    BY <2>0, <1>20, ClaimDoes DEF Marked, Creation, Steps
  <2> QED BY <2>0, <2>1, <2>2, <2>3 DEF References, Created, Open, Live
<1>21. ASSUME Gone PROVE Created'
  <2>0. PICK q \in Ops : q = run.op /\ op[q].status = "running"
    BY <1>21, GoneDoes, Running
  <2>1. \A o \in Ops \ {q} : op'[o] = op[o] /\ step'[o][Creation] = step[o][Creation]
    BY <2>0, <1>21, GoneDoes DEF Turned, Ended, Became, Concluded, Marked, Creation, Steps
  <2>2. Open(q)' => op'[q].cand = op[q].cand
    BY <2>0, <1>21, GoneDoes DEF Turned, Ended, Became, Concluded, Open, Live
  <2>3. step'[q][Creation] = "succeeded" => step[q][Creation] = "succeeded"
    BY <2>0, <1>21, GoneDoes DEF Marked, Creation, Steps
  <2> QED BY <2>0, <2>1, <2>2, <2>3 DEF References, Created, Open, Live
<1>22. ASSUME External PROVE Created'
  <2>0. PICK q \in Ops : q = run.op /\ op[q].status = "running"
    BY <1>22, ExternalDoes, Running
  <2>1. \A o \in Ops \ {q} : op'[o] = op[o] /\ step'[o][Creation] = step[o][Creation]
    BY <2>0, <1>22, ExternalDoes DEF Turned, Ended, Became, Concluded, Marked, Creation, Steps
  <2>2. Open(q)' => op'[q].cand = op[q].cand
    BY <2>0, <1>22, ExternalDoes DEF Turned, Ended, Became, Concluded, Open, Live
  <2>3. step'[q][Creation] = "succeeded" => step[q][Creation] = "succeeded"
    BY <2>0, <1>22, ExternalDoes DEF Marked, Creation, Steps
  <2> QED BY <2>0, <2>1, <2>2, <2>3 DEF References, Created, Open, Live
<1>23. ASSUME SaveEntered PROVE Created'
  <2>0. PICK q \in Ops : q = run.op /\ op[q].status = "running"
    BY <1>23, SaveEnteredDoes, Running
  <2>1. \A o \in Ops \ {q} : op'[o] = op[o] /\ step'[o][Creation] = step[o][Creation]
    BY <2>0, <1>23, SaveEnteredDoes DEF Turned, Ended, Became, Concluded, Marked, Creation, Steps
  <2>2. Open(q)' => op'[q].cand = op[q].cand
    BY <2>0, <1>23, SaveEnteredDoes DEF Turned, Ended, Became, Concluded, Open, Live
  <2>3. step'[q][Creation] = "succeeded" => step[q][Creation] = "succeeded"
    BY <2>0, <1>23, SaveEnteredDoes DEF Marked, Creation, Steps
  <2> QED BY <2>0, <2>1, <2>2, <2>3 DEF References, Created, Open, Live
<1>24. ASSUME Attach PROVE Created'
  <2>0. PICK q \in Ops : q = run.op /\ op[q].status = "running"
    BY <1>24, AttachDoes, Running
  <2>1. \A o \in Ops \ {q} : op'[o] = op[o] /\ step'[o][Creation] = step[o][Creation]
    BY <2>0, <1>24, AttachDoes DEF Turned, Ended, Became, Concluded, Marked, Creation, Steps
  <2>2. Open(q)' => op'[q].cand = op[q].cand
    BY <2>0, <1>24, AttachDoes DEF Turned, Ended, Became, Concluded, Open, Live
  <2>3. step'[q][Creation] = "succeeded" => step[q][Creation] = "succeeded"
    BY <2>0, <1>24, AttachDoes DEF Marked, Creation, Steps
  <2> QED BY <2>0, <2>1, <2>2, <2>3 DEF References, Created, Open, Live
<1>25. ASSUME UpdateEndpoints PROVE Created'
  <2>0. PICK q \in Ops : q = run.op /\ op[q].status = "running"
    BY <1>25, UpdateEndpointsDoes, Running
  <2>1. \A o \in Ops \ {q} : op'[o] = op[o] /\ step'[o][Creation] = step[o][Creation]
    BY <2>0, <1>25, UpdateEndpointsDoes DEF Turned, Ended, Became, Concluded, Marked, Creation, Steps
  <2>2. Open(q)' => op'[q].cand = op[q].cand
    BY <2>0, <1>25, UpdateEndpointsDoes DEF Turned, Ended, Became, Concluded, Open, Live
  <2>3. step'[q][Creation] = "succeeded" => step[q][Creation] = "succeeded"
    BY <2>0, <1>25, UpdateEndpointsDoes DEF Marked, Creation, Steps
  <2> QED BY <2>0, <2>1, <2>2, <2>3 DEF References, Created, Open, Live
<1>26. ASSUME Reactivate PROVE Created'
  <2>0. PICK q \in Ops : q = run.op /\ op[q].status = "running"
    BY <1>26, ReactivateDoes, Running
  <2>1. \A o \in Ops \ {q} : op'[o] = op[o] /\ step'[o][Creation] = step[o][Creation]
    BY <2>0, <1>26, ReactivateDoes DEF Turned, Ended, Became, Concluded, Marked, Creation, Steps
  <2>2. Open(q)' => op'[q].cand = op[q].cand
    BY <2>0, <1>26, ReactivateDoes DEF Turned, Ended, Became, Concluded, Open, Live
  <2>3. step'[q][Creation] = "succeeded" => step[q][Creation] = "succeeded"
    BY <2>0, <1>26, ReactivateDoes DEF Marked, Creation, Steps
  <2> QED BY <2>0, <2>1, <2>2, <2>3 DEF References, Created, Open, Live
<1>27. ASSUME ConfigureConnection PROVE Created'
  <2>0. PICK q \in Ops : q = run.op /\ op[q].status = "running"
    BY <1>27, ConfigureConnectionDoes, Running
  <2>1. \A o \in Ops \ {q} : op'[o] = op[o] /\ step'[o][Creation] = step[o][Creation]
    BY <2>0, <1>27, ConfigureConnectionDoes DEF Turned, Ended, Became, Concluded, Marked, Creation, Steps
  <2>2. Open(q)' => op'[q].cand = op[q].cand
    BY <2>0, <1>27, ConfigureConnectionDoes DEF Turned, Ended, Became, Concluded, Open, Live
  <2>3. step'[q][Creation] = "succeeded" => step[q][Creation] = "succeeded"
    BY <2>0, <1>27, ConfigureConnectionDoes DEF Marked, Creation, Steps
  <2> QED BY <2>0, <2>1, <2>2, <2>3 DEF References, Created, Open, Live
<1>28. ASSUME Commit PROVE Created'
  <2>0. PICK q \in Ops : q = run.op /\ op[q].status = "running"
    BY <1>28, CommitDoes, Running
  <2>1. \A o \in Ops \ {q} : op'[o] = op[o] /\ step'[o][Creation] = step[o][Creation]
    BY <2>0, <1>28, CommitDoes DEF Turned, Ended, Became, Concluded, Marked, Creation, Steps
  <2>2. Open(q)' => op'[q].cand = op[q].cand
    BY <2>0, <1>28, CommitDoes DEF Turned, Ended, Became, Concluded, Open, Live
  <2>3. step'[q][Creation] = "succeeded" => step[q][Creation] = "succeeded"
    BY <2>0, <1>28, CommitDoes DEF Marked, Creation, Steps
  <2> QED BY <2>0, <2>1, <2>2, <2>3 DEF References, Created, Open, Live
<1>29. ASSUME Interrupt PROVE Created'
  <2>0. PICK q \in Ops : q = run.op /\ op[q].status = "running"
    BY <1>29, InterruptDoes, Running
  <2>1. \A o \in Ops \ {q} : op'[o] = op[o] /\ step'[o][Creation] = step[o][Creation]
    BY <2>0, <1>29, InterruptDoes DEF Turned, Ended, Became, Concluded, Marked, Creation, Steps
  <2>2. Open(q)' => op'[q].cand = op[q].cand
    BY <2>0, <1>29, InterruptDoes DEF Turned, Ended, Became, Concluded, Open, Live
  <2>3. step'[q][Creation] = "succeeded" => step[q][Creation] = "succeeded"
    BY <2>0, <1>29, InterruptDoes DEF Marked, Creation, Steps
  <2> QED BY <2>0, <2>1, <2>2, <2>3 DEF References, Created, Open, Live
<1>30. UNCHANGED <<op, step>> => Created'
  BY DEF References, Created, Open
<1>31. ASSUME Start PROVE UNCHANGED <<op, step>>
  BY <1>31, StartDoes
<1>32. ASSUME Provider PROVE UNCHANGED <<op, step>>
  BY <1>32, ProviderDoes
<1>33. ASSUME Refused PROVE UNCHANGED <<op, step>>
  BY <1>33, RefusedDoes
<1>34. ASSUME Confirm PROVE UNCHANGED <<op, step>>
  BY <1>34, ConfirmDoes
<1>35. ASSUME Candidate PROVE UNCHANGED <<op, step>>
  BY <1>35, CandidateDoes
<1>36. ASSUME Verify PROVE UNCHANGED <<op, step>>
  BY <1>36, VerifyDoes
<1>37. ASSUME Revoke PROVE UNCHANGED <<op, step>>
  BY <1>37, RevokeDoes
<1>38. ASSUME Revoked PROVE UNCHANGED <<op, step>>
  BY <1>38, RevokedDoes
<1>39. ASSUME Validate PROVE UNCHANGED <<op, step>>
  BY <1>39, ValidateDoes
<1>40. ASSUME Check PROVE UNCHANGED <<op, step>>
  BY <1>40, CheckDoes
<1>41. ASSUME Land PROVE UNCHANGED <<op, step>>
  BY <1>41, LandDoes
<1>42. ASSUME Switch PROVE UNCHANGED <<op, step>>
  BY <1>42, SwitchDoes
<1>43. ASSUME Suspend PROVE UNCHANGED <<op, step>>
  BY <1>43, SuspendDoes
<1>44. ASSUME Unregister PROVE UNCHANGED <<op, step>>
  BY <1>44, UnregisterDoes
<1>45. ASSUME Foreign PROVE UNCHANGED <<op, step>>
  BY <1>45, ForeignDoes
<1> QED
  BY Failures, <1>1, <1>2, <1>3, <1>4, <1>5, <1>6, <1>7, <1>8, <1>9, <1>10, <1>11, <1>12, <1>13, <1>14, <1>15, <1>16, <1>17,
     <1>18, <1>19, <1>20, <1>21, <1>22, <1>23, <1>24, <1>25, <1>26, <1>27, <1>28, <1>29, <1>30, <1>31, <1>32, <1>33, <1>34,
     <1>35, <1>36, <1>37, <1>38, <1>39, <1>40, <1>41, <1>42, <1>43, <1>44, <1>45 DEF Next, Execution

(* A candidate that is tried or activated is there. *)
LEMMA HasCandidateStep ==
  ASSUME NoneIsNoOp, IMAPIsProtocol, LimitsAreNat, LocalTypes, OpTypes, RemoteTypes, Control, References, Next
  PROVE  HasCandidate'
<1> USE NoneIsNoOp, IMAPIsProtocol, LimitsAreNat DEF vars, localVars, opVars, bounds, history, remoteVars
<1>1. ASSUME NEW o \in Ops, NEW k \in Kinds, Queue(o, k) PROVE HasCandidate'
  <2>1. PICK r \in Requests(k) : r \in Request /\ Became(o, r, "queued", 0, 0, 0, 0, FALSE)
    BY <1>1, QueueDoes
  <2>2. /\ op[o].status = "none" /\ (\A p \in Ops : op[p].status \notin Live) /\ UNCHANGED <<run, step>>
    BY <1>1, QueueDoes
  <2>8. UNCHANGED run /\ (run.op # None => /\ run.op \in Ops /\ op'[run.op].request = op[run.op].request
                                          /\ op'[run.op].cand = op[run.op].cand /\ op'[run.op].private = op[run.op].private)
    BY <2>1, <2>2 DEF Became, Turned, Ended, Dropped, Marked, Moved, Stops, Concluded, OpTypes, Live, Control, Executing, RunRow
  <2> QED BY <2>8 DEF References, HasCandidate
<1>2. ASSUME NEW o \in Ops, Execute(o) PROVE HasCandidate'
  BY <1>2, ExecuteDoes DEF HasCandidate
<1>3. ASSUME NEW o \in Ops, ConfirmExternal(o) PROVE HasCandidate'
  <2>8. UNCHANGED run /\ (run.op # None => /\ run.op \in Ops /\ op'[run.op].request = op[run.op].request
                                          /\ op'[run.op].cand = op[run.op].cand /\ op'[run.op].private = op[run.op].private)
    BY <1>3, ConfirmExternalDoes DEF Became, Turned, Ended, Dropped, Marked, Moved, Stops, Concluded, OpTypes, Live, Control,
       Executing, RunRow
  <2> QED BY <2>8 DEF References, HasCandidate
<1>4. ASSUME NEW o \in Ops, Reconcile(o) PROVE HasCandidate'
  <2>8. UNCHANGED run /\ (run.op # None => /\ run.op \in Ops /\ op'[run.op].request = op[run.op].request
                                          /\ op'[run.op].cand = op[run.op].cand /\ op'[run.op].private = op[run.op].private)
    BY <1>4, ReconcileDoes DEF Became, Turned, Ended, Dropped, Marked, Moved, Stops, Concluded, OpTypes, Live, Control,
       Executing, RunRow
  <2> QED BY <2>8 DEF References, HasCandidate
<1>5. ASSUME NEW o \in Ops, Retry(o) PROVE HasCandidate'
  <2>8. UNCHANGED run /\ (run.op # None => /\ run.op \in Ops /\ op'[run.op].request = op[run.op].request
                                          /\ op'[run.op].cand = op[run.op].cand /\ op'[run.op].private = op[run.op].private)
    BY <1>5, RetryDoes DEF Became, Turned, Ended, Dropped, Marked, Moved, Stops, Concluded, OpTypes, Live, Control, Executing,
       RunRow
  <2> QED BY <2>8 DEF References, HasCandidate
<1>6. ASSUME NEW o \in Ops, Cancel(o) PROVE HasCandidate'
  <2>8. UNCHANGED run /\ (run.op # None => /\ run.op \in Ops /\ op'[run.op].request = op[run.op].request
                                          /\ op'[run.op].cand = op[run.op].cand /\ op'[run.op].private = op[run.op].private)
    BY <1>6, CancelDoes DEF Became, Turned, Ended, Dropped, Marked, Moved, Stops, Concluded, OpTypes, Live, Control,
       Executing, RunRow
  <2> QED BY <2>8 DEF References, HasCandidate
<1>7. ASSUME NEW o \in Ops, Report(o) PROVE HasCandidate'
  <2>8. UNCHANGED run /\ (run.op # None => /\ run.op \in Ops /\ op'[run.op].request = op[run.op].request
                                          /\ op'[run.op].cand = op[run.op].cand /\ op'[run.op].private = op[run.op].private)
    BY <1>7, ReportDoes DEF Became, Turned, Ended, Dropped, Marked, Moved, Stops, Concluded, OpTypes, Live, Control,
       Executing, RunRow
  <2> QED BY <2>8 DEF References, HasCandidate
<1>8. ASSUME NEW o \in Ops, ClaimSecret(o) PROVE HasCandidate'
  <2>8. UNCHANGED run /\ (run.op # None => /\ run.op \in Ops /\ op'[run.op].request = op[run.op].request
                                          /\ op'[run.op].cand = op[run.op].cand /\ op'[run.op].private = op[run.op].private)
    BY <1>8, ClaimSecretDoes DEF Became, Turned, Ended, Dropped, Marked, Moved, Stops, Concluded, OpTypes, Live, Control,
       Executing, RunRow
  <2> QED BY <2>8 DEF References, HasCandidate
<1>9. ASSUME NEW o \in Ops, Expire(o) PROVE HasCandidate'
  <2>8. UNCHANGED run /\ (run.op # None => /\ run.op \in Ops /\ op'[run.op].request = op[run.op].request
                                          /\ op'[run.op].cand = op[run.op].cand /\ op'[run.op].private = op[run.op].private)
    BY <1>9, ExpireDoes DEF Became, Turned, Ended, Dropped, Marked, Moved, Stops, Concluded, OpTypes, Live, Control,
       Executing, RunRow
  <2> QED BY <2>8 DEF References, HasCandidate
<1>10. ASSUME Failure PROVE HasCandidate'
  BY <1>10, FailureDoes DEF HasCandidate, Stops, Idle, Concluded
<1>11. ASSUME Start PROVE HasCandidate'
  BY <1>11, StartDoes DEF HasCandidate, Moved, First
<1>12. ASSUME Complete PROVE HasCandidate'
  BY <1>12, CompleteDoes DEF HasCandidate, Stops, Idle
<1>13. ASSUME Begin PROVE HasCandidate'
  <2>1. CASE step[run.op][Step] = "succeeded" /\ Moved(After(run.pc), run.old, run.secret, "none") /\ UNCHANGED <<op, step>>
    <3>1. CASE run.pc = "credential.create"
      <4>1. Step = Creation
        BY <3>1 DEF Control, Answers, Step, Creation
      <4> QED BY <2>1, <4>1, <1>13, BeginDoes, Running DEF References, Created, Open, Live, HasCandidate, Moved
    <3>2. CASE run.pc # "credential.create"
      BY <2>1, <3>2, <1>13, BeginDoes DEF HasCandidate, Moved, After, Calls
    <3> QED BY <3>1, <3>2
  <2> QED BY <2>1, <1>13, BeginDoes DEF HasCandidate, Moved, Concluded, Stops, Idle, Calls
<1>14. ASSUME Provider PROVE HasCandidate'
  BY <1>14, ProviderDoes DEF HasCandidate, Moved, Calls
<1>15. ASSUME Refused PROVE HasCandidate'
  BY <1>15, RefusedDoes DEF HasCandidate, Moved, Calls
<1>16. ASSUME Keep PROVE HasCandidate'
  BY <1>16, KeepDoes DEF HasCandidate, Moved, Calls
<1>17. ASSUME Record PROVE HasCandidate'
  BY <1>17, RecordDoes DEF HasCandidate, Moved, After, Calls
<1>18. ASSUME GiveUp PROVE HasCandidate'
  BY <1>18, GiveUpDoes DEF HasCandidate, Stops, Idle, Concluded
<1>19. ASSUME Reserve PROVE HasCandidate'
  BY <1>19, ReserveDoes DEF References, HasCandidate, Moved
<1>20. ASSUME Confirm PROVE HasCandidate'
  BY <1>20, ConfirmDoes DEF References, HasCandidate, Moved
<1>21. ASSUME Candidate PROVE HasCandidate'
  BY <1>21, CandidateDoes DEF References, HasCandidate, Moved
<1>22. ASSUME Verify PROVE HasCandidate'
  BY <1>22, VerifyDoes DEF References, HasCandidate, Moved
<1>23. ASSUME Activate PROVE HasCandidate'
  BY <1>23, ActivateDoes DEF References, HasCandidate, Moved
<1>24. ASSUME Revoke PROVE HasCandidate'
  BY <1>24, RevokeDoes DEF HasCandidate, Moved
<1>25. ASSUME Revoked PROVE HasCandidate'
  BY <1>25, RevokedDoes DEF References, HasCandidate, Moved
<1>26. ASSUME Password PROVE HasCandidate'
  BY <1>26, PasswordDoes DEF References, HasCandidate, Moved
<1>27. ASSUME Claim PROVE HasCandidate'
  BY <1>27, ClaimDoes DEF References, HasCandidate, Moved
<1>28. ASSUME Validate PROVE HasCandidate'
  BY <1>28, ValidateDoes DEF References, HasCandidate, Moved
<1>29. ASSUME Gone PROVE HasCandidate'
  BY <1>29, GoneDoes DEF HasCandidate, Moved, Concluded, Stops, Idle
<1>30. ASSUME External PROVE HasCandidate'
  BY <1>30, ExternalDoes DEF HasCandidate, Stops, Idle
<1>31. ASSUME Check PROVE HasCandidate'
  BY <1>31, CheckDoes DEF References, HasCandidate, Moved
<1>32. ASSUME SaveEntered PROVE HasCandidate'
  BY <1>32, SaveEnteredDoes DEF References, HasCandidate, Moved
<1>33. ASSUME Attach PROVE HasCandidate'
  BY <1>33, AttachDoes DEF References, HasCandidate, Moved
<1>34. ASSUME UpdateEndpoints PROVE HasCandidate'
  BY <1>34, UpdateEndpointsDoes DEF HasCandidate, Stops, Idle
<1>35. ASSUME Reactivate PROVE HasCandidate'
  BY <1>35, ReactivateDoes DEF References, HasCandidate, Moved
<1>36. ASSUME ConfigureConnection PROVE HasCandidate'
  BY <1>36, ConfigureConnectionDoes DEF HasCandidate, Stops, Idle
<1>37. ASSUME Commit PROVE HasCandidate'
  BY <1>37, CommitDoes DEF HasCandidate, Moved, Stops, Idle
<1>38. ASSUME Interrupt PROVE HasCandidate'
  BY <1>38, InterruptDoes DEF HasCandidate, Stops, Idle
<1>39. UNCHANGED <<op, run>> => HasCandidate'
  BY DEF References, HasCandidate
<1>40. ASSUME NEW o \in Ops, ReconcileStep(o) PROVE UNCHANGED <<op, run>>
  BY <1>40, ReconcileStepDoes
<1>41. ASSUME Land PROVE UNCHANGED <<op, run>>
  BY <1>41, LandDoes
<1>42. ASSUME Switch PROVE UNCHANGED <<op, run>>
  BY <1>42, SwitchDoes
<1>43. ASSUME Suspend PROVE UNCHANGED <<op, run>>
  BY <1>43, SuspendDoes
<1>44. ASSUME Unregister PROVE UNCHANGED <<op, run>>
  BY <1>44, UnregisterDoes
<1>45. ASSUME Foreign PROVE UNCHANGED <<op, run>>
  BY <1>45, ForeignDoes
<1> QED
  BY Failures, <1>1, <1>2, <1>3, <1>4, <1>5, <1>6, <1>7, <1>8, <1>9, <1>10, <1>11, <1>12, <1>13, <1>14, <1>15, <1>16, <1>17,
     <1>18, <1>19, <1>20, <1>21, <1>22, <1>23, <1>24, <1>25, <1>26, <1>27, <1>28, <1>29, <1>30, <1>31, <1>32, <1>33, <1>34,
     <1>35, <1>36, <1>37, <1>38, <1>39, <1>40, <1>41, <1>42, <1>43, <1>44, <1>45 DEF Next, Execution

(* An app password that is to be revoked is one. *)
LEMMA OldRowStep ==
  ASSUME NoneIsNoOp, IMAPIsProtocol, LimitsAreNat, LocalTypes, OpTypes, RemoteTypes, Control, References, Next
  PROVE  OldRow'
<1> USE NoneIsNoOp, IMAPIsProtocol, LimitsAreNat DEF vars, localVars, opVars, bounds, history, remoteVars
<1>1. ASSUME NEW o \in Ops, Execute(o) PROVE OldRow'
  BY <1>1, ExecuteDoes DEF OldRow
<1>2. ASSUME NEW o \in Ops, ConfirmExternal(o) PROVE OldRow'
  <2>1. run' = run /\ run.op = None
    BY <1>2, ConfirmExternalDoes, Running DEF Control, OneLive, IsLive, Live
  <2> QED BY <2>1 DEF OldRow
<1>3. ASSUME Failure PROVE OldRow'
  BY <1>3, FailureDoes DEF OldRow, Stops, Idle, Concluded
<1>4. ASSUME Start PROVE OldRow'
  BY <1>4, StartDoes DEF OldRow, Moved, First
<1>5. ASSUME Complete PROVE OldRow'
  BY <1>5, CompleteDoes DEF OldRow, Stops, Idle
<1>6. ASSUME Begin PROVE OldRow'
  BY <1>6, BeginDoes DEF References, OldRow, OfState, Moved, Concluded, Stops, Idle, After, Calls
<1>7. ASSUME Provider PROVE OldRow'
  BY <1>7, ProviderDoes DEF References, OldRow, OfState, Moved
<1>8. ASSUME Refused PROVE OldRow'
  BY <1>8, RefusedDoes DEF References, OldRow, OfState, Moved
<1>9. ASSUME Keep PROVE OldRow'
  BY <1>9, KeepDoes DEF References, OldRow, OfState, Moved
<1>10. ASSUME Record PROVE OldRow'
  BY <1>10, RecordDoes DEF References, OldRow, OfState, Moved, After, Calls
<1>11. ASSUME GiveUp PROVE OldRow'
  BY <1>11, GiveUpDoes DEF OldRow, Stops, Idle, Concluded
<1>12. ASSUME Reserve PROVE OldRow'
  BY <1>12, ReserveDoes DEF OldRow, Moved
<1>13. ASSUME Confirm PROVE OldRow'
  BY <1>13, ConfirmDoes DEF OldRow, Moved
<1>14. ASSUME Candidate PROVE OldRow'
  BY <1>14, CandidateDoes DEF OldRow, Moved
<1>15. ASSUME Verify PROVE OldRow'
  BY <1>15, VerifyDoes DEF OldRow, Moved
<1>16. ASSUME Activate PROVE OldRow'
  BY <1>16, ActivateDoes DEF OldRow, Moved
<1>17. ASSUME Revoke PROVE OldRow'
  BY <1>17, RevokeDoes DEF OldRow, Moved, OfState
<1>18. ASSUME Revoked PROVE OldRow'
  BY <1>18, RevokedDoes DEF OldRow, Moved
<1>19. ASSUME Password PROVE OldRow'
  BY <1>19, PasswordDoes DEF OldRow, Moved
<1>20. ASSUME Claim PROVE OldRow'
  BY <1>20, ClaimDoes DEF OldRow, Moved
<1>21. ASSUME Validate PROVE OldRow'
  BY <1>21, ValidateDoes DEF OldRow, Moved
<1>22. ASSUME Gone PROVE OldRow'
  BY <1>22, GoneDoes DEF OldRow, Moved, Concluded, Stops, Idle
<1>23. ASSUME External PROVE OldRow'
  BY <1>23, ExternalDoes DEF OldRow, Stops, Idle
<1>24. ASSUME Check PROVE OldRow'
  BY <1>24, CheckDoes DEF OldRow, Moved
<1>25. ASSUME SaveEntered PROVE OldRow'
  BY <1>25, SaveEnteredDoes DEF OldRow, Moved
<1>26. ASSUME Attach PROVE OldRow'
  BY <1>26, AttachDoes DEF OldRow, Moved
<1>27. ASSUME UpdateEndpoints PROVE OldRow'
  BY <1>27, UpdateEndpointsDoes DEF OldRow, Stops, Idle
<1>28. ASSUME Reactivate PROVE OldRow'
  BY <1>28, ReactivateDoes DEF OldRow, Moved
<1>29. ASSUME ConfigureConnection PROVE OldRow'
  BY <1>29, ConfigureConnectionDoes DEF OldRow, Stops, Idle
<1>30. ASSUME Commit PROVE OldRow'
  BY <1>30, CommitDoes DEF OldRow, Moved, Stops, Idle
<1>31. ASSUME Interrupt PROVE OldRow'
  BY <1>31, InterruptDoes DEF OldRow, Stops, Idle
<1>32. ASSUME Unregister PROVE OldRow'
  <2>1. run' = run /\ run.op = None
    BY <1>32, UnregisterDoes, Running DEF Live
  <2> QED BY <2>1 DEF OldRow
<1>33. UNCHANGED <<run, cred>> => OldRow'
  BY DEF References, OldRow, OfState
<1>34. ASSUME NEW o \in Ops, NEW k \in Kinds, Queue(o, k) PROVE UNCHANGED <<run, cred>>
  BY <1>34, QueueDoes
<1>35. ASSUME NEW o \in Ops, ReconcileStep(o) PROVE UNCHANGED <<run, cred>>
  BY <1>35, ReconcileStepDoes
<1>36. ASSUME NEW o \in Ops, Reconcile(o) PROVE UNCHANGED <<run, cred>>
  BY <1>36, ReconcileDoes
<1>37. ASSUME NEW o \in Ops, Retry(o) PROVE UNCHANGED <<run, cred>>
  BY <1>37, RetryDoes
<1>38. ASSUME NEW o \in Ops, Cancel(o) PROVE UNCHANGED <<run, cred>>
  BY <1>38, CancelDoes
<1>39. ASSUME NEW o \in Ops, Report(o) PROVE UNCHANGED <<run, cred>>
  BY <1>39, ReportDoes
<1>40. ASSUME NEW o \in Ops, ClaimSecret(o) PROVE UNCHANGED <<run, cred>>
  BY <1>40, ClaimSecretDoes
<1>41. ASSUME NEW o \in Ops, Expire(o) PROVE UNCHANGED <<run, cred>>
  BY <1>41, ExpireDoes
<1>42. ASSUME Land PROVE UNCHANGED <<run, cred>>
  BY <1>42, LandDoes
<1>43. ASSUME Switch PROVE UNCHANGED <<run, cred>>
  BY <1>43, SwitchDoes
<1>44. ASSUME Suspend PROVE UNCHANGED <<run, cred>>
  BY <1>44, SuspendDoes
<1>45. ASSUME Foreign PROVE UNCHANGED <<run, cred>>
  BY <1>45, ForeignDoes
<1> QED
  BY Failures, <1>1, <1>2, <1>3, <1>4, <1>5, <1>6, <1>7, <1>8, <1>9, <1>10, <1>11, <1>12, <1>13, <1>14, <1>15, <1>16, <1>17,
     <1>18, <1>19, <1>20, <1>21, <1>22, <1>23, <1>24, <1>25, <1>26, <1>27, <1>28, <1>29, <1>30, <1>31, <1>32, <1>33, <1>34,
     <1>35, <1>36, <1>37, <1>38, <1>39, <1>40, <1>41, <1>42, <1>43, <1>44, <1>45 DEF Next, Execution

(* A mailbox that is created has its row and its password. *)
LEMMA ReservedStep ==
  ASSUME NoneIsNoOp, IMAPIsProtocol, LimitsAreNat, LocalTypes, OpTypes, RemoteTypes, Control, References, Next
  PROVE  Reserved'
<1> USE NoneIsNoOp, IMAPIsProtocol, LimitsAreNat DEF vars, localVars, opVars, bounds, history, remoteVars
<1>1. ASSUME NEW o \in Ops, NEW k \in Kinds, Queue(o, k) PROVE Reserved'
  <2>1. PICK r \in Requests(k) : r \in Request /\ Became(o, r, "queued", 0, 0, 0, 0, FALSE)
    BY <1>1, QueueDoes
  <2>2. /\ op[o].status = "none" /\ (\A p \in Ops : op[p].status \notin Live) /\ UNCHANGED <<run, step>>
    BY <1>1, QueueDoes
  <2>3. \A p \in Ops : IsLive(p)' => p = o
    BY <2>1, <2>2 DEF IsLive, Became
  <2>4. step'[o][Reservation] # "succeeded"
    BY <2>2 DEF Control, Untouched, NotRun, Reservation, Steps
  <2> QED BY <2>3, <2>4 DEF Reserved
<1>2. ASSUME NEW o \in Ops, Execute(o) PROVE Reserved'
  <2>1. \A p \in Ops : IsLive(p)' => IsLive(p) /\ op'[p].private = op[p].private /\ op'[p].request = op[p].request
    BY <1>2, ExecuteDoes DEF OpTypes, IsLive, Live, Turned, Dropped, Became
  <2>2. \A p \in Ops : step'[p][Reservation] = "succeeded" => step[p][Reservation] = "succeeded"
    BY <1>2, ExecuteDoes DEF Marked, Creation, Reservation, Steps
  <2> QED BY <2>1, <2>2, <1>2, ExecuteDoes DEF References, Reserved, Kind
<1>3. ASSUME NEW o \in Ops, ConfirmExternal(o) PROVE Reserved'
  <2>1. \A p \in Ops : ~IsLive(p)'
    BY <1>3, ConfirmExternalDoes DEF Control, OneLive, IsLive, Live, Ended, Became
  <2> QED BY <2>1 DEF Reserved
<1>4. ASSUME NEW o \in Ops, ReconcileStep(o) PROVE Reserved'
  <2>1. Reservation \in Steps /\ Verdict(o, Reservation) = "unknown"
    BY DEF Reservation, Steps, Verdict
  <2>2. \A p \in Ops : step'[p][Reservation] = step[p][Reservation]
    BY <2>1, <1>4, ReconcileStepDoes DEF Marked
  <2> QED BY <2>2, <1>4, ReconcileStepDoes DEF References, Reserved, Kind, IsLive
<1>5. ASSUME NEW o \in Ops, Reconcile(o) PROVE Reserved'
  <2>1. \A p \in Ops : IsLive(p)' => IsLive(p) /\ op'[p].private = op[p].private /\ op'[p].request = op[p].request
    BY <1>5, ReconcileDoes DEF OpTypes, IsLive, Live, Turned, Dropped, Became
  <2>2. \A p \in Ops : step'[p][Reservation] = "succeeded" => step[p][Reservation] = "succeeded"
    BY <1>5, ReconcileDoes DEF Marked, Creation, Reservation, Steps
  <2> QED BY <2>1, <2>2, <1>5, ReconcileDoes DEF References, Reserved, Kind
<1>6. ASSUME NEW o \in Ops, Retry(o) PROVE Reserved'
  <2>1. \A p \in Ops : IsLive(p)' => p = o
    BY <1>6, RetryDoes DEF IsLive, Turned, Became
  <2>2. /\ op'[o].private = op[o].private /\ op'[o].request = op[o].request /\ mailbox' = mailbox
        /\ Kind(o) = "mailbox.create" => IsLive(o)
    BY <1>6, RetryDoes DEF Control, Failing, IsLive, Live, Turned, Became, Additions
  <2>3. step'[o][Reservation] = "succeeded" => step[o][Reservation] = "succeeded"
    BY <1>6, RetryDoes DEF Reservation, Steps
  <2> QED BY <2>1, <2>2, <2>3 DEF References, Reserved, Kind
<1>7. ASSUME NEW o \in Ops, Cancel(o) PROVE Reserved'
  <2>1. \A p \in Ops : IsLive(p)' => IsLive(p) /\ op'[p].private = op[p].private /\ op'[p].request = op[p].request
    BY <1>7, CancelDoes DEF OpTypes, IsLive, Live, Turned, Dropped, Became
  <2>2. \A p \in Ops : step'[p][Reservation] = "succeeded" => step[p][Reservation] = "succeeded"
    BY <1>7, CancelDoes DEF Marked, Creation, Reservation, Steps
  <2> QED BY <2>1, <2>2, <1>7, CancelDoes DEF References, Reserved, Kind
<1>8. ASSUME NEW o \in Ops, Report(o) PROVE Reserved'
  <2>1. \A p \in Ops : IsLive(p)' => IsLive(p) /\ op'[p].private = op[p].private /\ op'[p].request = op[p].request
    BY <1>8, ReportDoes DEF OpTypes, IsLive, Live, Turned, Dropped, Became
  <2>2. \A p \in Ops : step'[p][Reservation] = "succeeded" => step[p][Reservation] = "succeeded"
    BY <1>8, ReportDoes DEF Marked, Creation, Reservation, Steps
  <2> QED BY <2>1, <2>2, <1>8, ReportDoes DEF References, Reserved, Kind
<1>9. ASSUME NEW o \in Ops, ClaimSecret(o) PROVE Reserved'
  <2>1. \A p \in Ops : IsLive(p)' => IsLive(p) /\ op'[p].private = op[p].private /\ op'[p].request = op[p].request
    BY <1>9, ClaimSecretDoes DEF OpTypes, IsLive, Live, Turned, Dropped, Became
  <2>2. \A p \in Ops : step'[p][Reservation] = "succeeded" => step[p][Reservation] = "succeeded"
    BY <1>9, ClaimSecretDoes DEF Marked, Creation, Reservation, Steps
  <2> QED BY <2>1, <2>2, <1>9, ClaimSecretDoes DEF References, Reserved, Kind
<1>10. ASSUME NEW o \in Ops, Expire(o) PROVE Reserved'
  <2>1. \A p \in Ops : IsLive(p)' => IsLive(p) /\ op'[p].private = op[p].private /\ op'[p].request = op[p].request
    BY <1>10, ExpireDoes DEF OpTypes, IsLive, Live, Turned, Dropped, Became
  <2>2. \A p \in Ops : step'[p][Reservation] = "succeeded" => step[p][Reservation] = "succeeded"
    BY <1>10, ExpireDoes DEF Marked, Creation, Reservation, Steps
  <2> QED BY <2>1, <2>2, <1>10, ExpireDoes DEF References, Reserved, Kind
<1>11. ASSUME Failure PROVE Reserved'
  <2>0. PICK q \in Ops : q = run.op /\ op[q].status = "running"
    BY <1>11, FailureDoes, Running
  <2>1. IsLive(q) /\ \A o \in Ops : IsLive(o) => o = q
    BY <2>0 DEF Control, OneLive, IsLive, Live
  <2>2. \A o \in Ops \ {q} : ~IsLive(o)'
    BY <2>0, <2>1, <1>11, FailureDoes DEF Turned, Ended, Became, Concluded, IsLive
  <2>3. IsLive(q)' => op'[q].request = op[q].request /\ (Kind(q) = "mailbox.create" => op'[q].private = op[q].private)
    BY <2>0, <1>11, FailureDoes DEF Turned, Ended, Became, Concluded, IsLive, Live
  <2>4. IsLive(q)' /\ Kind(q) = "mailbox.create" => mailbox'.remote \in {mailbox.remote, "present"}
    BY <2>0, <1>11, FailureDoes DEF IsLive, Live
  <2>5. step'[q][Reservation] = "succeeded" => step[q][Reservation] = "succeeded"
    BY <2>0, <1>11, FailureDoes DEF Marked, Reservation, Steps
  <2> QED BY <2>0, <2>1, <2>2, <2>3, <2>4, <2>5 DEF References, Reserved, Kind, IsLive
<1>12. ASSUME Complete PROVE Reserved'
  <2>0. PICK q \in Ops : q = run.op /\ op[q].status = "running"
    BY <1>12, CompleteDoes, Running
  <2>1. IsLive(q) /\ \A o \in Ops : IsLive(o) => o = q
    BY <2>0 DEF Control, OneLive, IsLive, Live
  <2>2. \A o \in Ops \ {q} : ~IsLive(o)'
    BY <2>0, <2>1, <1>12, CompleteDoes DEF Turned, Ended, Became, Concluded, IsLive
  <2>3. IsLive(q)' => op'[q].request = op[q].request /\ (Kind(q) = "mailbox.create" => op'[q].private = op[q].private)
    BY <2>0, <1>12, CompleteDoes DEF Turned, Ended, Became, Concluded, IsLive, Live
  <2>4. IsLive(q)' /\ Kind(q) = "mailbox.create" => mailbox'.remote \in {mailbox.remote, "present"}
    BY <2>0, <1>12, CompleteDoes DEF IsLive, Live
  <2>5. step'[q][Reservation] = "succeeded" => step[q][Reservation] = "succeeded"
    BY <2>0, <1>12, CompleteDoes DEF Marked, Reservation, Steps
  <2> QED BY <2>0, <2>1, <2>2, <2>3, <2>4, <2>5 DEF References, Reserved, Kind, IsLive
<1>13. ASSUME Begin PROVE Reserved'
  <2>0. PICK q \in Ops : q = run.op /\ op[q].status = "running"
    BY <1>13, BeginDoes, Running
  <2>1. IsLive(q) /\ \A o \in Ops : IsLive(o) => o = q
    BY <2>0 DEF Control, OneLive, IsLive, Live
  <2>2. \A o \in Ops \ {q} : ~IsLive(o)'
    BY <2>0, <2>1, <1>13, BeginDoes DEF Turned, Ended, Became, Concluded, IsLive
  <2>3. IsLive(q)' => op'[q].request = op[q].request /\ (Kind(q) = "mailbox.create" => op'[q].private = op[q].private)
    BY <2>0, <1>13, BeginDoes DEF Turned, Ended, Became, Concluded, IsLive, Live
  <2>4. IsLive(q)' /\ Kind(q) = "mailbox.create" => mailbox'.remote \in {mailbox.remote, "present"}
    BY <2>0, <1>13, BeginDoes DEF IsLive, Live
  <2>5. step'[q][Reservation] = "succeeded" => step[q][Reservation] = "succeeded"
    BY <2>0, <1>13, BeginDoes DEF Marked, Reservation, Steps, Step, Calls
  <2> QED BY <2>0, <2>1, <2>2, <2>3, <2>4, <2>5 DEF References, Reserved, Kind, IsLive
<1>14. ASSUME Keep PROVE Reserved'
  <2>0. PICK q \in Ops : q = run.op /\ op[q].status = "running"
    BY <1>14, KeepDoes, Running
  <2>1. IsLive(q) /\ \A o \in Ops : IsLive(o) => o = q
    BY <2>0 DEF Control, OneLive, IsLive, Live
  <2>2. \A o \in Ops \ {q} : ~IsLive(o)'
    BY <2>0, <2>1, <1>14, KeepDoes DEF Turned, Ended, Became, Concluded, IsLive
  <2>3. IsLive(q)' => op'[q].request = op[q].request /\ (Kind(q) = "mailbox.create" => op'[q].private = op[q].private)
    BY <2>0, <1>14, KeepDoes DEF Turned, Ended, Became, Concluded, IsLive, Live
  <2>4. IsLive(q)' /\ Kind(q) = "mailbox.create" => mailbox'.remote \in {mailbox.remote, "present"}
    BY <2>0, <1>14, KeepDoes DEF IsLive, Live
  <2>5. step'[q][Reservation] = "succeeded" => step[q][Reservation] = "succeeded"
    BY <2>0, <1>14, KeepDoes DEF Marked, Reservation, Steps
  <2> QED BY <2>0, <2>1, <2>2, <2>3, <2>4, <2>5 DEF References, Reserved, Kind, IsLive
<1>15. ASSUME Record PROVE Reserved'
  <2>0. PICK q \in Ops : q = run.op /\ op[q].status = "running"
    BY <1>15, RecordDoes, Running
  <2>1. IsLive(q) /\ \A o \in Ops : IsLive(o) => o = q
    BY <2>0 DEF Control, OneLive, IsLive, Live
  <2>2. \A o \in Ops \ {q} : ~IsLive(o)'
    BY <2>0, <2>1, <1>15, RecordDoes DEF Turned, Ended, Became, Concluded, IsLive
  <2>3. IsLive(q)' => op'[q].request = op[q].request /\ (Kind(q) = "mailbox.create" => op'[q].private = op[q].private)
    BY <2>0, <1>15, RecordDoes DEF Turned, Ended, Became, Concluded, IsLive, Live
  <2>4. IsLive(q)' /\ Kind(q) = "mailbox.create" => mailbox'.remote \in {mailbox.remote, "present"}
    BY <2>0, <1>15, RecordDoes DEF IsLive, Live
  <2>5. step'[q][Reservation] = "succeeded" => step[q][Reservation] = "succeeded"
    BY <2>0, <1>15, RecordDoes DEF Marked, Reservation, Steps, Step, Calls
  <2> QED BY <2>0, <2>1, <2>2, <2>3, <2>4, <2>5 DEF References, Reserved, Kind, IsLive
<1>16. ASSUME GiveUp PROVE Reserved'
  <2>0. PICK q \in Ops : q = run.op /\ op[q].status = "running"
    BY <1>16, GiveUpDoes, Running
  <2>1. IsLive(q) /\ \A o \in Ops : IsLive(o) => o = q
    BY <2>0 DEF Control, OneLive, IsLive, Live
  <2>2. \A o \in Ops \ {q} : ~IsLive(o)'
    BY <2>0, <2>1, <1>16, GiveUpDoes DEF Turned, Ended, Became, Concluded, IsLive
  <2>3. IsLive(q)' => op'[q].request = op[q].request /\ (Kind(q) = "mailbox.create" => op'[q].private = op[q].private)
    BY <2>0, <1>16, GiveUpDoes DEF Turned, Ended, Became, Concluded, IsLive, Live
  <2>4. IsLive(q)' /\ Kind(q) = "mailbox.create" => mailbox'.remote \in {mailbox.remote, "present"}
    BY <2>0, <1>16, GiveUpDoes DEF IsLive, Live
  <2>5. step'[q][Reservation] = "succeeded" => step[q][Reservation] = "succeeded"
    BY <2>0, <1>16, GiveUpDoes DEF Marked, Reservation, Steps
  <2> QED BY <2>0, <2>1, <2>2, <2>3, <2>4, <2>5 DEF References, Reserved, Kind, IsLive
<1>17. ASSUME Reserve PROVE Reserved'
  <2>0. PICK q \in Ops : q = run.op /\ op[q].status = "running"
    BY <1>17, ReserveDoes, Running
  <2>1. \A o \in Ops : IsLive(o) => o = q
    BY <2>0 DEF Control, OneLive, IsLive, Live
  <2>2. CASE UNCHANGED <<mailbox, op, step>>
    BY <2>2 DEF References, Reserved, IsLive, Kind
  <2>3. CASE \E k \in 0..MaxKeys :
                 /\ k = IF op[q].private # 0 THEN op[q].private
                        ELSE IF op[q].request.entered THEN op[q].request.secret ELSE fresh
                 /\ mailbox'.remote = "unknown" /\ op'[q].private = k
                 /\ op'[q].request = op[q].request /\ \A o \in Ops \ {q} : op'[o] = op[o]
    <3>1. Kind(q) = "mailbox.create" /\ fresh # 0
      BY <2>0, <1>17, ReserveDoes DEF Control, OnPath, Kind, RemoteTypes, Keys
    <3>2. op[q].request.entered => op[q].request.secret # 0
      BY <2>0, <3>1 DEF References, Wishes, Open, Live, Kind
    <3>3. mailbox'.remote = "unknown" /\ op'[q].private # 0
      BY <2>3, <3>1, <3>2
    <3>4. \A o \in Ops \ {q} : ~IsLive(o)'
      BY <2>1, <2>3 DEF IsLive
    <3> QED BY <3>3, <3>4 DEF Reserved
  <2> QED BY <2>0, <2>2, <2>3, <1>17, ReserveDoes DEF Became
<1>18. ASSUME Confirm PROVE Reserved'
  <2>0. PICK q \in Ops : q = run.op /\ op[q].status = "running"
    BY <1>18, ConfirmDoes, Running
  <2>1. IsLive(q) /\ \A o \in Ops : IsLive(o) => o = q
    BY <2>0 DEF Control, OneLive, IsLive, Live
  <2>2. \A o \in Ops \ {q} : ~IsLive(o)'
    BY <2>0, <2>1, <1>18, ConfirmDoes DEF Turned, Ended, Became, Concluded, IsLive
  <2>3. IsLive(q)' => op'[q].request = op[q].request /\ (Kind(q) = "mailbox.create" => op'[q].private = op[q].private)
    BY <2>0, <1>18, ConfirmDoes DEF Turned, Ended, Became, Concluded, IsLive, Live
  <2>4. IsLive(q)' /\ Kind(q) = "mailbox.create" => mailbox'.remote \in {mailbox.remote, "present"}
    BY <2>0, <1>18, ConfirmDoes DEF IsLive, Live
  <2>5. step'[q][Reservation] = "succeeded" => step[q][Reservation] = "succeeded"
    BY <2>0, <1>18, ConfirmDoes DEF Marked, Reservation, Steps
  <2> QED BY <2>0, <2>1, <2>2, <2>3, <2>4, <2>5 DEF References, Reserved, Kind, IsLive
<1>19. ASSUME Activate PROVE Reserved'
  <2>0. PICK q \in Ops : q = run.op /\ op[q].status = "running"
    BY <1>19, ActivateDoes, Running
  <2>1. IsLive(q) /\ \A o \in Ops : IsLive(o) => o = q
    BY <2>0 DEF Control, OneLive, IsLive, Live
  <2>2. \A o \in Ops \ {q} : ~IsLive(o)'
    BY <2>0, <2>1, <1>19, ActivateDoes DEF Turned, Ended, Became, Concluded, IsLive
  <2>3. IsLive(q)' => op'[q].request = op[q].request /\ (Kind(q) = "mailbox.create" => op'[q].private = op[q].private)
    BY <2>0, <1>19, ActivateDoes DEF Turned, Ended, Became, Concluded, IsLive, Live
  <2>4. IsLive(q)' /\ Kind(q) = "mailbox.create" => mailbox'.remote \in {mailbox.remote, "present"}
    BY <2>0, <1>19, ActivateDoes DEF IsLive, Live
  <2>5. step'[q][Reservation] = "succeeded" => step[q][Reservation] = "succeeded"
    BY <2>0, <1>19, ActivateDoes DEF Marked, Reservation, Steps
  <2> QED BY <2>0, <2>1, <2>2, <2>3, <2>4, <2>5 DEF References, Reserved, Kind, IsLive
<1>20. ASSUME Password PROVE Reserved'
  <2>0. PICK q \in Ops : q = run.op /\ op[q].status = "running"
    BY <1>20, PasswordDoes, Running
  <2>1. IsLive(q) /\ \A o \in Ops : IsLive(o) => o = q
    BY <2>0 DEF Control, OneLive, IsLive, Live
  <2>2. \A o \in Ops \ {q} : ~IsLive(o)'
    BY <2>0, <2>1, <1>20, PasswordDoes DEF Turned, Ended, Became, Concluded, IsLive
  <2>3. IsLive(q)' => op'[q].request = op[q].request /\ (Kind(q) = "mailbox.create" => op'[q].private = op[q].private)
    BY <2>0, <1>20, PasswordDoes DEF Turned, Ended, Became, Concluded, IsLive, Live, Control, OnPath, Kind
  <2>4. IsLive(q)' /\ Kind(q) = "mailbox.create" => mailbox'.remote \in {mailbox.remote, "present"}
    BY <2>0, <1>20, PasswordDoes DEF IsLive, Live
  <2>5. step'[q][Reservation] = "succeeded" => step[q][Reservation] = "succeeded"
    BY <2>0, <1>20, PasswordDoes DEF Marked, Reservation, Steps
  <2> QED BY <2>0, <2>1, <2>2, <2>3, <2>4, <2>5 DEF References, Reserved, Kind, IsLive
<1>21. ASSUME Claim PROVE Reserved'
  <2>0. PICK q \in Ops : q = run.op /\ op[q].status = "running"
    BY <1>21, ClaimDoes, Running
  <2>1. IsLive(q) /\ \A o \in Ops : IsLive(o) => o = q
    BY <2>0 DEF Control, OneLive, IsLive, Live
  <2>2. \A o \in Ops \ {q} : ~IsLive(o)'
    BY <2>0, <2>1, <1>21, ClaimDoes DEF Turned, Ended, Became, Concluded, IsLive
  <2>3. IsLive(q)' => op'[q].request = op[q].request /\ (Kind(q) = "mailbox.create" => op'[q].private = op[q].private)
    BY <2>0, <1>21, ClaimDoes DEF Turned, Ended, Became, Concluded, IsLive, Live
  <2>4. IsLive(q)' /\ Kind(q) = "mailbox.create" => mailbox'.remote \in {mailbox.remote, "present"}
    BY <2>0, <1>21, ClaimDoes DEF IsLive, Live
  <2>5. step'[q][Reservation] = "succeeded" => step[q][Reservation] = "succeeded"
    BY <2>0, <1>21, ClaimDoes DEF Marked, Reservation, Steps
  <2> QED BY <2>0, <2>1, <2>2, <2>3, <2>4, <2>5 DEF References, Reserved, Kind, IsLive
<1>22. ASSUME Gone PROVE Reserved'
  <2>0. PICK q \in Ops : q = run.op /\ op[q].status = "running"
    BY <1>22, GoneDoes, Running
  <2>1. IsLive(q) /\ \A o \in Ops : IsLive(o) => o = q
    BY <2>0 DEF Control, OneLive, IsLive, Live
  <2>2. \A o \in Ops \ {q} : ~IsLive(o)'
    BY <2>0, <2>1, <1>22, GoneDoes DEF Turned, Ended, Became, Concluded, IsLive
  <2>3. IsLive(q)' => op'[q].request = op[q].request /\ (Kind(q) = "mailbox.create" => op'[q].private = op[q].private)
    BY <2>0, <1>22, GoneDoes DEF Turned, Ended, Became, Concluded, IsLive, Live
  <2>4. IsLive(q)' /\ Kind(q) = "mailbox.create" => mailbox'.remote \in {mailbox.remote, "present"}
    BY <2>0, <1>22, GoneDoes DEF IsLive, Live
  <2>5. step'[q][Reservation] = "succeeded" => step[q][Reservation] = "succeeded"
    BY <2>0, <1>22, GoneDoes DEF Marked, Reservation, Steps
  <2> QED BY <2>0, <2>1, <2>2, <2>3, <2>4, <2>5 DEF References, Reserved, Kind, IsLive
<1>23. ASSUME External PROVE Reserved'
  <2>0. PICK q \in Ops : q = run.op /\ op[q].status = "running"
    BY <1>23, ExternalDoes, Running
  <2>1. IsLive(q) /\ \A o \in Ops : IsLive(o) => o = q
    BY <2>0 DEF Control, OneLive, IsLive, Live
  <2>2. \A o \in Ops \ {q} : ~IsLive(o)'
    BY <2>0, <2>1, <1>23, ExternalDoes DEF Turned, Ended, Became, Concluded, IsLive
  <2>3. IsLive(q)' => op'[q].request = op[q].request /\ (Kind(q) = "mailbox.create" => op'[q].private = op[q].private)
    BY <2>0, <1>23, ExternalDoes DEF Turned, Ended, Became, Concluded, IsLive, Live
  <2>4. IsLive(q)' /\ Kind(q) = "mailbox.create" => mailbox'.remote \in {mailbox.remote, "present"}
    BY <2>0, <1>23, ExternalDoes DEF IsLive, Live
  <2>5. step'[q][Reservation] = "succeeded" => step[q][Reservation] = "succeeded"
    BY <2>0, <1>23, ExternalDoes DEF Marked, Reservation, Steps
  <2> QED BY <2>0, <2>1, <2>2, <2>3, <2>4, <2>5 DEF References, Reserved, Kind, IsLive
<1>24. ASSUME SaveEntered PROVE Reserved'
  <2>0. PICK q \in Ops : q = run.op /\ op[q].status = "running"
    BY <1>24, SaveEnteredDoes, Running
  <2>1. IsLive(q) /\ \A o \in Ops : IsLive(o) => o = q
    BY <2>0 DEF Control, OneLive, IsLive, Live
  <2>2. \A o \in Ops \ {q} : ~IsLive(o)'
    BY <2>0, <2>1, <1>24, SaveEnteredDoes DEF Turned, Ended, Became, Concluded, IsLive
  <2>3. IsLive(q)' => op'[q].request = op[q].request /\ (Kind(q) = "mailbox.create" => op'[q].private = op[q].private)
    BY <2>0, <1>24, SaveEnteredDoes DEF Turned, Ended, Became, Concluded, IsLive, Live
  <2>4. IsLive(q)' /\ Kind(q) = "mailbox.create" => mailbox'.remote \in {mailbox.remote, "present"}
    BY <2>0, <1>24, SaveEnteredDoes DEF IsLive, Live
  <2>5. step'[q][Reservation] = "succeeded" => step[q][Reservation] = "succeeded"
    BY <2>0, <1>24, SaveEnteredDoes DEF Marked, Reservation, Steps
  <2> QED BY <2>0, <2>1, <2>2, <2>3, <2>4, <2>5 DEF References, Reserved, Kind, IsLive
<1>25. ASSUME Attach PROVE Reserved'
  <2>0. PICK q \in Ops : q = run.op /\ op[q].status = "running"
    BY <1>25, AttachDoes, Running
  <2>1. IsLive(q) /\ \A o \in Ops : IsLive(o) => o = q
    BY <2>0 DEF Control, OneLive, IsLive, Live
  <2>2. \A o \in Ops \ {q} : ~IsLive(o)'
    BY <2>0, <2>1, <1>25, AttachDoes DEF Turned, Ended, Became, Concluded, IsLive
  <2>3. IsLive(q)' => op'[q].request = op[q].request /\ (Kind(q) = "mailbox.create" => op'[q].private = op[q].private)
    BY <2>0, <1>25, AttachDoes DEF Turned, Ended, Became, Concluded, IsLive, Live
  <2>4. IsLive(q)' /\ Kind(q) = "mailbox.create" => mailbox'.remote \in {mailbox.remote, "present"}
    BY <2>0, <1>25, AttachDoes DEF IsLive, Live
  <2>5. step'[q][Reservation] = "succeeded" => step[q][Reservation] = "succeeded"
    BY <2>0, <1>25, AttachDoes DEF Marked, Reservation, Steps
  <2> QED BY <2>0, <2>1, <2>2, <2>3, <2>4, <2>5 DEF References, Reserved, Kind, IsLive
<1>26. ASSUME UpdateEndpoints PROVE Reserved'
  <2>0. PICK q \in Ops : q = run.op /\ op[q].status = "running"
    BY <1>26, UpdateEndpointsDoes, Running
  <2>1. IsLive(q) /\ \A o \in Ops : IsLive(o) => o = q
    BY <2>0 DEF Control, OneLive, IsLive, Live
  <2>2. \A o \in Ops \ {q} : ~IsLive(o)'
    BY <2>0, <2>1, <1>26, UpdateEndpointsDoes DEF Turned, Ended, Became, Concluded, IsLive
  <2>3. IsLive(q)' => op'[q].request = op[q].request /\ (Kind(q) = "mailbox.create" => op'[q].private = op[q].private)
    BY <2>0, <1>26, UpdateEndpointsDoes DEF Turned, Ended, Became, Concluded, IsLive, Live
  <2>4. IsLive(q)' /\ Kind(q) = "mailbox.create" => mailbox'.remote \in {mailbox.remote, "present"}
    BY <2>0, <1>26, UpdateEndpointsDoes DEF IsLive, Live
  <2>5. step'[q][Reservation] = "succeeded" => step[q][Reservation] = "succeeded"
    BY <2>0, <1>26, UpdateEndpointsDoes DEF Marked, Reservation, Steps
  <2> QED BY <2>0, <2>1, <2>2, <2>3, <2>4, <2>5 DEF References, Reserved, Kind, IsLive
<1>27. ASSUME Reactivate PROVE Reserved'
  <2>0. PICK q \in Ops : q = run.op /\ op[q].status = "running"
    BY <1>27, ReactivateDoes, Running
  <2>1. IsLive(q) /\ \A o \in Ops : IsLive(o) => o = q
    BY <2>0 DEF Control, OneLive, IsLive, Live
  <2>2. \A o \in Ops \ {q} : ~IsLive(o)'
    BY <2>0, <2>1, <1>27, ReactivateDoes DEF Turned, Ended, Became, Concluded, IsLive
  <2>3. IsLive(q)' => op'[q].request = op[q].request /\ (Kind(q) = "mailbox.create" => op'[q].private = op[q].private)
    BY <2>0, <1>27, ReactivateDoes DEF Turned, Ended, Became, Concluded, IsLive, Live
  <2>4. IsLive(q)' /\ Kind(q) = "mailbox.create" => mailbox'.remote \in {mailbox.remote, "present"}
    BY <2>0, <1>27, ReactivateDoes DEF IsLive, Live
  <2>5. step'[q][Reservation] = "succeeded" => step[q][Reservation] = "succeeded"
    BY <2>0, <1>27, ReactivateDoes DEF Marked, Reservation, Steps
  <2> QED BY <2>0, <2>1, <2>2, <2>3, <2>4, <2>5 DEF References, Reserved, Kind, IsLive
<1>28. ASSUME ConfigureConnection PROVE Reserved'
  <2>0. PICK q \in Ops : q = run.op /\ op[q].status = "running"
    BY <1>28, ConfigureConnectionDoes, Running
  <2>1. IsLive(q) /\ \A o \in Ops : IsLive(o) => o = q
    BY <2>0 DEF Control, OneLive, IsLive, Live
  <2>2. \A o \in Ops \ {q} : ~IsLive(o)'
    BY <2>0, <2>1, <1>28, ConfigureConnectionDoes DEF Turned, Ended, Became, Concluded, IsLive
  <2>3. IsLive(q)' => op'[q].request = op[q].request /\ (Kind(q) = "mailbox.create" => op'[q].private = op[q].private)
    BY <2>0, <1>28, ConfigureConnectionDoes DEF Turned, Ended, Became, Concluded, IsLive, Live
  <2>4. IsLive(q)' /\ Kind(q) = "mailbox.create" => mailbox'.remote \in {mailbox.remote, "present"}
    BY <2>0, <1>28, ConfigureConnectionDoes DEF IsLive, Live
  <2>5. step'[q][Reservation] = "succeeded" => step[q][Reservation] = "succeeded"
    BY <2>0, <1>28, ConfigureConnectionDoes DEF Marked, Reservation, Steps
  <2> QED BY <2>0, <2>1, <2>2, <2>3, <2>4, <2>5 DEF References, Reserved, Kind, IsLive
<1>29. ASSUME Commit PROVE Reserved'
  <2>0. PICK q \in Ops : q = run.op /\ op[q].status = "running"
    BY <1>29, CommitDoes, Running
  <2>1. IsLive(q) /\ \A o \in Ops : IsLive(o) => o = q
    BY <2>0 DEF Control, OneLive, IsLive, Live
  <2>2. \A o \in Ops \ {q} : ~IsLive(o)'
    BY <2>0, <2>1, <1>29, CommitDoes DEF Turned, Ended, Became, Concluded, IsLive
  <2>3. IsLive(q)' => op'[q].request = op[q].request /\ (Kind(q) = "mailbox.create" => op'[q].private = op[q].private)
    BY <2>0, <1>29, CommitDoes DEF Turned, Ended, Became, Concluded, IsLive, Live
  <2>4. IsLive(q)' /\ Kind(q) = "mailbox.create" => mailbox'.remote \in {mailbox.remote, "present"}
    BY <2>0, <1>29, CommitDoes DEF IsLive, Live
  <2>5. step'[q][Reservation] = "succeeded" => step[q][Reservation] = "succeeded"
    BY <2>0, <1>29, CommitDoes DEF Marked, Reservation, Steps
  <2> QED BY <2>0, <2>1, <2>2, <2>3, <2>4, <2>5 DEF References, Reserved, Kind, IsLive
<1>30. ASSUME Interrupt PROVE Reserved'
  <2>0. PICK q \in Ops : q = run.op /\ op[q].status = "running"
    BY <1>30, InterruptDoes, Running
  <2>1. IsLive(q) /\ \A o \in Ops : IsLive(o) => o = q
    BY <2>0 DEF Control, OneLive, IsLive, Live
  <2>2. \A o \in Ops \ {q} : ~IsLive(o)'
    BY <2>0, <2>1, <1>30, InterruptDoes DEF Turned, Ended, Became, Concluded, IsLive
  <2>3. IsLive(q)' => op'[q].request = op[q].request /\ (Kind(q) = "mailbox.create" => op'[q].private = op[q].private)
    BY <2>0, <1>30, InterruptDoes DEF Turned, Ended, Became, Concluded, IsLive, Live
  <2>4. IsLive(q)' /\ Kind(q) = "mailbox.create" => mailbox'.remote \in {mailbox.remote, "present"}
    BY <2>0, <1>30, InterruptDoes DEF IsLive, Live
  <2>5. step'[q][Reservation] = "succeeded" => step[q][Reservation] = "succeeded"
    BY <2>0, <1>30, InterruptDoes DEF Marked, Reservation, Steps
  <2> QED BY <2>0, <2>1, <2>2, <2>3, <2>4, <2>5 DEF References, Reserved, Kind, IsLive
<1>31. ASSUME Suspend PROVE Reserved'
  <2>1. \A p \in Ops : ~IsLive(p)'
    BY <1>31, SuspendDoes DEF IsLive
  <2> QED BY <2>1 DEF Reserved
<1>32. ASSUME Unregister PROVE Reserved'
  <2>1. \A p \in Ops : ~IsLive(p)'
    BY <1>32, UnregisterDoes DEF IsLive
  <2> QED BY <2>1 DEF Reserved
<1>33. UNCHANGED <<op, step, mailbox>> => Reserved'
  BY DEF References, Reserved, IsLive, Kind
<1>34. ASSUME Start PROVE UNCHANGED <<op, step, mailbox>>
  BY <1>34, StartDoes
<1>35. ASSUME Provider PROVE UNCHANGED <<op, step, mailbox>>
  BY <1>35, ProviderDoes
<1>36. ASSUME Refused PROVE UNCHANGED <<op, step, mailbox>>
  BY <1>36, RefusedDoes
<1>37. ASSUME Candidate PROVE UNCHANGED <<op, step, mailbox>>
  BY <1>37, CandidateDoes
<1>38. ASSUME Verify PROVE UNCHANGED <<op, step, mailbox>>
  BY <1>38, VerifyDoes
<1>39. ASSUME Revoke PROVE UNCHANGED <<op, step, mailbox>>
  BY <1>39, RevokeDoes
<1>40. ASSUME Revoked PROVE UNCHANGED <<op, step, mailbox>>
  BY <1>40, RevokedDoes
<1>41. ASSUME Validate PROVE UNCHANGED <<op, step, mailbox>>
  BY <1>41, ValidateDoes
<1>42. ASSUME Check PROVE UNCHANGED <<op, step, mailbox>>
  BY <1>42, CheckDoes
<1>43. ASSUME Land PROVE UNCHANGED <<op, step, mailbox>>
  BY <1>43, LandDoes
<1>44. ASSUME Switch PROVE UNCHANGED <<op, step, mailbox>>
  BY <1>44, SwitchDoes
<1>45. ASSUME Foreign PROVE UNCHANGED <<op, step, mailbox>>
  BY <1>45, ForeignDoes
<1> QED
  BY Failures, <1>1, <1>2, <1>3, <1>4, <1>5, <1>6, <1>7, <1>8, <1>9, <1>10, <1>11, <1>12, <1>13, <1>14, <1>15, <1>16, <1>17,
     <1>18, <1>19, <1>20, <1>21, <1>22, <1>23, <1>24, <1>25, <1>26, <1>27, <1>28, <1>29, <1>30, <1>31, <1>32, <1>33, <1>34,
     <1>35, <1>36, <1>37, <1>38, <1>39, <1>40, <1>41, <1>42, <1>43, <1>44, <1>45 DEF Next, Execution

(* What follows the reservation follows it. *)
LEMMA ReservedAtStep ==
  ASSUME NoneIsNoOp, IMAPIsProtocol, LimitsAreNat, LocalTypes, OpTypes, RemoteTypes, Control, References, Next
  PROVE  ReservedAt'
<1> USE NoneIsNoOp, IMAPIsProtocol, LimitsAreNat DEF vars, localVars, opVars, bounds, history, remoteVars
<1>1. ASSUME NEW o \in Ops, NEW k \in Kinds, Queue(o, k) PROVE ReservedAt'
  <2>1. PICK r \in Requests(k) : r \in Request /\ Became(o, r, "queued", 0, 0, 0, 0, FALSE)
    BY <1>1, QueueDoes
  <2>2. /\ op[o].status = "none" /\ (\A p \in Ops : op[p].status \notin Live) /\ UNCHANGED <<run, step>>
    BY <1>1, QueueDoes
  <2>8. UNCHANGED run /\ (run.op # None => /\ run.op \in Ops /\ op'[run.op].request = op[run.op].request
                                          /\ op'[run.op].cand = op[run.op].cand /\ op'[run.op].private = op[run.op].private)
    BY <2>1, <2>2 DEF Became, Turned, Ended, Dropped, Marked, Moved, Stops, Concluded, OpTypes, Live, Control, Executing, RunRow
  <2>9. run.op # None => step'[run.op][Reservation] = step[run.op][Reservation]
    BY <2>8, Running, <1>1, QueueDoes DEF Marked, Reservation, Creation, Steps
  <2> QED BY <2>8, <2>9 DEF References, ReservedAt, Kind
<1>2. ASSUME NEW o \in Ops, Execute(o) PROVE ReservedAt'
  BY <1>2, ExecuteDoes DEF ReservedAt
<1>3. ASSUME NEW o \in Ops, ConfirmExternal(o) PROVE ReservedAt'
  <2>8. UNCHANGED run /\ (run.op # None => /\ run.op \in Ops /\ op'[run.op].request = op[run.op].request
                                          /\ op'[run.op].cand = op[run.op].cand /\ op'[run.op].private = op[run.op].private)
    BY <1>3, ConfirmExternalDoes DEF Became, Turned, Ended, Dropped, Marked, Moved, Stops, Concluded, OpTypes, Live, Control,
       Executing, RunRow
  <2>9. run.op # None => step'[run.op][Reservation] = step[run.op][Reservation]
    BY <2>8, Running, <1>3, ConfirmExternalDoes DEF Marked, Reservation, Creation, Steps
  <2> QED BY <2>8, <2>9 DEF References, ReservedAt, Kind
<1>4. ASSUME NEW o \in Ops, ReconcileStep(o) PROVE ReservedAt'
  <2>8. UNCHANGED run /\ (run.op # None => /\ run.op \in Ops /\ op'[run.op].request = op[run.op].request
                                          /\ op'[run.op].cand = op[run.op].cand /\ op'[run.op].private = op[run.op].private)
    BY <1>4, ReconcileStepDoes DEF Became, Turned, Ended, Dropped, Marked, Moved, Stops, Concluded, OpTypes, Live, Control,
       Executing, RunRow
  <2>9. run.op # None => step'[run.op][Reservation] = step[run.op][Reservation]
    BY <2>8, Running, <1>4, ReconcileStepDoes DEF Marked, Reservation, Creation, Steps
  <2> QED BY <2>8, <2>9 DEF References, ReservedAt, Kind
<1>5. ASSUME NEW o \in Ops, Reconcile(o) PROVE ReservedAt'
  <2>8. UNCHANGED run /\ (run.op # None => /\ run.op \in Ops /\ op'[run.op].request = op[run.op].request
                                          /\ op'[run.op].cand = op[run.op].cand /\ op'[run.op].private = op[run.op].private)
    BY <1>5, ReconcileDoes DEF Became, Turned, Ended, Dropped, Marked, Moved, Stops, Concluded, OpTypes, Live, Control,
       Executing, RunRow
  <2>9. run.op # None => step'[run.op][Reservation] = step[run.op][Reservation]
    BY <2>8, Running, <1>5, ReconcileDoes DEF Marked, Reservation, Creation, Steps
  <2> QED BY <2>8, <2>9 DEF References, ReservedAt, Kind
<1>6. ASSUME NEW o \in Ops, Retry(o) PROVE ReservedAt'
  <2>8. UNCHANGED run /\ (run.op # None => /\ run.op \in Ops /\ op'[run.op].request = op[run.op].request
                                          /\ op'[run.op].cand = op[run.op].cand /\ op'[run.op].private = op[run.op].private)
    BY <1>6, RetryDoes DEF Became, Turned, Ended, Dropped, Marked, Moved, Stops, Concluded, OpTypes, Live, Control, Executing,
       RunRow
  <2>9. run.op # None => step'[run.op][Reservation] = step[run.op][Reservation]
    BY <2>8, Running, <1>6, RetryDoes DEF Marked, Reservation, Creation, Steps
  <2> QED BY <2>8, <2>9 DEF References, ReservedAt, Kind
<1>7. ASSUME NEW o \in Ops, Cancel(o) PROVE ReservedAt'
  <2>8. UNCHANGED run /\ (run.op # None => /\ run.op \in Ops /\ op'[run.op].request = op[run.op].request
                                          /\ op'[run.op].cand = op[run.op].cand /\ op'[run.op].private = op[run.op].private)
    BY <1>7, CancelDoes DEF Became, Turned, Ended, Dropped, Marked, Moved, Stops, Concluded, OpTypes, Live, Control,
       Executing, RunRow
  <2>9. run.op # None => step'[run.op][Reservation] = step[run.op][Reservation]
    BY <2>8, Running, <1>7, CancelDoes DEF Marked, Reservation, Creation, Steps
  <2> QED BY <2>8, <2>9 DEF References, ReservedAt, Kind
<1>8. ASSUME NEW o \in Ops, Report(o) PROVE ReservedAt'
  <2>8. UNCHANGED run /\ (run.op # None => /\ run.op \in Ops /\ op'[run.op].request = op[run.op].request
                                          /\ op'[run.op].cand = op[run.op].cand /\ op'[run.op].private = op[run.op].private)
    BY <1>8, ReportDoes DEF Became, Turned, Ended, Dropped, Marked, Moved, Stops, Concluded, OpTypes, Live, Control,
       Executing, RunRow
  <2>9. run.op # None => step'[run.op][Reservation] = step[run.op][Reservation]
    BY <2>8, Running, <1>8, ReportDoes DEF Marked, Reservation, Creation, Steps
  <2> QED BY <2>8, <2>9 DEF References, ReservedAt, Kind
<1>9. ASSUME NEW o \in Ops, ClaimSecret(o) PROVE ReservedAt'
  <2>8. UNCHANGED run /\ (run.op # None => /\ run.op \in Ops /\ op'[run.op].request = op[run.op].request
                                          /\ op'[run.op].cand = op[run.op].cand /\ op'[run.op].private = op[run.op].private)
    BY <1>9, ClaimSecretDoes DEF Became, Turned, Ended, Dropped, Marked, Moved, Stops, Concluded, OpTypes, Live, Control,
       Executing, RunRow
  <2>9. run.op # None => step'[run.op][Reservation] = step[run.op][Reservation]
    BY <2>8, Running, <1>9, ClaimSecretDoes DEF Marked, Reservation, Creation, Steps
  <2> QED BY <2>8, <2>9 DEF References, ReservedAt, Kind
<1>10. ASSUME NEW o \in Ops, Expire(o) PROVE ReservedAt'
  <2>8. UNCHANGED run /\ (run.op # None => /\ run.op \in Ops /\ op'[run.op].request = op[run.op].request
                                          /\ op'[run.op].cand = op[run.op].cand /\ op'[run.op].private = op[run.op].private)
    BY <1>10, ExpireDoes DEF Became, Turned, Ended, Dropped, Marked, Moved, Stops, Concluded, OpTypes, Live, Control,
       Executing, RunRow
  <2>9. run.op # None => step'[run.op][Reservation] = step[run.op][Reservation]
    BY <2>8, Running, <1>10, ExpireDoes DEF Marked, Reservation, Creation, Steps
  <2> QED BY <2>8, <2>9 DEF References, ReservedAt, Kind
<1>11. ASSUME Failure PROVE ReservedAt'
  BY <1>11, FailureDoes DEF ReservedAt, Stops, Idle, Concluded
<1>12. ASSUME Start PROVE ReservedAt'
  BY <1>12, StartDoes DEF ReservedAt, Kind, Moved, First, Remote
<1>13. ASSUME Complete PROVE ReservedAt'
  BY <1>13, CompleteDoes DEF ReservedAt, Stops, Idle
<1>14. ASSUME Begin PROVE ReservedAt'
  <2>1. run.op # None /\ run.op \in Ops /\ Reservation \in Steps /\ Step # Reservation /\ run.pc \in Calls
    BY <1>14, BeginDoes DEF Step, Calls, Reservation, Steps
  <2>2. Kind(run.op) = "mailbox.create" => step[run.op][Reservation] = "succeeded"
    BY <2>1 DEF References, ReservedAt, Calls
  <2>3. step'[run.op][Reservation] = step[run.op][Reservation]
    BY <2>1, <1>14, BeginDoes DEF Marked
  <2>4. (op' = op /\ run'.op = run.op) \/ run' = Idle
    BY <1>14, BeginDoes DEF Moved, Concluded, Stops
  <2> QED BY <2>2, <2>3, <2>4 DEF ReservedAt, Kind, Idle
<1>15. ASSUME Provider PROVE ReservedAt'
  BY <1>15, ProviderDoes DEF References, ReservedAt, Kind, Moved, Reservation, Steps
<1>16. ASSUME Refused PROVE ReservedAt'
  BY <1>16, RefusedDoes DEF References, ReservedAt, Kind, Moved, Reservation, Steps
<1>17. ASSUME Keep PROVE ReservedAt'
  BY <1>17, KeepDoes DEF References, ReservedAt, Kind, Moved, Reservation, Steps, Turned, Became
<1>18. ASSUME Record PROVE ReservedAt'
  <2>1. run.op # None /\ run.op \in Ops /\ Reservation \in Steps /\ Step # Reservation /\ run.pc \in Calls
    BY <1>18, RecordDoes DEF Step, Calls, Reservation, Steps
  <2>2. Kind(run.op) = "mailbox.create" => step[run.op][Reservation] = "succeeded"
    BY <2>1 DEF References, ReservedAt, Calls
  <2>3. step'[run.op][Reservation] = step[run.op][Reservation]
    BY <2>1, <1>18, RecordDoes DEF Marked
  <2>4. op' = op /\ run'.op = run.op
    BY <1>18, RecordDoes DEF Moved
  <2> QED BY <2>2, <2>3, <2>4 DEF ReservedAt, Kind
<1>19. ASSUME GiveUp PROVE ReservedAt'
  BY <1>19, GiveUpDoes DEF ReservedAt, Stops, Idle, Concluded
<1>20. ASSUME Reserve PROVE ReservedAt'
  <2>1. run.op # None /\ run.op \in Ops /\ Reservation \in Steps /\ run'.op = run.op
    BY <1>20, ReserveDoes DEF Moved, Reservation, Steps
  <2>2. CASE Done("mailbox.reserve") /\ step' = step
    BY <2>1, <2>2 DEF ReservedAt, Done, Reservation
  <2>3. CASE Marked(run.op, Reservation, "succeeded")
    BY <2>1, <2>3 DEF ReservedAt, Marked
  <2> QED BY <2>2, <2>3, <1>20, ReserveDoes
<1>21. ASSUME Confirm PROVE ReservedAt'
  BY <1>21, ConfirmDoes DEF References, ReservedAt, Kind, Moved, Reservation, Steps
<1>22. ASSUME Candidate PROVE ReservedAt'
  BY <1>22, CandidateDoes DEF References, ReservedAt, Kind, Moved, Reservation, Steps
<1>23. ASSUME Verify PROVE ReservedAt'
  BY <1>23, VerifyDoes DEF References, ReservedAt, Kind, Moved, Reservation, Steps
<1>24. ASSUME Activate PROVE ReservedAt'
  BY <1>24, ActivateDoes DEF References, ReservedAt, Kind, Moved, Reservation, Steps, Turned, Became
<1>25. ASSUME Revoke PROVE ReservedAt'
  BY <1>25, RevokeDoes DEF References, ReservedAt, Kind, Moved, Reservation, Steps
<1>26. ASSUME Revoked PROVE ReservedAt'
  BY <1>26, RevokedDoes DEF References, ReservedAt, Kind, Moved, Reservation, Steps
<1>27. ASSUME Password PROVE ReservedAt'
  BY <1>27, PasswordDoes DEF References, ReservedAt, Kind, Moved, Reservation, Steps, Turned, Became
<1>28. ASSUME Claim PROVE ReservedAt'
  BY <1>28, ClaimDoes DEF References, ReservedAt, Kind, Moved, Reservation, Steps, Turned, Became
<1>29. ASSUME Validate PROVE ReservedAt'
  BY <1>29, ValidateDoes DEF References, ReservedAt, Kind, Moved, Reservation, Steps
<1>30. ASSUME Gone PROVE ReservedAt'
  BY <1>30, GoneDoes DEF References, ReservedAt, Kind, Moved, Concluded, Stops, Idle
<1>31. ASSUME External PROVE ReservedAt'
  BY <1>31, ExternalDoes DEF ReservedAt, Stops, Idle
<1>32. ASSUME Check PROVE ReservedAt'
  BY <1>32, CheckDoes DEF References, ReservedAt, Kind, Moved, Reservation, Steps
<1>33. ASSUME SaveEntered PROVE ReservedAt'
  BY <1>33, SaveEnteredDoes DEF References, ReservedAt, Kind, Moved, Reservation, Steps, Marked
<1>34. ASSUME Attach PROVE ReservedAt'
  BY <1>34, AttachDoes DEF References, ReservedAt, Kind, Moved, Reservation, Steps, Turned, Became, Marked
<1>35. ASSUME UpdateEndpoints PROVE ReservedAt'
  BY <1>35, UpdateEndpointsDoes DEF ReservedAt, Stops, Idle
<1>36. ASSUME Reactivate PROVE ReservedAt'
  BY <1>36, ReactivateDoes DEF References, ReservedAt, Kind, Moved, Reservation, Steps, Turned, Became, Marked
<1>37. ASSUME ConfigureConnection PROVE ReservedAt'
  BY <1>37, ConfigureConnectionDoes DEF ReservedAt, Stops, Idle
<1>38. ASSUME Commit PROVE ReservedAt'
  BY <1>38, CommitDoes DEF References, ReservedAt, Kind, Moved, Stops, Idle
<1>39. ASSUME Interrupt PROVE ReservedAt'
  BY <1>39, InterruptDoes DEF ReservedAt, Stops, Idle
<1>40. UNCHANGED <<op, step, run>> => ReservedAt'
  BY DEF References, ReservedAt, Kind
<1>41. ASSUME Land PROVE UNCHANGED <<op, step, run>>
  BY <1>41, LandDoes
<1>42. ASSUME Switch PROVE UNCHANGED <<op, step, run>>
  BY <1>42, SwitchDoes
<1>43. ASSUME Suspend PROVE UNCHANGED <<op, step, run>>
  BY <1>43, SuspendDoes
<1>44. ASSUME Unregister PROVE UNCHANGED <<op, step, run>>
  BY <1>44, UnregisterDoes
<1>45. ASSUME Foreign PROVE UNCHANGED <<op, step, run>>
  BY <1>45, ForeignDoes
<1> QED
  BY Failures, <1>1, <1>2, <1>3, <1>4, <1>5, <1>6, <1>7, <1>8, <1>9, <1>10, <1>11, <1>12, <1>13, <1>14, <1>15, <1>16, <1>17,
     <1>18, <1>19, <1>20, <1>21, <1>22, <1>23, <1>24, <1>25, <1>26, <1>27, <1>28, <1>29, <1>30, <1>31, <1>32, <1>33, <1>34,
     <1>35, <1>36, <1>37, <1>38, <1>39, <1>40, <1>41, <1>42, <1>43, <1>44, <1>45 DEF Next, Execution

(* A password is saved before the provider hears of it. *)
LEMMA PasswordAtStep ==
  ASSUME NoneIsNoOp, IMAPIsProtocol, LimitsAreNat, LocalTypes, OpTypes, RemoteTypes, Control, References, Next
  PROVE  PasswordAt'
<1> USE NoneIsNoOp, IMAPIsProtocol, LimitsAreNat DEF vars, localVars, opVars, bounds, history, remoteVars
<1>1. ASSUME NEW o \in Ops, NEW k \in Kinds, Queue(o, k) PROVE PasswordAt'
  <2>1. PICK r \in Requests(k) : r \in Request /\ Became(o, r, "queued", 0, 0, 0, 0, FALSE)
    BY <1>1, QueueDoes
  <2>2. /\ op[o].status = "none" /\ (\A p \in Ops : op[p].status \notin Live) /\ UNCHANGED <<run, step>>
    BY <1>1, QueueDoes
  <2>8. UNCHANGED run /\ (run.op # None => /\ run.op \in Ops /\ op'[run.op].request = op[run.op].request
                                          /\ op'[run.op].cand = op[run.op].cand /\ op'[run.op].private = op[run.op].private)
    BY <2>1, <2>2 DEF Became, Turned, Ended, Dropped, Marked, Moved, Stops, Concluded, OpTypes, Live, Control, Executing, RunRow
  <2> QED BY <2>8 DEF References, PasswordAt
<1>2. ASSUME NEW o \in Ops, Execute(o) PROVE PasswordAt'
  BY <1>2, ExecuteDoes DEF PasswordAt
<1>3. ASSUME NEW o \in Ops, ConfirmExternal(o) PROVE PasswordAt'
  <2>8. UNCHANGED run /\ (run.op # None => /\ run.op \in Ops /\ op'[run.op].request = op[run.op].request
                                          /\ op'[run.op].cand = op[run.op].cand /\ op'[run.op].private = op[run.op].private)
    BY <1>3, ConfirmExternalDoes DEF Became, Turned, Ended, Dropped, Marked, Moved, Stops, Concluded, OpTypes, Live, Control,
       Executing, RunRow
  <2> QED BY <2>8 DEF References, PasswordAt
<1>4. ASSUME NEW o \in Ops, Reconcile(o) PROVE PasswordAt'
  <2>8. UNCHANGED run /\ (run.op # None => /\ run.op \in Ops /\ op'[run.op].request = op[run.op].request
                                          /\ op'[run.op].cand = op[run.op].cand /\ op'[run.op].private = op[run.op].private)
    BY <1>4, ReconcileDoes DEF Became, Turned, Ended, Dropped, Marked, Moved, Stops, Concluded, OpTypes, Live, Control,
       Executing, RunRow
  <2> QED BY <2>8 DEF References, PasswordAt
<1>5. ASSUME NEW o \in Ops, Retry(o) PROVE PasswordAt'
  <2>8. UNCHANGED run /\ (run.op # None => /\ run.op \in Ops /\ op'[run.op].request = op[run.op].request
                                          /\ op'[run.op].cand = op[run.op].cand /\ op'[run.op].private = op[run.op].private)
    BY <1>5, RetryDoes DEF Became, Turned, Ended, Dropped, Marked, Moved, Stops, Concluded, OpTypes, Live, Control, Executing,
       RunRow
  <2> QED BY <2>8 DEF References, PasswordAt
<1>6. ASSUME NEW o \in Ops, Cancel(o) PROVE PasswordAt'
  <2>8. UNCHANGED run /\ (run.op # None => /\ run.op \in Ops /\ op'[run.op].request = op[run.op].request
                                          /\ op'[run.op].cand = op[run.op].cand /\ op'[run.op].private = op[run.op].private)
    BY <1>6, CancelDoes DEF Became, Turned, Ended, Dropped, Marked, Moved, Stops, Concluded, OpTypes, Live, Control,
       Executing, RunRow
  <2> QED BY <2>8 DEF References, PasswordAt
<1>7. ASSUME NEW o \in Ops, Report(o) PROVE PasswordAt'
  <2>8. UNCHANGED run /\ (run.op # None => /\ run.op \in Ops /\ op'[run.op].request = op[run.op].request
                                          /\ op'[run.op].cand = op[run.op].cand /\ op'[run.op].private = op[run.op].private)
    BY <1>7, ReportDoes DEF Became, Turned, Ended, Dropped, Marked, Moved, Stops, Concluded, OpTypes, Live, Control,
       Executing, RunRow
  <2> QED BY <2>8 DEF References, PasswordAt
<1>8. ASSUME NEW o \in Ops, ClaimSecret(o) PROVE PasswordAt'
  <2>8. UNCHANGED run /\ (run.op # None => /\ run.op \in Ops /\ op'[run.op].request = op[run.op].request
                                          /\ op'[run.op].cand = op[run.op].cand /\ op'[run.op].private = op[run.op].private)
    BY <1>8, ClaimSecretDoes DEF Became, Turned, Ended, Dropped, Marked, Moved, Stops, Concluded, OpTypes, Live, Control,
       Executing, RunRow
  <2> QED BY <2>8 DEF References, PasswordAt
<1>9. ASSUME NEW o \in Ops, Expire(o) PROVE PasswordAt'
  <2>8. UNCHANGED run /\ (run.op # None => /\ run.op \in Ops /\ op'[run.op].request = op[run.op].request
                                          /\ op'[run.op].cand = op[run.op].cand /\ op'[run.op].private = op[run.op].private)
    BY <1>9, ExpireDoes DEF Became, Turned, Ended, Dropped, Marked, Moved, Stops, Concluded, OpTypes, Live, Control,
       Executing, RunRow
  <2> QED BY <2>8 DEF References, PasswordAt
<1>10. ASSUME Failure PROVE PasswordAt'
  BY <1>10, FailureDoes DEF PasswordAt, Stops, Idle, Concluded
<1>11. ASSUME Start PROVE PasswordAt'
  BY <1>11, StartDoes DEF PasswordAt, Moved, First
<1>12. ASSUME Complete PROVE PasswordAt'
  BY <1>12, CompleteDoes DEF PasswordAt, Stops, Idle
<1>13. ASSUME Begin PROVE PasswordAt'
  BY <1>13, BeginDoes DEF References, PasswordAt, Moved, Concluded, Stops, Idle, After, Calls
<1>14. ASSUME Provider PROVE PasswordAt'
  BY <1>14, ProviderDoes DEF References, PasswordAt, Moved
<1>15. ASSUME Refused PROVE PasswordAt'
  BY <1>15, RefusedDoes DEF References, PasswordAt, Moved
<1>16. ASSUME Keep PROVE PasswordAt'
  BY <1>16, KeepDoes DEF References, PasswordAt, Moved, Turned, Became
<1>17. ASSUME Record PROVE PasswordAt'
  BY <1>17, RecordDoes DEF References, PasswordAt, Moved, After, Calls
<1>18. ASSUME GiveUp PROVE PasswordAt'
  BY <1>18, GiveUpDoes DEF PasswordAt, Stops, Idle, Concluded
<1>19. ASSUME Reserve PROVE PasswordAt'
  BY <1>19, ReserveDoes DEF References, PasswordAt, Moved, Turned, Became
<1>20. ASSUME Confirm PROVE PasswordAt'
  BY <1>20, ConfirmDoes DEF References, PasswordAt, Moved
<1>21. ASSUME Candidate PROVE PasswordAt'
  BY <1>21, CandidateDoes DEF References, PasswordAt, Moved
<1>22. ASSUME Verify PROVE PasswordAt'
  BY <1>22, VerifyDoes DEF References, PasswordAt, Moved
<1>23. ASSUME Activate PROVE PasswordAt'
  BY <1>23, ActivateDoes DEF References, PasswordAt, Moved, Turned, Became
<1>24. ASSUME Revoke PROVE PasswordAt'
  BY <1>24, RevokeDoes DEF References, PasswordAt, Moved
<1>25. ASSUME Revoked PROVE PasswordAt'
  BY <1>25, RevokedDoes DEF References, PasswordAt, Moved
<1>26. ASSUME Password PROVE PasswordAt'
  BY <1>26, PasswordDoes DEF PasswordAt, Moved, Became, RemoteTypes, Keys
<1>27. ASSUME Claim PROVE PasswordAt'
  BY <1>27, ClaimDoes DEF References, PasswordAt, Moved, Turned, Became
<1>28. ASSUME Validate PROVE PasswordAt'
  BY <1>28, ValidateDoes DEF References, PasswordAt, Moved
<1>29. ASSUME Gone PROVE PasswordAt'
  BY <1>29, GoneDoes DEF PasswordAt, Moved, Concluded, Stops, Idle
<1>30. ASSUME External PROVE PasswordAt'
  BY <1>30, ExternalDoes DEF PasswordAt, Stops, Idle
<1>31. ASSUME Check PROVE PasswordAt'
  BY <1>31, CheckDoes DEF References, PasswordAt, Moved
<1>32. ASSUME SaveEntered PROVE PasswordAt'
  BY <1>32, SaveEnteredDoes DEF References, PasswordAt, Moved
<1>33. ASSUME Attach PROVE PasswordAt'
  BY <1>33, AttachDoes DEF References, PasswordAt, Moved, Turned, Became
<1>34. ASSUME UpdateEndpoints PROVE PasswordAt'
  BY <1>34, UpdateEndpointsDoes DEF PasswordAt, Stops, Idle
<1>35. ASSUME Reactivate PROVE PasswordAt'
  BY <1>35, ReactivateDoes DEF References, PasswordAt, Moved, Turned, Became
<1>36. ASSUME ConfigureConnection PROVE PasswordAt'
  BY <1>36, ConfigureConnectionDoes DEF PasswordAt, Stops, Idle
<1>37. ASSUME Commit PROVE PasswordAt'
  BY <1>37, CommitDoes DEF PasswordAt, Moved, Stops, Idle
<1>38. ASSUME Interrupt PROVE PasswordAt'
  BY <1>38, InterruptDoes DEF PasswordAt, Stops, Idle
<1>39. UNCHANGED <<op, run>> => PasswordAt'
  BY DEF References, PasswordAt
<1>40. ASSUME NEW o \in Ops, ReconcileStep(o) PROVE UNCHANGED <<op, run>>
  BY <1>40, ReconcileStepDoes
<1>41. ASSUME Land PROVE UNCHANGED <<op, run>>
  BY <1>41, LandDoes
<1>42. ASSUME Switch PROVE UNCHANGED <<op, run>>
  BY <1>42, SwitchDoes
<1>43. ASSUME Suspend PROVE UNCHANGED <<op, run>>
  BY <1>43, SuspendDoes
<1>44. ASSUME Unregister PROVE UNCHANGED <<op, run>>
  BY <1>44, UnregisterDoes
<1>45. ASSUME Foreign PROVE UNCHANGED <<op, run>>
  BY <1>45, ForeignDoes
<1> QED
  BY Failures, <1>1, <1>2, <1>3, <1>4, <1>5, <1>6, <1>7, <1>8, <1>9, <1>10, <1>11, <1>12, <1>13, <1>14, <1>15, <1>16, <1>17,
     <1>18, <1>19, <1>20, <1>21, <1>22, <1>23, <1>24, <1>25, <1>26, <1>27, <1>28, <1>29, <1>30, <1>31, <1>32, <1>33, <1>34,
     <1>35, <1>36, <1>37, <1>38, <1>39, <1>40, <1>41, <1>42, <1>43, <1>44, <1>45 DEF Next, Execution

(* Requests keep to their kinds, and the rows they name stay. *)
LEMMA WishesStep ==
  ASSUME NoneIsNoOp, IMAPIsProtocol, LimitsAreNat, LocalTypes, OpTypes, RemoteTypes, Control, References, Next
  PROVE  Wishes'
<1> USE NoneIsNoOp, IMAPIsProtocol, LimitsAreNat DEF vars, localVars, opVars, bounds, history, remoteVars
<1>1. ASSUME NEW o \in Ops, NEW k \in Kinds, Queue(o, k) PROVE Wishes'
  <2>1. PICK r \in Requests(k) : r \in Request /\ Became(o, r, "queued", 0, 0, 0, 0, FALSE)
    BY <1>1, QueueDoes
  <2>2. cred' = cred
    BY <1>1, QueueDoes
  <2>3. /\ r.kind = "mailbox.create" => r.entered = (r.secret # 0)
        /\ r.kind \in Additions => \A p \in Protocols : r.want[p] \in {0, New}
        /\ r.kind = "mailbox.endpoints" => \A p \in Protocols : r.want[p] \in {0, New} \cup Rows
    BY RequestsAre DEF Rows
  <2>4. op'[o].request = r /\ \A p \in Ops \ {o} : op'[p] = op[p]
    BY <2>1 DEF Became
  <2> QED BY <2>2, <2>3, <2>4 DEF References, Wishes, Open, Rows
<1>2. ASSUME NEW o \in Ops, Execute(o) PROVE Wishes'
  <2>1. \A p \in Ops : Open(p)' => Open(p) /\ op'[p].request = op[p].request
    BY <1>2, ExecuteDoes DEF OpTypes, Open, Live, Turned, Dropped, Ended, Became
  <2>2. Rows' = Rows
    BY <1>2, ExecuteDoes DEF Rows
  <2> QED BY <2>1, <2>2 DEF References, Wishes
<1>3. ASSUME NEW o \in Ops, ConfirmExternal(o) PROVE Wishes'
  <2>1. \A p \in Ops : Open(p)' => Open(p) /\ op'[p].request = op[p].request
    BY <1>3, ConfirmExternalDoes DEF OpTypes, Open, Live, Turned, Dropped, Ended, Became
  <2>2. Rows' = Rows
    BY <1>3, RowsDisused DEF SameRows
  <2> QED BY <2>1, <2>2 DEF References, Wishes
<1>4. ASSUME NEW o \in Ops, Reconcile(o) PROVE Wishes'
  <2>1. \A p \in Ops : Open(p)' => Open(p) /\ op'[p].request = op[p].request
    BY <1>4, ReconcileDoes DEF OpTypes, Open, Live, Turned, Dropped, Ended, Became
  <2>2. Rows' = Rows
    BY <1>4, ReconcileDoes DEF Rows
  <2> QED BY <2>1, <2>2 DEF References, Wishes
<1>5. ASSUME NEW o \in Ops, Retry(o) PROVE Wishes'
  <2>1. \A p \in Ops : Open(p)' => Open(p) /\ op'[p].request = op[p].request
    BY <1>5, RetryDoes DEF OpTypes, Open, Live, Turned, Dropped, Ended, Became
  <2>2. Rows' = Rows
    BY <1>5, RetryDoes DEF Rows
  <2> QED BY <2>1, <2>2 DEF References, Wishes
<1>6. ASSUME NEW o \in Ops, Cancel(o) PROVE Wishes'
  <2>1. \A p \in Ops : Open(p)' => Open(p) /\ op'[p].request = op[p].request
    BY <1>6, CancelDoes DEF OpTypes, Open, Live, Turned, Dropped, Ended, Became
  <2>2. Rows' = Rows
    BY <1>6, CancelDoes DEF Rows
  <2> QED BY <2>1, <2>2 DEF References, Wishes
<1>7. ASSUME NEW o \in Ops, Report(o) PROVE Wishes'
  <2>1. \A p \in Ops : Open(p)' => Open(p) /\ op'[p].request = op[p].request
    BY <1>7, ReportDoes DEF OpTypes, Open, Live, Turned, Dropped, Ended, Became
  <2>2. Rows' = Rows
    BY <1>7, ReportDoes DEF Rows
  <2> QED BY <2>1, <2>2 DEF References, Wishes
<1>8. ASSUME NEW o \in Ops, ClaimSecret(o) PROVE Wishes'
  <2>1. \A p \in Ops : Open(p)' => Open(p) /\ op'[p].request = op[p].request
    BY <1>8, ClaimSecretDoes DEF OpTypes, Open, Live, Turned, Dropped, Ended, Became
  <2>2. Rows' = Rows
    BY <1>8, ClaimSecretDoes DEF Rows
  <2> QED BY <2>1, <2>2 DEF References, Wishes
<1>9. ASSUME NEW o \in Ops, Expire(o) PROVE Wishes'
  <2>1. \A p \in Ops : Open(p)' => Open(p) /\ op'[p].request = op[p].request
    BY <1>9, ExpireDoes DEF OpTypes, Open, Live, Turned, Dropped, Ended, Became
  <2>2. Rows' = Rows
    BY <1>9, ExpireDoes DEF Rows
  <2> QED BY <2>1, <2>2 DEF References, Wishes
<1>10. ASSUME Failure PROVE Wishes'
  <2>1. \A o \in Ops : Open(o)' => Open(o) /\ op'[o].request = op[o].request
    BY <1>10, FailureDoes, Running DEF Turned, Ended, Became, Concluded, Open, Live
  <2>2. Rows \subseteq Rows'
    BY <1>10, FailureDoes DEF Rows
  <2> QED BY <2>1, <2>2 DEF References, Wishes
<1>11. ASSUME Complete PROVE Wishes'
  <2>1. \A o \in Ops : Open(o)' => Open(o) /\ op'[o].request = op[o].request
    BY <1>11, CompleteDoes, Running DEF Turned, Ended, Became, Concluded, Open, Live
  <2>2. Rows \subseteq Rows'
    BY <1>11, CompleteDoes DEF Rows
  <2> QED BY <2>1, <2>2 DEF References, Wishes
<1>12. ASSUME Begin PROVE Wishes'
  <2>1. \A o \in Ops : Open(o)' => Open(o) /\ op'[o].request = op[o].request
    BY <1>12, BeginDoes, Running DEF Turned, Ended, Became, Concluded, Open, Live
  <2>2. Rows \subseteq Rows'
    BY <1>12, BeginDoes DEF Rows
  <2> QED BY <2>1, <2>2 DEF References, Wishes
<1>13. ASSUME Keep PROVE Wishes'
  <2>1. \A o \in Ops : Open(o)' => Open(o) /\ op'[o].request = op[o].request
    BY <1>13, KeepDoes, Running DEF Turned, Ended, Became, Concluded, Open, Live
  <2>2. Rows \subseteq Rows'
    BY <1>13, KeepDoes DEF Adds, Rows
  <2> QED BY <2>1, <2>2 DEF References, Wishes
<1>14. ASSUME GiveUp PROVE Wishes'
  <2>1. \A o \in Ops : Open(o)' => Open(o) /\ op'[o].request = op[o].request
    BY <1>14, GiveUpDoes, Running DEF Turned, Ended, Became, Concluded, Open, Live
  <2>2. Rows \subseteq Rows'
    BY <1>14, GiveUpDoes DEF Rows
  <2> QED BY <2>1, <2>2 DEF References, Wishes
<1>15. ASSUME Reserve PROVE Wishes'
  <2>1. \A o \in Ops : Open(o)' => Open(o) /\ op'[o].request = op[o].request
    BY <1>15, ReserveDoes, Running DEF Turned, Ended, Became, Concluded, Open, Live
  <2>2. Rows \subseteq Rows'
    BY <1>15, ReserveDoes DEF Rows
  <2> QED BY <2>1, <2>2 DEF References, Wishes
<1>16. ASSUME Activate PROVE Wishes'
  <2>1. \A o \in Ops : Open(o)' => Open(o) /\ op'[o].request = op[o].request
    BY <1>16, ActivateDoes, Running DEF Turned, Ended, Became, Concluded, Open, Live
  <2>2. Rows \subseteq Rows'
    BY <1>16, ActivateDoes DEF SameRows
  <2> QED BY <2>1, <2>2 DEF References, Wishes
<1>17. ASSUME Revoked PROVE Wishes'
  <2>1. \A o \in Ops : Open(o)' => Open(o) /\ op'[o].request = op[o].request
    BY <1>17, RevokedDoes, Running DEF Turned, Ended, Became, Concluded, Open, Live
  <2>2. Rows \subseteq Rows'
    BY <1>17, RevokedDoes DEF SameRows
  <2> QED BY <2>1, <2>2 DEF References, Wishes
<1>18. ASSUME Password PROVE Wishes'
  <2>1. \A o \in Ops : Open(o)' => Open(o) /\ op'[o].request = op[o].request
    BY <1>18, PasswordDoes, Running DEF Turned, Ended, Became, Concluded, Open, Live
  <2>2. Rows \subseteq Rows'
    BY <1>18, PasswordDoes DEF Rows
  <2> QED BY <2>1, <2>2 DEF References, Wishes
<1>19. ASSUME Claim PROVE Wishes'
  <2>1. \A o \in Ops : Open(o)' => Open(o) /\ op'[o].request = op[o].request
    BY <1>19, ClaimDoes, Running DEF Turned, Ended, Became, Concluded, Open, Live
  <2>2. Rows \subseteq Rows'
    BY <1>19, ClaimDoes DEF Rows
  <2> QED BY <2>1, <2>2 DEF References, Wishes
<1>20. ASSUME Gone PROVE Wishes'
  <2>1. \A o \in Ops : Open(o)' => Open(o) /\ op'[o].request = op[o].request
    BY <1>20, GoneDoes, Running DEF Turned, Ended, Became, Concluded, Open, Live
  <2>2. Rows \subseteq Rows'
    BY <1>20, GoneDoes DEF Rows
  <2> QED BY <2>1, <2>2 DEF References, Wishes
<1>21. ASSUME External PROVE Wishes'
  <2>1. \A o \in Ops : Open(o)' => Open(o) /\ op'[o].request = op[o].request
    BY <1>21, ExternalDoes, Running DEF Turned, Ended, Became, Concluded, Open, Live
  <2>2. Rows \subseteq Rows'
    BY <1>21, ExternalDoes DEF Rows
  <2> QED BY <2>1, <2>2 DEF References, Wishes
<1>22. ASSUME SaveEntered PROVE Wishes'
  <2>1. \A o \in Ops : Open(o)' => Open(o) /\ op'[o].request = op[o].request
    BY <1>22, SaveEnteredDoes, Running DEF Turned, Ended, Became, Concluded, Open, Live
  <2>2. Rows \subseteq Rows'
    BY <1>22, RowsEntered DEF Adds, Rows
  <2> QED BY <2>1, <2>2 DEF References, Wishes
<1>23. ASSUME Attach PROVE Wishes'
  <2>1. \A o \in Ops : Open(o)' => Open(o) /\ op'[o].request = op[o].request
    BY <1>23, AttachDoes, Running DEF Turned, Ended, Became, Concluded, Open, Live
  <2>2. Rows \subseteq Rows'
    BY <1>23, RowsEntered DEF Adds, Rows
  <2> QED BY <2>1, <2>2 DEF References, Wishes
<1>24. ASSUME UpdateEndpoints PROVE Wishes'
  <2>1. \A o \in Ops : Open(o)' => Open(o) /\ op'[o].request = op[o].request
    BY <1>24, UpdateEndpointsDoes, Running DEF Turned, Ended, Became, Concluded, Open, Live
  <2>2. Rows \subseteq Rows'
    BY <1>24, RowsUpdated
  <2> QED BY <2>1, <2>2 DEF References, Wishes
<1>25. ASSUME Reactivate PROVE Wishes'
  <2>1. \A o \in Ops : Open(o)' => Open(o) /\ op'[o].request = op[o].request
    BY <1>25, ReactivateDoes, Running DEF Turned, Ended, Became, Concluded, Open, Live
  <2>2. Rows \subseteq Rows'
    BY <1>25, ReactivateDoes DEF Rows
  <2> QED BY <2>1, <2>2 DEF References, Wishes
<1>26. ASSUME ConfigureConnection PROVE Wishes'
  <2>1. \A o \in Ops : Open(o)' => Open(o) /\ op'[o].request = op[o].request
    BY <1>26, ConfigureConnectionDoes, Running DEF Turned, Ended, Became, Concluded, Open, Live
  <2>2. Rows \subseteq Rows'
    BY <1>26, ConfigureConnectionDoes DEF Rows
  <2> QED BY <2>1, <2>2 DEF References, Wishes
<1>27. ASSUME Commit PROVE Wishes'
  <2>1. \A o \in Ops : Open(o)' => Open(o) /\ op'[o].request = op[o].request
    BY <1>27, CommitDoes, Running DEF Turned, Ended, Became, Concluded, Open, Live
  <2>2. Rows \subseteq Rows'
    BY <1>27, RowsForgotten DEF SameRows
  <2> QED BY <2>1, <2>2 DEF References, Wishes
<1>28. ASSUME Interrupt PROVE Wishes'
  <2>1. \A o \in Ops : Open(o)' => Open(o) /\ op'[o].request = op[o].request
    BY <1>28, InterruptDoes, Running DEF Turned, Ended, Became, Concluded, Open, Live
  <2>2. Rows \subseteq Rows'
    BY <1>28, InterruptDoes DEF Rows
  <2> QED BY <2>1, <2>2 DEF References, Wishes
<1>29. ASSUME Unregister PROVE Wishes'
  <2>1. op' = op /\ \A o \in Ops : Open(o) => Kind(o) \in Additions \cup {"connection.configure"}
    BY <1>29, UnregisterDoes DEF Open
  <2> QED BY <2>1 DEF References, Wishes, Open, Kind, Additions
<1>30. UNCHANGED <<op, cred>> => Wishes'
  BY DEF References, Wishes, Open, Rows
<1>31. ASSUME NEW o \in Ops, ReconcileStep(o) PROVE UNCHANGED <<op, cred>>
  BY <1>31, ReconcileStepDoes
<1>32. ASSUME Start PROVE UNCHANGED <<op, cred>>
  BY <1>32, StartDoes
<1>33. ASSUME Provider PROVE UNCHANGED <<op, cred>>
  BY <1>33, ProviderDoes
<1>34. ASSUME Refused PROVE UNCHANGED <<op, cred>>
  BY <1>34, RefusedDoes
<1>35. ASSUME Record PROVE UNCHANGED <<op, cred>>
  BY <1>35, RecordDoes
<1>36. ASSUME Confirm PROVE UNCHANGED <<op, cred>>
  BY <1>36, ConfirmDoes
<1>37. ASSUME Candidate PROVE UNCHANGED <<op, cred>>
  BY <1>37, CandidateDoes
<1>38. ASSUME Verify PROVE UNCHANGED <<op, cred>>
  BY <1>38, VerifyDoes
<1>39. ASSUME Revoke PROVE UNCHANGED <<op, cred>>
  BY <1>39, RevokeDoes
<1>40. ASSUME Validate PROVE UNCHANGED <<op, cred>>
  BY <1>40, ValidateDoes
<1>41. ASSUME Check PROVE UNCHANGED <<op, cred>>
  BY <1>41, CheckDoes
<1>42. ASSUME Land PROVE UNCHANGED <<op, cred>>
  BY <1>42, LandDoes
<1>43. ASSUME Switch PROVE UNCHANGED <<op, cred>>
  BY <1>43, SwitchDoes
<1>44. ASSUME Suspend PROVE UNCHANGED <<op, cred>>
  BY <1>44, SuspendDoes
<1>45. ASSUME Foreign PROVE UNCHANGED <<op, cred>>
  BY <1>45, ForeignDoes
<1> QED
  BY Failures, <1>1, <1>2, <1>3, <1>4, <1>5, <1>6, <1>7, <1>8, <1>9, <1>10, <1>11, <1>12, <1>13, <1>14, <1>15, <1>16, <1>17,
     <1>18, <1>19, <1>20, <1>21, <1>22, <1>23, <1>24, <1>25, <1>26, <1>27, <1>28, <1>29, <1>30, <1>31, <1>32, <1>33, <1>34,
     <1>35, <1>36, <1>37, <1>38, <1>39, <1>40, <1>41, <1>42, <1>43, <1>44, <1>45 DEF Next, Execution

(* Operations, executions and endpoints keep referring to rows there are. *)
LEMMA ReferencesStep ==
  ASSUME NoneIsNoOp, IMAPIsProtocol, LimitsAreNat, LocalTypes, OpTypes, RemoteTypes, Control, References, Next
  PROVE  References'
BY NoneIsNoOp, IMAPIsProtocol, LimitsAreNat, EndpointsReferStep, CandidatesStep, UncreatedStep, CreatedStep,
   HasCandidateStep, OldRowStep,
   ReservedStep, ReservedAtStep, PasswordAtStep, WishesStep
   DEF References

-----------------------------------------------------------------------------
(* What becomes of secrets. *)

\* Operations keep their secrets or forget them.
OpsKeep == \A o \in Ops : /\ op'[o].private \in {0, op[o].private}
                          /\ Open(o)' => Open(o) /\ op'[o].request.secret = op[o].request.secret
\* So do rows; none that is out of use is used again.
RowsKeep == /\ Rows' = Rows
            /\ \A c \in Rows : /\ cred'[c].source = cred[c].source /\ cred'[c].key = cred[c].key
                               /\ cred'[c].state \in {"active", "candidate"} => cred[c].state \in {"active", "candidate"}
KeysSame == UNCHANGED <<account, late, fresh, maker>> /\ OpsKeep /\ RowsKeep /\ run'.secret \in {0, run.secret}
\* A password that was entered is saved.
EntersRow == SaveEntered \/ Attach \/ UpdateEndpoints
KeysMove == \/ \E o \in Ops, k \in Kinds : Queue(o, k)
            \/ Provider \/ Keep \/ Reserve \/ Password \/ Land \/ Foreign \/ EntersRow \/ Unregister

(* Most steps leave all secrets as they are. *)
LEMMA KeysKept ==
  ASSUME NoneIsNoOp, IMAPIsProtocol, LimitsAreNat, LocalTypes, OpTypes, RemoteTypes, Control, References, Next
  PROVE  KeysSame \/ KeysMove
<1> USE NoneIsNoOp, IMAPIsProtocol, LimitsAreNat DEF vars, localVars, opVars, bounds, history, remoteVars
<1>1. ASSUME NEW o \in Ops, NEW k \in Kinds, Queue(o, k) PROVE KeysSame \/ KeysMove
  BY <1>1 DEF KeysMove, EntersRow
<1>2. ASSUME NEW o \in Ops, Execute(o) PROVE KeysSame \/ KeysMove
  <2>1. OpsKeep
    BY <1>2, ExecuteDoes DEF OpsKeep, OpTypes, Open, Live, Turned, Dropped, Ended, Became
  <2>2. RowsKeep
    BY <1>2, ExecuteDoes DEF RowsKeep, Rows
  <2>3. UNCHANGED <<account, late, fresh, maker>> /\ run'.secret \in {0, run.secret}
    BY <1>2, ExecuteDoes
  <2> QED BY <2>1, <2>2, <2>3 DEF KeysSame
<1>3. ASSUME NEW o \in Ops, ConfirmExternal(o) PROVE KeysSame \/ KeysMove
  <2>1. OpsKeep
    BY <1>3, ConfirmExternalDoes DEF OpsKeep, OpTypes, Open, Live, Turned, Dropped, Ended, Became
  <2>2. RowsKeep
    BY <1>3, RowsDisused DEF RowsKeep, SameRows
  <2>3. UNCHANGED <<account, late, fresh, maker>> /\ run'.secret \in {0, run.secret}
    BY <1>3, ConfirmExternalDoes
  <2> QED BY <2>1, <2>2, <2>3 DEF KeysSame
<1>4. ASSUME NEW o \in Ops, ReconcileStep(o) PROVE KeysSame \/ KeysMove
  <2>1. OpsKeep
    BY <1>4, ReconcileStepDoes DEF OpsKeep, OpTypes, Open, Live, Turned, Dropped, Ended, Became
  <2>2. RowsKeep
    BY <1>4, ReconcileStepDoes DEF RowsKeep, Rows
  <2>3. UNCHANGED <<account, late, fresh, maker>> /\ run'.secret \in {0, run.secret}
    BY <1>4, ReconcileStepDoes
  <2> QED BY <2>1, <2>2, <2>3 DEF KeysSame
<1>5. ASSUME NEW o \in Ops, Reconcile(o) PROVE KeysSame \/ KeysMove
  <2>1. OpsKeep
    BY <1>5, ReconcileDoes DEF OpsKeep, OpTypes, Open, Live, Turned, Dropped, Ended, Became
  <2>2. RowsKeep
    BY <1>5, ReconcileDoes DEF RowsKeep, Rows
  <2>3. UNCHANGED <<account, late, fresh, maker>> /\ run'.secret \in {0, run.secret}
    BY <1>5, ReconcileDoes
  <2> QED BY <2>1, <2>2, <2>3 DEF KeysSame
<1>6. ASSUME NEW o \in Ops, Retry(o) PROVE KeysSame \/ KeysMove
  <2>1. OpsKeep
    BY <1>6, RetryDoes DEF OpsKeep, OpTypes, Open, Live, Turned, Dropped, Ended, Became
  <2>2. RowsKeep
    BY <1>6, RetryDoes DEF RowsKeep, Rows
  <2>3. UNCHANGED <<account, late, fresh, maker>> /\ run'.secret \in {0, run.secret}
    BY <1>6, RetryDoes
  <2> QED BY <2>1, <2>2, <2>3 DEF KeysSame
<1>7. ASSUME NEW o \in Ops, Cancel(o) PROVE KeysSame \/ KeysMove
  <2>1. OpsKeep
    BY <1>7, CancelDoes DEF OpsKeep, OpTypes, Open, Live, Turned, Dropped, Ended, Became
  <2>2. RowsKeep
    BY <1>7, CancelDoes DEF RowsKeep, Rows
  <2>3. UNCHANGED <<account, late, fresh, maker>> /\ run'.secret \in {0, run.secret}
    BY <1>7, CancelDoes
  <2> QED BY <2>1, <2>2, <2>3 DEF KeysSame
<1>8. ASSUME NEW o \in Ops, Report(o) PROVE KeysSame \/ KeysMove
  <2>1. OpsKeep
    BY <1>8, ReportDoes DEF OpsKeep, OpTypes, Open, Live, Turned, Dropped, Ended, Became
  <2>2. RowsKeep
    BY <1>8, ReportDoes DEF RowsKeep, Rows
  <2>3. UNCHANGED <<account, late, fresh, maker>> /\ run'.secret \in {0, run.secret}
    BY <1>8, ReportDoes
  <2> QED BY <2>1, <2>2, <2>3 DEF KeysSame
<1>9. ASSUME NEW o \in Ops, ClaimSecret(o) PROVE KeysSame \/ KeysMove
  <2>1. OpsKeep
    BY <1>9, ClaimSecretDoes DEF OpsKeep, OpTypes, Open, Live, Turned, Dropped, Ended, Became
  <2>2. RowsKeep
    BY <1>9, ClaimSecretDoes DEF RowsKeep, Rows
  <2>3. UNCHANGED <<account, late, fresh, maker>> /\ run'.secret \in {0, run.secret}
    BY <1>9, ClaimSecretDoes
  <2> QED BY <2>1, <2>2, <2>3 DEF KeysSame
<1>10. ASSUME NEW o \in Ops, Expire(o) PROVE KeysSame \/ KeysMove
  <2>1. OpsKeep
    BY <1>10, ExpireDoes DEF OpsKeep, OpTypes, Open, Live, Turned, Dropped, Ended, Became
  <2>2. RowsKeep
    BY <1>10, ExpireDoes DEF RowsKeep, Rows
  <2>3. UNCHANGED <<account, late, fresh, maker>> /\ run'.secret \in {0, run.secret}
    BY <1>10, ExpireDoes
  <2> QED BY <2>1, <2>2, <2>3 DEF KeysSame
<1>11. ASSUME Failure PROVE KeysSame \/ KeysMove
  <2>1. OpsKeep
    BY <1>11, FailureDoes, Running DEF OpsKeep, Open, Live, Turned, Ended, Became, Concluded
  <2>2. RowsKeep
    BY <1>11, FailureDoes DEF RowsKeep, Rows
  <2>3. UNCHANGED <<account, late, fresh, maker>> /\ run'.secret \in {0, run.secret}
    BY <1>11, FailureDoes, Running DEF Moved, Stops, Idle, Concluded
  <2> QED BY <2>1, <2>2, <2>3 DEF KeysSame
<1>12. ASSUME Start PROVE KeysSame \/ KeysMove
  <2>1. OpsKeep
    BY <1>12, StartDoes, Running DEF OpsKeep, Open
  <2>2. RowsKeep
    BY <1>12, StartDoes DEF RowsKeep, Rows
  <2>3. UNCHANGED <<account, late, fresh, maker>> /\ run'.secret \in {0, run.secret}
    BY <1>12, StartDoes, Running DEF Moved, Stops, Idle, Concluded
  <2> QED BY <2>1, <2>2, <2>3 DEF KeysSame
<1>13. ASSUME Complete PROVE KeysSame \/ KeysMove
  <2>1. OpsKeep
    BY <1>13, CompleteDoes, Running DEF OpsKeep, Open, Live, Turned, Ended, Became, Concluded
  <2>2. RowsKeep
    BY <1>13, CompleteDoes DEF RowsKeep, Rows
  <2>3. UNCHANGED <<account, late, fresh, maker>> /\ run'.secret \in {0, run.secret}
    BY <1>13, CompleteDoes, Running DEF Moved, Stops, Idle, Concluded
  <2> QED BY <2>1, <2>2, <2>3 DEF KeysSame
<1>14. ASSUME Begin PROVE KeysSame \/ KeysMove
  <2>1. OpsKeep
    BY <1>14, BeginDoes, Running DEF OpsKeep, Open, Live, Turned, Ended, Became, Concluded
  <2>2. RowsKeep
    BY <1>14, BeginDoes DEF RowsKeep, Rows
  <2>3. UNCHANGED <<account, late, fresh, maker>> /\ run'.secret \in {0, run.secret}
    BY <1>14, BeginDoes, Running DEF Moved, Stops, Idle, Concluded
  <2> QED BY <2>1, <2>2, <2>3 DEF KeysSame
<1>15. ASSUME Provider PROVE KeysSame \/ KeysMove
  BY <1>15 DEF KeysMove, EntersRow
<1>16. ASSUME Refused PROVE KeysSame \/ KeysMove
  <2>1. OpsKeep
    BY <1>16, RefusedDoes, Running DEF OpsKeep, Open
  <2>2. RowsKeep
    BY <1>16, RefusedDoes DEF RowsKeep, Rows
  <2>3. UNCHANGED <<account, late, fresh, maker>> /\ run'.secret \in {0, run.secret}
    BY <1>16, RefusedDoes, Running DEF Moved, Stops, Idle, Concluded
  <2> QED BY <2>1, <2>2, <2>3 DEF KeysSame
<1>17. ASSUME Keep PROVE KeysSame \/ KeysMove
  BY <1>17 DEF KeysMove, EntersRow
<1>18. ASSUME Record PROVE KeysSame \/ KeysMove
  <2>1. OpsKeep
    BY <1>18, RecordDoes, Running DEF OpsKeep, Open
  <2>2. RowsKeep
    BY <1>18, RecordDoes DEF RowsKeep, Rows
  <2>3. UNCHANGED <<account, late, fresh, maker>> /\ run'.secret \in {0, run.secret}
    BY <1>18, RecordDoes, Running DEF Moved, Stops, Idle, Concluded
  <2> QED BY <2>1, <2>2, <2>3 DEF KeysSame
<1>19. ASSUME GiveUp PROVE KeysSame \/ KeysMove
  <2>1. OpsKeep
    BY <1>19, GiveUpDoes, Running DEF OpsKeep, Open, Live, Turned, Ended, Became, Concluded
  <2>2. RowsKeep
    BY <1>19, GiveUpDoes DEF RowsKeep, Rows
  <2>3. UNCHANGED <<account, late, fresh, maker>> /\ run'.secret \in {0, run.secret}
    BY <1>19, GiveUpDoes, Running DEF Moved, Stops, Idle, Concluded
  <2> QED BY <2>1, <2>2, <2>3 DEF KeysSame
<1>20. ASSUME Reserve PROVE KeysSame \/ KeysMove
  BY <1>20 DEF KeysMove, EntersRow
<1>21. ASSUME Confirm PROVE KeysSame \/ KeysMove
  <2>1. OpsKeep
    BY <1>21, ConfirmDoes, Running DEF OpsKeep, Open
  <2>2. RowsKeep
    BY <1>21, ConfirmDoes DEF RowsKeep, Rows
  <2>3. UNCHANGED <<account, late, fresh, maker>> /\ run'.secret \in {0, run.secret}
    BY <1>21, ConfirmDoes, Running DEF Moved, Stops, Idle, Concluded
  <2> QED BY <2>1, <2>2, <2>3 DEF KeysSame
<1>22. ASSUME Candidate PROVE KeysSame \/ KeysMove
  <2>1. OpsKeep
    BY <1>22, CandidateDoes, Running DEF OpsKeep, Open
  <2>2. RowsKeep
    BY <1>22, CandidateDoes DEF RowsKeep, Rows
  <2>3. UNCHANGED <<account, late, fresh, maker>> /\ run'.secret \in {0, run.secret}
    BY <1>22, CandidateDoes, Running DEF Moved, Stops, Idle, Concluded
  <2> QED BY <2>1, <2>2, <2>3 DEF KeysSame
<1>23. ASSUME Verify PROVE KeysSame \/ KeysMove
  <2>1. OpsKeep
    BY <1>23, VerifyDoes, Running DEF OpsKeep, Open
  <2>2. RowsKeep
    BY <1>23, VerifyDoes DEF RowsKeep, Rows
  <2>3. UNCHANGED <<account, late, fresh, maker>> /\ run'.secret \in {0, run.secret}
    BY <1>23, VerifyDoes, Running DEF Moved, Stops, Idle, Concluded
  <2> QED BY <2>1, <2>2, <2>3 DEF KeysSame
<1>24. ASSUME Activate PROVE KeysSame \/ KeysMove
  <2>1. OpsKeep
    BY <1>24, ActivateDoes, Running DEF OpsKeep, Open, Live, Turned, Ended, Became, Concluded
  <2>2. RowsKeep
    BY <1>24, ActivateDoes DEF RowsKeep, SameRows, ActivatedState, References, Candidates, HasCandidate, IsLive, Live, OfState
  <2>3. UNCHANGED <<account, late, fresh, maker>> /\ run'.secret \in {0, run.secret}
    BY <1>24, ActivateDoes, Running DEF Moved, Stops, Idle, Concluded
  <2> QED BY <2>1, <2>2, <2>3 DEF KeysSame
<1>25. ASSUME Revoke PROVE KeysSame \/ KeysMove
  <2>1. OpsKeep
    BY <1>25, RevokeDoes, Running DEF OpsKeep, Open
  <2>2. RowsKeep
    BY <1>25, RevokeDoes DEF RowsKeep, Rows
  <2>3. UNCHANGED <<account, late, fresh, maker>> /\ run'.secret \in {0, run.secret}
    BY <1>25, RevokeDoes, Running DEF Moved, Stops, Idle, Concluded
  <2> QED BY <2>1, <2>2, <2>3 DEF KeysSame
<1>26. ASSUME Revoked PROVE KeysSame \/ KeysMove
  <2>1. OpsKeep
    BY <1>26, RevokedDoes, Running DEF OpsKeep, Open
  <2>2. RowsKeep
    BY <1>26, RevokedDoes DEF RowsKeep, SameRows
  <2>3. UNCHANGED <<account, late, fresh, maker>> /\ run'.secret \in {0, run.secret}
    BY <1>26, RevokedDoes, Running DEF Moved, Stops, Idle, Concluded
  <2> QED BY <2>1, <2>2, <2>3 DEF KeysSame
<1>27. ASSUME Password PROVE KeysSame \/ KeysMove
  BY <1>27 DEF KeysMove, EntersRow
<1>28. ASSUME Claim PROVE KeysSame \/ KeysMove
  <2>1. OpsKeep
    BY <1>28, ClaimDoes, Running DEF OpsKeep, Open, Live, Turned, Ended, Became, Concluded
  <2>2. RowsKeep
    BY <1>28, ClaimDoes DEF RowsKeep, Rows
  <2>3. UNCHANGED <<account, late, fresh, maker>> /\ run'.secret \in {0, run.secret}
    BY <1>28, ClaimDoes, Running DEF Moved, Stops, Idle, Concluded
  <2> QED BY <2>1, <2>2, <2>3 DEF KeysSame
<1>29. ASSUME Validate PROVE KeysSame \/ KeysMove
  <2>1. OpsKeep
    BY <1>29, ValidateDoes, Running DEF OpsKeep, Open
  <2>2. RowsKeep
    BY <1>29, ValidateDoes DEF RowsKeep, Rows
  <2>3. UNCHANGED <<account, late, fresh, maker>> /\ run'.secret \in {0, run.secret}
    BY <1>29, ValidateDoes, Running DEF Moved, Stops, Idle, Concluded
  <2> QED BY <2>1, <2>2, <2>3 DEF KeysSame
<1>30. ASSUME Gone PROVE KeysSame \/ KeysMove
  <2>1. OpsKeep
    BY <1>30, GoneDoes, Running DEF OpsKeep, Open, Live, Turned, Ended, Became, Concluded
  <2>2. RowsKeep
    BY <1>30, GoneDoes DEF RowsKeep, Rows
  <2>3. UNCHANGED <<account, late, fresh, maker>> /\ run'.secret \in {0, run.secret}
    BY <1>30, GoneDoes, Running DEF Moved, Stops, Idle, Concluded
  <2> QED BY <2>1, <2>2, <2>3 DEF KeysSame
<1>31. ASSUME External PROVE KeysSame \/ KeysMove
  <2>1. OpsKeep
    BY <1>31, ExternalDoes, Running DEF OpsKeep, Open, Live, Turned, Ended, Became, Concluded
  <2>2. RowsKeep
    BY <1>31, ExternalDoes DEF RowsKeep, Rows
  <2>3. UNCHANGED <<account, late, fresh, maker>> /\ run'.secret \in {0, run.secret}
    BY <1>31, ExternalDoes, Running DEF Moved, Stops, Idle, Concluded
  <2> QED BY <2>1, <2>2, <2>3 DEF KeysSame
<1>32. ASSUME Check PROVE KeysSame \/ KeysMove
  <2>1. OpsKeep
    BY <1>32, CheckDoes, Running DEF OpsKeep, Open
  <2>2. RowsKeep
    BY <1>32, CheckDoes DEF RowsKeep, Rows
  <2>3. UNCHANGED <<account, late, fresh, maker>> /\ run'.secret \in {0, run.secret}
    BY <1>32, CheckDoes, Running DEF Moved, Stops, Idle, Concluded
  <2> QED BY <2>1, <2>2, <2>3 DEF KeysSame
<1>33. ASSUME SaveEntered PROVE KeysSame \/ KeysMove
  BY <1>33 DEF KeysMove, EntersRow
<1>34. ASSUME Attach PROVE KeysSame \/ KeysMove
  BY <1>34 DEF KeysMove, EntersRow
<1>35. ASSUME UpdateEndpoints PROVE KeysSame \/ KeysMove
  BY <1>35 DEF KeysMove, EntersRow
<1>36. ASSUME Reactivate PROVE KeysSame \/ KeysMove
  <2>1. OpsKeep
    BY <1>36, ReactivateDoes, Running DEF OpsKeep, Open, Live, Turned, Ended, Became, Concluded
  <2>2. RowsKeep
    BY <1>36, ReactivateDoes DEF RowsKeep, Rows
  <2>3. UNCHANGED <<account, late, fresh, maker>> /\ run'.secret \in {0, run.secret}
    BY <1>36, ReactivateDoes, Running DEF Moved, Stops, Idle, Concluded
  <2> QED BY <2>1, <2>2, <2>3 DEF KeysSame
<1>37. ASSUME ConfigureConnection PROVE KeysSame \/ KeysMove
  <2>1. OpsKeep
    BY <1>37, ConfigureConnectionDoes, Running DEF OpsKeep, Open, Live, Turned, Ended, Became, Concluded
  <2>2. RowsKeep
    BY <1>37, ConfigureConnectionDoes DEF RowsKeep, Rows
  <2>3. UNCHANGED <<account, late, fresh, maker>> /\ run'.secret \in {0, run.secret}
    BY <1>37, ConfigureConnectionDoes, Running DEF Moved, Stops, Idle, Concluded
  <2> QED BY <2>1, <2>2, <2>3 DEF KeysSame
<1>38. ASSUME Commit PROVE KeysSame \/ KeysMove
  <2>1. OpsKeep
    BY <1>38, CommitDoes, Running DEF OpsKeep, Open, Live, Turned, Ended, Became, Concluded
  <2>2. RowsKeep
    BY <1>38, RowsForgotten DEF RowsKeep, SameRows
  <2>3. UNCHANGED <<account, late, fresh, maker>> /\ run'.secret \in {0, run.secret}
    BY <1>38, CommitDoes, Running DEF Moved, Stops, Idle, Concluded
  <2> QED BY <2>1, <2>2, <2>3 DEF KeysSame
<1>39. ASSUME Interrupt PROVE KeysSame \/ KeysMove
  <2>1. OpsKeep
    BY <1>39, InterruptDoes, Running DEF OpsKeep, Open, Live, Turned, Ended, Became, Concluded
  <2>2. RowsKeep
    BY <1>39, InterruptDoes DEF RowsKeep, Rows
  <2>3. UNCHANGED <<account, late, fresh, maker>> /\ run'.secret \in {0, run.secret}
    BY <1>39, InterruptDoes, Running DEF Moved, Stops, Idle, Concluded
  <2> QED BY <2>1, <2>2, <2>3 DEF KeysSame
<1>40. ASSUME Land PROVE KeysSame \/ KeysMove
  BY <1>40 DEF KeysMove, EntersRow
<1>41. ASSUME Switch PROVE KeysSame \/ KeysMove
  <2>1. OpsKeep
    BY <1>41, SwitchDoes DEF OpsKeep, Open
  <2>2. RowsKeep
    BY <1>41, SwitchDoes DEF RowsKeep, Rows
  <2>3. UNCHANGED <<account, late, fresh, maker>> /\ run'.secret \in {0, run.secret}
    BY <1>41, SwitchDoes DEF Moved, Stops, Idle, Concluded
  <2> QED BY <2>1, <2>2, <2>3 DEF KeysSame
<1>42. ASSUME Suspend PROVE KeysSame \/ KeysMove
  <2>1. OpsKeep
    BY <1>42, SuspendDoes DEF OpsKeep, Open
  <2>2. RowsKeep
    BY <1>42, SuspendDoes DEF RowsKeep, Rows
  <2>3. UNCHANGED <<account, late, fresh, maker>> /\ run'.secret \in {0, run.secret}
    BY <1>42, SuspendDoes DEF Moved, Stops, Idle, Concluded
  <2> QED BY <2>1, <2>2, <2>3 DEF KeysSame
<1>43. ASSUME Unregister PROVE KeysSame \/ KeysMove
  BY <1>43 DEF KeysMove, EntersRow
<1>44. ASSUME Foreign PROVE KeysSame \/ KeysMove
  BY <1>44 DEF KeysMove, EntersRow
<1> QED
  BY Failures, <1>1, <1>2, <1>3, <1>4, <1>5, <1>6, <1>7, <1>8, <1>9, <1>10, <1>11, <1>12, <1>13, <1>14, <1>15, <1>16, <1>17,
     <1>18, <1>19, <1>20, <1>21, <1>22, <1>23, <1>24, <1>25, <1>26, <1>27, <1>28, <1>29, <1>30, <1>31, <1>32, <1>33, <1>34,
     <1>35, <1>36, <1>37, <1>38, <1>39, <1>40, <1>41, <1>42, <1>43, <1>44 DEF Next, Execution

(* The next secret is used for nothing yet. *)
LEMMA FreshIsNew ==
  ASSUME NoneIsNoOp, IMAPIsProtocol, LimitsAreNat, LocalTypes, OpTypes, RemoteTypes, Control, References, Secrets, Creations
  PROVE  /\ fresh \in Keys /\ fresh \in Nat /\ fresh # 0 /\ ~AppPassword(fresh) /\ fresh \notin account.accepted /\ account.primary # fresh
         /\ \A o \in Ops : op[o].private # fresh /\ (Open(o) => op[o].request.secret # fresh)
         /\ \A c \in Rows : cred[c].key # fresh
         /\ \A call \in late : call.key # fresh
         /\ account.primary < fresh
<1>1. fresh \in Keys /\ fresh \in Nat /\ fresh # 0
  BY LimitsAreNat DEF RemoteTypes, Keys
<1>2. \A k : k < fresh => k # fresh
  BY <1>1
<1>3. account.primary \in account.accepted \/ account.primary = 0
  BY DEF Secrets, Balance
<1>4. account.primary < fresh /\ fresh \notin account.accepted
  BY <1>1, <1>2, <1>3 DEF Secrets, Below, AcceptedBelow
<1>5. \A o \in Ops : op[o].private # fresh /\ (Open(o) => op[o].request.secret # fresh)
  BY <1>2 DEF Secrets, Below, PrivateBelow
<1>6. \A c \in Rows : cred[c].key # fresh
  BY <1>2 DEF Secrets, Below, RowsBelow
<1>7. \A call \in late : call.key # fresh
  BY <1>2 DEF Secrets, Below, LateBelow
<1>8. maker[fresh] = None
  BY <1>1, <1>2 DEF Secrets, Below, MadeBelow
<1> QED BY <1>1, <1>2, <1>4, <1>5, <1>6, <1>7, <1>8 DEF AppPassword

(* An app password is a secret there is. *)
LEMMA AppPasswordBelow ==
  ASSUME NoneIsNoOp, IMAPIsProtocol, LimitsAreNat, LocalTypes, OpTypes, RemoteTypes, Control, References, Secrets, Creations, NEW k \in Keys, AppPassword(k)
  PROVE  k < fresh
BY DEF AppPassword, Secrets, Below, MadeBelow, RowsBelow, LateBelow

(* The secret of the call an execution makes. *)
LEMMA CallKey ==
  ASSUME NoneIsNoOp, IMAPIsProtocol, LimitsAreNat, LocalTypes, OpTypes, RemoteTypes, Control, References, Secrets, Creations, run.op # None, run.pc \in Calls
  PROVE  /\ Call \in CallRow /\ Call.name = run.pc /\ Call.op = run.op /\ run.op \in Ops /\ (Call.name # "mailbox.delete" => Call.key \in Keys)
         /\ Call.name = "credential.create" => Call.key = fresh
         /\ Call.name # "credential.create" => Call.key < fresh
         /\ Call.name = "credential.revoke" =>
              /\ AppPassword(Call.key) /\ Call.key # account.primary /\ run.old \in Rows /\ cred[run.old].key = Call.key
              /\ \A c \in Rows : cred[c].key = Call.key => cred[c].state = "revocation_pending"
         /\ Call.name \in {"mailbox.create", "mailbox.resetPassword"} => Call.key = op[run.op].private /\ ~AppPassword(Call.key)
         /\ Call.name = "mailbox.delete" => Call.key = 0
<1>1. /\ run.op \in Ops /\ Call \in CallRow /\ Call.name = run.pc /\ Call.op = run.op
      /\ run.pc = "credential.create" => Call.key = fresh
      /\ run.pc = "credential.revoke" => Call.key = cred[run.old].key /\ run.old \in Rows
      /\ run.pc = "mailbox.delete" => Call.key = 0
      /\ run.pc \in {"mailbox.create", "mailbox.resetPassword"} => Call.key = op[run.op].private
  BY CallIs
<1>2. Call.name # "mailbox.delete" => Call.key # 0 /\ Call.key \in Keys
  <2>1. Call.name # "mailbox.delete" => Call.key # 0
    BY RowHasKey
  <2> QED BY <1>1, <2>1, LimitsAreNat DEF CallRow, Keys
<1>3. Call.name # "credential.create" => Call.key < fresh
  BY <1>1, FreshIsNew DEF Secrets, Below, RowsBelow, PrivateBelow, Calls
<1>4. ASSUME run.pc = "credential.revoke"
      PROVE  /\ AppPassword(Call.key) /\ Call.key # account.primary
             /\ \A c \in Rows : cred[c].key = Call.key => cred[c].state = "revocation_pending"
  <2>1. run.old \in Rows /\ cred[run.old].source = "managed" /\ cred[run.old].state = "revocation_pending"
    BY <1>4 DEF References, OldRow, OfState, Rows
  <2>2. AppPassword(Call.key)
    BY <1>1, <1>4, <2>1 DEF AppPassword
  <2>3. Call.key # account.primary /\ \A c \in Rows : cred[c].key = Call.key => cred[c].source = "managed"
    BY <1>1, <1>2, <1>4, <2>2 DEF Secrets, Apart, ApartPrimary, ApartRows
  <2> QED BY <1>1, <1>4, <2>1, <2>2, <2>3 DEF Secrets, Distinct
<1>5. run.pc \in {"mailbox.create", "mailbox.resetPassword"} => ~AppPassword(Call.key)
  BY <1>1, <1>2 DEF Secrets, Apart, ApartOps
<1> QED BY <1>1, <1>2, <1>3, <1>4, <1>5 DEF Calls

(* The secret of a call that may still be performed. *)
LEMMA LateKey ==
  ASSUME NoneIsNoOp, IMAPIsProtocol, LimitsAreNat, LocalTypes, OpTypes, RemoteTypes, Control, References, Secrets, Creations, NEW call \in late
  PROVE  /\ call \in CallRow /\ call.key < fresh /\ call.op \in Ops /\ call.name \in Calls
         /\ call.name # "mailbox.delete" => call.key \in Keys /\ call.key # 0
         /\ call.name = "credential.revoke" => AppPassword(call.key) /\ call.key # account.primary
         /\ call.name \in {"mailbox.create", "mailbox.resetPassword"} => ~AppPassword(call.key)
<1>1. call \in CallRow /\ call.key < fresh
  BY DEF RemoteTypes, Secrets, Below, LateBelow
<1>2. call.name # "mailbox.delete" => call.key # 0 /\ call.key \in Keys
  BY <1>1, LimitsAreNat DEF Secrets, Below, LateBelow, CallRow, Keys
<1>3. call.name = "credential.revoke" => AppPassword(call.key) /\ call.key # account.primary
  BY <1>2 DEF AppPassword, Secrets, Apart, ApartPrimary
<1>4. call.name \in {"mailbox.create", "mailbox.resetPassword"} => ~AppPassword(call.key)
  BY <1>2 DEF Secrets, Apart, ApartLate
<1> QED BY <1>1, <1>2, <1>3, <1>4 DEF CallRow

\* The secrets an action brings: those of a request, of rows.
QueueKeys == /\ UNCHANGED <<account, late, maker, cred, run>> /\ fresh' \in {fresh, fresh + 1}
             /\ \A p \in Ops : /\ op'[p].private \in {0, op[p].private}
                               /\ Open(p)' => \/ Open(p) /\ op'[p].request.secret = op[p].request.secret
                                              \/ op'[p].request.secret \in {0, account.primary}
                                              \/ op'[p].request.secret = fresh /\ fresh' = fresh + 1
EnteredKeys == /\ UNCHANGED <<account, late, maker, fresh>> /\ OpsKeep /\ run'.secret \in {0, run.secret} /\ Rows \subseteq Rows'
               /\ run.op # None /\ run.op \in Ops /\ Open(run.op)
               /\ \A c \in Rows : /\ cred'[c].source = cred[c].source /\ cred'[c].key = cred[c].key
                                  /\ cred'[c].state \in {"active", "candidate"} => cred[c].state \in {"active", "candidate"}
               /\ \A c \in Rows' \ Rows : cred'[c].source = "entered" /\ cred'[c].key = op[run.op].request.secret
KeepKeys == /\ UNCHANGED <<account, late, maker, fresh>> /\ OpsKeep /\ run'.secret \in {0, run.secret} /\ Rows \subseteq Rows'
            /\ \A c \in Rows : cred'[c] = cred[c]
            /\ \A c \in Rows' \ Rows : cred'[c].source = "managed" /\ cred'[c].key = run.secret
            /\ \A c, d \in Rows' \ Rows : c = d
            /\ run.secret \in Keys /\ maker[run.secret] # None /\ NoRow(run.secret) /\ ~InLate(run.secret)
            /\ run.secret < fresh
PasswordKeys == /\ UNCHANGED <<account, late, maker, cred>> /\ fresh' \in {fresh, fresh + 1} /\ run'.secret \in {0, run.secret}
                /\ \A o \in Ops : /\ Open(o)' => Open(o) /\ op'[o].request.secret = op[o].request.secret
                                  /\ \/ op'[o].private = op[o].private
                                     \/ Open(o) /\ op'[o].private = op[o].request.secret
                                     \/ op'[o].private = fresh /\ fresh' = fresh + 1

(* The secret of a request is a password or a new one. *)
LEMMA QueueKeysHold ==
  ASSUME NoneIsNoOp, IMAPIsProtocol, LimitsAreNat, LocalTypes, OpTypes, RemoteTypes, Control, References, Secrets, Creations, NEW o \in Ops, NEW k \in Kinds, Queue(o, k)
  PROVE  QueueKeys
<1> USE NoneIsNoOp, IMAPIsProtocol, LimitsAreNat DEF vars, localVars, opVars, bounds, history, remoteVars
<1>1. PICK r \in Requests(k) : /\ r \in Request /\ fresh' = (IF r.secret = fresh THEN fresh + 1 ELSE fresh)
                               /\ Became(o, r, "queued", 0, 0, 0, 0, FALSE)
  BY QueueDoes
<1>2. UNCHANGED <<account, late, maker, cred, run>>
  BY QueueDoes
<1>3. r.secret \in {0, account.primary, fresh}
  BY RequestsAre
<1>4. op'[o].private = 0 /\ op'[o].request = r /\ \A p \in Ops \ {o} : op'[p] = op[p]
  BY <1>1 DEF Became
<1> HIDE DEF vars, localVars, opVars, bounds, history, remoteVars
<1> QED BY <1>1, <1>2, <1>3, <1>4 DEF QueueKeys, Open

(* The secret of a row that is entered is that of the request. *)
LEMMA EnteredKeysHold ==
  ASSUME NoneIsNoOp, IMAPIsProtocol, LimitsAreNat, LocalTypes, OpTypes, RemoteTypes, Control, References, Secrets, Creations, EntersRow
  PROVE  EnteredKeys
<1> USE NoneIsNoOp, IMAPIsProtocol, LimitsAreNat DEF vars, localVars, opVars, bounds, history, remoteVars
<1>1. run.op # None /\ run.op \in Ops /\ Open(run.op)
  BY SaveEnteredDoes, AttachDoes, UpdateEndpointsDoes, Running DEF EntersRow, Open, Live
<1>2. OpsKeep
  <2>1. CASE SaveEntered
    BY <2>1, SaveEnteredDoes DEF OpsKeep, Open
  <2>2. CASE Attach
    BY <2>2, AttachDoes, Running DEF OpsKeep, Open, Turned, Became
  <2>3. CASE UpdateEndpoints
    BY <2>3, UpdateEndpointsDoes, Running DEF OpsKeep, Open, Live, Ended, Became
  <2> QED BY <2>1, <2>2, <2>3 DEF EntersRow
<1>3. UNCHANGED <<account, late, maker, fresh>> /\ run'.secret \in {0, run.secret}
  BY SaveEnteredDoes, AttachDoes, UpdateEndpointsDoes DEF EntersRow, Moved, Stops, Idle
<1>4. CASE SaveEntered \/ Attach
  BY <1>1, <1>2, <1>3, <1>4, RowsEntered DEF EnteredKeys, Adds, EnteredRow, Rows
<1>5. CASE UpdateEndpoints
  <2>1. Rows \subseteq Rows' /\ \A c \in Rows : /\ cred'[c].source = cred[c].source /\ cred'[c].key = cred[c].key
                                                /\ cred'[c].state = cred[c].state \/ cred'[c].state = "retired"
    BY <1>5, RowsUpdated
  <2>2. \A c \in Rows' \ Rows : cred'[c] = EnteredRow(op[run.op].request)
    BY <1>5, RowsUpdated
  <2> QED BY <1>1, <1>2, <1>3, <2>1, <2>2 DEF EnteredKeys, EnteredRow
<1> QED BY <1>4, <1>5 DEF EntersRow

(* The secret of a candidate is the app password that was made for its operation. *)
LEMMA KeepKeysHold ==
  ASSUME NoneIsNoOp, IMAPIsProtocol, LimitsAreNat, LocalTypes, OpTypes, RemoteTypes, Control, References, Secrets, Creations, Keep
  PROVE  KeepKeys
<1> USE NoneIsNoOp, IMAPIsProtocol, LimitsAreNat DEF vars, localVars, opVars, bounds, history, remoteVars
<1>1. /\ run.op # None /\ run.op \in Ops /\ run.pc = "credential.create" /\ run.answer = "ok" /\ op[run.op].cand = 0
      /\ UNCHANGED <<account, late, maker, fresh>>
  BY KeepDoes
<1>2. run.secret \in Keys /\ maker[run.secret] = run.op /\ NoRow(run.secret) /\ ~InLate(run.secret)
  BY <1>1 DEF Creations, Returned, Arriving
<1>3. run.secret < fresh /\ maker[run.secret] # None
  BY <1>1, <1>2 DEF Secrets, Below
<1>4. OpsKeep
  BY KeepDoes, Running DEF OpsKeep, Open, Became
<1>5. /\ run'.secret \in {0, run.secret} /\ Rows \subseteq Rows' /\ \A c \in Rows : cred'[c] = cred[c]
      /\ \A c \in Rows' \ Rows : c = Len(cred) + 1 /\ cred'[c].source = "managed" /\ cred'[c].key = run.secret
  BY KeepDoes DEF Adds, Rows, Moved
<1> QED BY <1>1, <1>2, <1>3, <1>4, <1>5 DEF KeepKeys

(* A password is the one that was entered or a new one. *)
LEMMA PasswordKeysHold ==
  ASSUME NoneIsNoOp, IMAPIsProtocol, LimitsAreNat, LocalTypes, OpTypes, RemoteTypes, Control, References, Secrets, Creations, Reserve \/ Password
  PROVE  PasswordKeys
<1> USE NoneIsNoOp, IMAPIsProtocol, LimitsAreNat DEF vars, localVars, opVars, bounds, history, remoteVars
<1>1. CASE Reserve
  <2>1. UNCHANGED <<account, late, maker, cred>> /\ run'.secret \in {0, run.secret} /\ run.op # None /\ run.op \in Ops
    BY <1>1, ReserveDoes DEF Moved
  <2>2. Open(run.op)
    BY <2>1, Running DEF Open, Live
  <2>3. CASE UNCHANGED <<op, fresh>>
    BY <2>1, <2>3 DEF PasswordKeys, Open
  <2>4. CASE \E k \in 0..MaxKeys :
                 /\ k = IF op[run.op].private # 0 THEN op[run.op].private
                        ELSE IF op[run.op].request.entered THEN op[run.op].request.secret ELSE fresh
                 /\ fresh' = (IF k = fresh THEN fresh + 1 ELSE fresh)
                 /\ op'[run.op].private = k /\ op'[run.op].request = op[run.op].request /\ op'[run.op].status = op[run.op].status
                 /\ \A p \in Ops \ {run.op} : op'[p] = op[p]
    <3>1. PICK k \in 0..MaxKeys :
                 /\ k = IF op[run.op].private # 0 THEN op[run.op].private
                        ELSE IF op[run.op].request.entered THEN op[run.op].request.secret ELSE fresh
                 /\ fresh' = (IF k = fresh THEN fresh + 1 ELSE fresh)
                 /\ op'[run.op].private = k /\ op'[run.op].request = op[run.op].request /\ op'[run.op].status = op[run.op].status
                 /\ \A p \in Ops \ {run.op} : op'[p] = op[p]
      BY <2>4
    <3>2. fresh' \in {fresh, fresh + 1}
      BY <3>1
    <3>3. \/ op'[run.op].private = op[run.op].private \/ op'[run.op].private = op[run.op].request.secret
          \/ op'[run.op].private = fresh /\ fresh' = fresh + 1
      BY <3>1
    <3>4. \A o \in Ops : Open(o)' => Open(o) /\ op'[o].request.secret = op[o].request.secret
      BY <3>1 DEF Open
    <3>5. \A p \in Ops \ {run.op} : op'[p] = op[p]
      BY <3>1
    <3> QED BY <2>1, <2>2, <3>2, <3>3, <3>4, <3>5 DEF PasswordKeys
  <2> QED BY <1>1, <2>3, <2>4, ReserveDoes DEF Became
<1>2. CASE Password
  <2>1. UNCHANGED <<account, late, maker, cred>> /\ run'.secret \in {0, run.secret} /\ run.op # None /\ run.op \in Ops
    BY <1>2, PasswordDoes DEF Moved
  <2>2. CASE UNCHANGED <<op, fresh>>
    BY <2>1, <2>2 DEF PasswordKeys, Open
  <2>3. CASE /\ fresh' = fresh + 1 /\ op'[run.op].private = fresh /\ op'[run.op].request = op[run.op].request
             /\ op'[run.op].status = op[run.op].status /\ \A p \in Ops \ {run.op} : op'[p] = op[p]
    BY <2>1, <2>3 DEF PasswordKeys, Open
  <2> QED BY <1>2, <2>2, <2>3, PasswordDoes DEF Became
<1> QED BY <1>1, <1>2

-----------------------------------------------------------------------------
(* Secrets stay apart. *)

(* No secret is accepted before it is made. *)
LEMMA AcceptedBelowStep ==
  ASSUME NoneIsNoOp, IMAPIsProtocol, LimitsAreNat, LocalTypes, OpTypes, RemoteTypes, Control, References, Secrets, Creations, Next
  PROVE  AcceptedBelow'
<1> USE NoneIsNoOp, IMAPIsProtocol, LimitsAreNat DEF vars, localVars, opVars, bounds, history, remoteVars
<1>f. fresh \in Nat /\ fresh \in Keys
  BY FreshIsNew
<1>k. \A k \in account.accepted : k \in Nat
  BY LimitsAreNat DEF RemoteTypes, Account, Keys
<1>1. ASSUME KeysSame PROVE AcceptedBelow'
  BY <1>1 DEF Secrets, Below, AcceptedBelow, KeysSame
<1>2. ASSUME NEW o \in Ops, NEW k \in Kinds, Queue(o, k) PROVE AcceptedBelow'
  <2>1. QueueKeys BY <1>2, QueueKeysHold
  <2> QED BY <1>f, <1>k, <2>1 DEF Secrets, Below, AcceptedBelow, QueueKeys
<1>3. ASSUME Provider PROVE AcceptedBelow'
  <2>1. /\ run.op # None /\ run.pc \in Calls /\ (Perform(Call) \/ UNCHANGED <<account, lost, setter>>)
        /\ late' = late \/ late' = late \cup {Call}
        /\ run.pc = "credential.create" => fresh' = fresh + 1
        /\ run.pc # "credential.create" => fresh' = fresh
        /\ UNCHANGED <<localVars, op, step, named>>
    BY <1>3, ProviderDoes
  <2>2. /\ Call \in CallRow /\ (Call.name # "mailbox.delete" => Call.key # 0) /\ Call.name = run.pc
        /\ Call.name = "credential.create" => Call.key = fresh
        /\ Call.name # "credential.create" => Call.key < fresh
    BY <2>1, CallKey DEF Keys
  <2>3. CASE Perform(Call)
    <3>1. \A k \in account'.accepted : k \in account.accepted \/ k = Call.key
      BY <2>2, <2>3, PerformDoes DEF CallRow, Calls
    <3> QED BY <1>f, <1>k, <2>1, <2>2, <3>1 DEF Secrets, Below, AcceptedBelow
  <2>4. CASE UNCHANGED account
    BY <1>f, <1>k, <2>1, <2>4 DEF Secrets, Below, AcceptedBelow
  <2> QED BY <2>1, <2>3, <2>4
<1>4. ASSUME Keep PROVE AcceptedBelow'
  <2>1. KeepKeys BY <1>4, KeepKeysHold
  <2> QED BY <2>1 DEF Secrets, Below, AcceptedBelow, KeepKeys
<1>5. ASSUME Reserve \/ Password PROVE AcceptedBelow'
  <2>1. PasswordKeys BY <1>5, PasswordKeysHold
  <2> QED BY <1>f, <1>k, <2>1 DEF Secrets, Below, AcceptedBelow, PasswordKeys
<1>6. ASSUME Land PROVE AcceptedBelow'
  <2>1. PICK call \in late : /\ late' = late \ {call} /\ UNCHANGED <<localVars, opVars, fresh, maker, named>>
                             /\ Perform(call) \/ UNCHANGED <<account, lost, setter>>
    BY <1>6, LandDoes
  <2>2. /\ call \in CallRow /\ call.key < fresh /\ (call.name # "mailbox.delete" => call.key # 0)
    BY LateKey
  <2>3. CASE Perform(call)
    <3>1. \A k \in account'.accepted : k \in account.accepted \/ k = call.key
      BY <2>2, <2>3, PerformDoes DEF CallRow, Calls
    <3> QED BY <2>1, <2>2, <3>1 DEF Secrets, Below, AcceptedBelow
  <2> QED BY <2>1, <2>3 DEF Secrets, Below, AcceptedBelow
<1>7. ASSUME Foreign PROVE AcceptedBelow'
  BY <1>7, ForeignDoes DEF Secrets, Below, AcceptedBelow
<1>8. ASSUME EntersRow PROVE AcceptedBelow'
  <2>1. EnteredKeys BY <1>8, EnteredKeysHold
  <2> QED BY <2>1 DEF Secrets, Below, AcceptedBelow, EnteredKeys
<1>9. ASSUME Unregister PROVE AcceptedBelow'
  BY <1>9, UnregisterDoes DEF Secrets, Below, AcceptedBelow
<1> QED BY <1>1, <1>2, <1>3, <1>4, <1>5, <1>6, <1>7, <1>8, <1>9, KeysKept DEF KeysMove

(* Rows are about secrets there are. *)
LEMMA RowsBelowStep ==
  ASSUME NoneIsNoOp, IMAPIsProtocol, LimitsAreNat, LocalTypes, OpTypes, RemoteTypes, Control, References, Secrets, Creations, Next
  PROVE  RowsBelow'
<1> USE NoneIsNoOp, IMAPIsProtocol, LimitsAreNat DEF vars, localVars, opVars, bounds, history, remoteVars
<1>f. fresh \in Nat /\ fresh \in Keys
  BY FreshIsNew
<1>k. \A c \in Rows : cred[c].key \in Nat
  <2>1. \A c \in Rows : cred[c] \in RowOf
    BY DEF LocalTypes, Rows
  <2> QED BY <2>1, LimitsAreNat DEF RowOf
<1>1. ASSUME KeysSame PROVE RowsBelow'
  BY <1>1 DEF Secrets, Below, RowsBelow, KeysSame, RowsKeep
<1>2. ASSUME NEW o \in Ops, NEW k \in Kinds, Queue(o, k) PROVE RowsBelow'
  <2>1. QueueKeys BY <1>2, QueueKeysHold
  <2> QED BY <1>f, <1>k, <2>1 DEF Secrets, Below, RowsBelow, QueueKeys, Rows
<1>3. ASSUME Provider PROVE RowsBelow'
  <2>1. /\ run.op # None /\ run.pc \in Calls /\ (Perform(Call) \/ UNCHANGED <<account, lost, setter>>)
        /\ late' = late \/ late' = late \cup {Call}
        /\ run.pc = "credential.create" => fresh' = fresh + 1
        /\ run.pc # "credential.create" => fresh' = fresh
        /\ UNCHANGED <<localVars, op, step, named>>
    BY <1>3, ProviderDoes
  <2> QED BY <1>f, <1>k, <2>1 DEF Secrets, Below, RowsBelow, Rows
<1>4. ASSUME Keep PROVE RowsBelow'
  <2>1. KeepKeys BY <1>4, KeepKeysHold
  <2>2. run.secret # 0 /\ run.secret < fresh
    BY <2>1 DEF KeepKeys, Keys
  <2> QED BY <2>1, <2>2 DEF Secrets, Below, RowsBelow, KeepKeys
<1>5. ASSUME Reserve \/ Password PROVE RowsBelow'
  <2>1. PasswordKeys BY <1>5, PasswordKeysHold
  <2> QED BY <1>f, <1>k, <2>1 DEF Secrets, Below, RowsBelow, PasswordKeys, Rows
<1>6. ASSUME Land PROVE RowsBelow'
  BY <1>6, LandDoes DEF Secrets, Below, RowsBelow, Rows
<1>7. ASSUME Foreign PROVE RowsBelow'
  BY <1>7, ForeignDoes DEF Secrets, Below, RowsBelow, Rows
<1>8. ASSUME EntersRow PROVE RowsBelow'
  <2>1. EnteredKeys BY <1>8, EnteredKeysHold
  <2>2. op[run.op].request.secret < fresh
    BY <2>1 DEF EnteredKeys, Secrets, Below, PrivateBelow
  <2> QED BY <2>1, <2>2 DEF Secrets, Below, RowsBelow, EnteredKeys
<1>9. ASSUME Unregister PROVE RowsBelow'
  BY <1>9, UnregisterDoes DEF Secrets, Below, RowsBelow, Rows
<1> QED BY <1>1, <1>2, <1>3, <1>4, <1>5, <1>6, <1>7, <1>8, <1>9, KeysKept DEF KeysMove

(* Operations are about secrets there are. *)
LEMMA PrivateBelowStep ==
  ASSUME NoneIsNoOp, IMAPIsProtocol, LimitsAreNat, LocalTypes, OpTypes, RemoteTypes, Control, References, Secrets, Creations, Next
  PROVE  PrivateBelow'
<1> USE NoneIsNoOp, IMAPIsProtocol, LimitsAreNat DEF vars, localVars, opVars, bounds, history, remoteVars
<1>f. fresh \in Nat /\ fresh \in Keys
  BY FreshIsNew
<1>z. 0 < fresh
  BY <1>f DEF Keys
<1>k. \A o \in Ops : op[o].private \in Nat /\ (Open(o) => op[o].request.secret \in Nat)
  <2>1. \A o \in Ops : op[o].private \in 0..MaxKeys
    BY DEF OpTypes, OpRow
  <2>2. \A o \in Ops : Open(o) => op[o].request.secret \in 0..MaxKeys
    BY DEF Control, Requested, Request
  <2> QED BY <2>1, <2>2
<1>1. ASSUME KeysSame PROVE PrivateBelow'
  <2>2. OpsKeep /\ fresh' = fresh
    BY <1>1 DEF KeysSame, KeepKeys, EnteredKeys
  <2>3. \A o \in Ops : op'[o].private < fresh
    BY <1>f, <1>k, <1>z, <2>2 DEF OpsKeep, Secrets, Below, PrivateBelow
  <2>4. \A o \in Ops : Open(o)' => op'[o].request.secret < fresh
    BY <1>f, <1>k, <2>2 DEF OpsKeep, Secrets, Below, PrivateBelow
  <2> QED BY <2>2, <2>3, <2>4 DEF PrivateBelow
<1>2. ASSUME NEW o \in Ops, NEW k \in Kinds, Queue(o, k) PROVE PrivateBelow'
  <2>1. QueueKeys BY <1>2, QueueKeysHold
  <2>2. account.primary < fresh /\ 0 < fresh /\ account.primary \in Nat
    BY <1>f, FreshIsNew DEF RemoteTypes, Account
  <2>3. \A p \in Ops : op'[p].private < fresh'
    BY <1>f, <1>k, <2>1, <2>2 DEF Secrets, Below, PrivateBelow, QueueKeys
  <2>4. \A p \in Ops : Open(p)' => op'[p].request.secret < fresh'
    BY <1>f, <1>k, <2>1, <2>2 DEF Secrets, Below, PrivateBelow, QueueKeys
  <2> QED BY <2>3, <2>4 DEF PrivateBelow
<1>3. ASSUME Provider PROVE PrivateBelow'
  <2>1. /\ run.op # None /\ run.pc \in Calls /\ (Perform(Call) \/ UNCHANGED <<account, lost, setter>>)
        /\ late' = late \/ late' = late \cup {Call}
        /\ run.pc = "credential.create" => fresh' = fresh + 1
        /\ run.pc # "credential.create" => fresh' = fresh
        /\ UNCHANGED <<localVars, op, step, named>>
    BY <1>3, ProviderDoes
  <2> QED BY <1>f, <1>k, <2>1 DEF Secrets, Below, PrivateBelow, Open
<1>4. ASSUME Keep PROVE PrivateBelow'
  <2>1. KeepKeys BY <1>4, KeepKeysHold
  <2>2. OpsKeep /\ fresh' = fresh
    BY <2>1 DEF KeysSame, KeepKeys, EnteredKeys
  <2>3. \A o \in Ops : op'[o].private < fresh
    BY <1>f, <1>k, <1>z, <2>2 DEF OpsKeep, Secrets, Below, PrivateBelow
  <2>4. \A o \in Ops : Open(o)' => op'[o].request.secret < fresh
    BY <1>f, <1>k, <2>2 DEF OpsKeep, Secrets, Below, PrivateBelow
  <2> QED BY <2>2, <2>3, <2>4 DEF PrivateBelow
<1>5. ASSUME Reserve \/ Password PROVE PrivateBelow'
  <2>1. PasswordKeys BY <1>5, PasswordKeysHold
  <2>3. \A o \in Ops : op'[o].private < fresh'
    BY <1>f, <1>k, <2>1 DEF Secrets, Below, PrivateBelow, PasswordKeys
  <2>4. \A o \in Ops : Open(o)' => op'[o].request.secret < fresh'
    BY <1>f, <1>k, <2>1 DEF Secrets, Below, PrivateBelow, PasswordKeys
  <2> QED BY <2>3, <2>4 DEF PrivateBelow
<1>6. ASSUME Land PROVE PrivateBelow'
  BY <1>6, LandDoes DEF Secrets, Below, PrivateBelow, Open
<1>7. ASSUME Foreign PROVE PrivateBelow'
  BY <1>7, ForeignDoes DEF Secrets, Below, PrivateBelow, Open
<1>8. ASSUME EntersRow PROVE PrivateBelow'
  <2>1. EnteredKeys BY <1>8, EnteredKeysHold
  <2>2. OpsKeep /\ fresh' = fresh
    BY <2>1 DEF KeysSame, KeepKeys, EnteredKeys
  <2>3. \A o \in Ops : op'[o].private < fresh
    BY <1>f, <1>k, <1>z, <2>2 DEF OpsKeep, Secrets, Below, PrivateBelow
  <2>4. \A o \in Ops : Open(o)' => op'[o].request.secret < fresh
    BY <1>f, <1>k, <2>2 DEF OpsKeep, Secrets, Below, PrivateBelow
  <2> QED BY <2>2, <2>3, <2>4 DEF PrivateBelow
<1>9. ASSUME Unregister PROVE PrivateBelow'
  BY <1>9, UnregisterDoes DEF Secrets, Below, PrivateBelow, Open
<1> QED BY <1>1, <1>2, <1>3, <1>4, <1>5, <1>6, <1>7, <1>8, <1>9, KeysKept DEF KeysMove

(* Calls are about secrets there are. *)
LEMMA LateBelowStep ==
  ASSUME NoneIsNoOp, IMAPIsProtocol, LimitsAreNat, LocalTypes, OpTypes, RemoteTypes, Control, References, Secrets, Creations, Next
  PROVE  LateBelow'
<1> USE NoneIsNoOp, IMAPIsProtocol, LimitsAreNat DEF vars, localVars, opVars, bounds, history, remoteVars
<1>f. fresh \in Nat /\ fresh \in Keys
  BY FreshIsNew
<1>k. \A call \in late : call.key \in Nat
  BY LimitsAreNat DEF RemoteTypes, CallRow
<1>1. ASSUME KeysSame PROVE LateBelow'
  BY <1>1 DEF Secrets, Below, LateBelow, KeysSame
<1>2. ASSUME NEW o \in Ops, NEW k \in Kinds, Queue(o, k) PROVE LateBelow'
  <2>1. QueueKeys BY <1>2, QueueKeysHold
  <2> QED BY <1>f, <1>k, <2>1 DEF Secrets, Below, LateBelow, QueueKeys
<1>3. ASSUME Provider PROVE LateBelow'
  <2>1. /\ run.op # None /\ run.pc \in Calls /\ (Perform(Call) \/ UNCHANGED <<account, lost, setter>>)
        /\ late' = late \/ late' = late \cup {Call}
        /\ run.pc = "credential.create" => fresh' = fresh + 1
        /\ run.pc # "credential.create" => fresh' = fresh
        /\ UNCHANGED <<localVars, op, step, named>>
    BY <1>3, ProviderDoes
  <2>2. /\ (Call.name # "mailbox.delete" => Call.key # 0) /\ Call.name = run.pc /\ Call.key \in Nat
        /\ Call.name = "credential.create" => Call.key = fresh
        /\ Call.name # "credential.create" => Call.key < fresh
    BY <2>1, CallKey, LimitsAreNat DEF Keys, CallRow
  <2>3. Call.key < fresh'
    BY <1>f, <2>1, <2>2
  <2> QED BY <1>f, <1>k, <2>1, <2>2, <2>3 DEF Secrets, Below, LateBelow
<1>4. ASSUME Keep PROVE LateBelow'
  <2>1. KeepKeys BY <1>4, KeepKeysHold
  <2> QED BY <2>1 DEF Secrets, Below, LateBelow, KeepKeys
<1>5. ASSUME Reserve \/ Password PROVE LateBelow'
  <2>1. PasswordKeys BY <1>5, PasswordKeysHold
  <2> QED BY <1>f, <1>k, <2>1 DEF Secrets, Below, LateBelow, PasswordKeys
<1>6. ASSUME Land PROVE LateBelow'
  <2>1. PICK call \in late : /\ late' = late \ {call} /\ UNCHANGED <<localVars, opVars, fresh, maker, named>>
                             /\ Perform(call) \/ UNCHANGED <<account, lost, setter>>
    BY <1>6, LandDoes
  <2> QED BY <2>1 DEF Secrets, Below, LateBelow
<1>7. ASSUME Foreign PROVE LateBelow'
  BY <1>7, ForeignDoes DEF Secrets, Below, LateBelow
<1>8. ASSUME EntersRow PROVE LateBelow'
  <2>1. EnteredKeys BY <1>8, EnteredKeysHold
  <2> QED BY <2>1 DEF Secrets, Below, LateBelow, EnteredKeys
<1>9. ASSUME Unregister PROVE LateBelow'
  BY <1>9, UnregisterDoes DEF Secrets, Below, LateBelow
<1> QED BY <1>1, <1>2, <1>3, <1>4, <1>5, <1>6, <1>7, <1>8, <1>9, KeysKept DEF KeysMove

(* What is made and what is returned are secrets there are. *)
LEMMA MadeBelowStep ==
  ASSUME NoneIsNoOp, IMAPIsProtocol, LimitsAreNat, LocalTypes, OpTypes, RemoteTypes, Control, References, Secrets, Creations, Next
  PROVE  MadeBelow' /\ run'.secret < fresh'
<1> USE NoneIsNoOp, IMAPIsProtocol, LimitsAreNat DEF vars, localVars, opVars, bounds, history, remoteVars
<1>f. fresh \in Nat /\ fresh \in Keys
  BY FreshIsNew
<1>k. (\A k \in Keys : k \in Nat) /\ run.secret \in Nat
  BY LimitsAreNat DEF Keys, OpTypes, RunRow
<1>1. ASSUME KeysSame PROVE MadeBelow' /\ run'.secret < fresh'
  BY <1>f, <1>1 DEF Secrets, Below, MadeBelow, KeysSame, Keys
<1>2. ASSUME NEW o \in Ops, NEW k \in Kinds, Queue(o, k) PROVE MadeBelow' /\ run'.secret < fresh'
  <2>1. QueueKeys BY <1>2, QueueKeysHold
  <2> QED BY <1>f, <1>k, <2>1 DEF Secrets, Below, MadeBelow, QueueKeys
<1>3. ASSUME Provider PROVE MadeBelow' /\ run'.secret < fresh'
  <2>1. run'.secret = IF run.pc = "credential.create" THEN fresh ELSE 0
    BY <1>3, ProviderDoes DEF Moved
  <2>2. CASE run.pc = "credential.create"
    <3>1. fresh' = fresh + 1 /\ \A k \in Keys : k # fresh => maker'[k] = maker[k]
      BY <2>2, <1>3, ProviderDoes
    <3>2. \A k \in Keys : maker'[k] # None => k = fresh \/ k < fresh
      BY <3>1 DEF Secrets, Below, MadeBelow
    <3>3. \A k \in Keys : maker'[k] # None => k < fresh'
      BY <1>f, <1>k, <3>1, <3>2
    <3>4. run'.secret = fresh /\ fresh < fresh'
      BY <1>f, <2>1, <2>2, <3>1
    <3> QED BY <3>3, <3>4 DEF MadeBelow
  <2>3. CASE run.pc # "credential.create"
    <3>1. fresh' = fresh /\ maker' = maker
      BY <2>3, <1>3, ProviderDoes
    <3> QED BY <1>f, <2>1, <2>3, <3>1 DEF Secrets, Below, MadeBelow, Keys
  <2> QED BY <2>2, <2>3
<1>4. ASSUME Keep PROVE MadeBelow' /\ run'.secret < fresh'
  <2>1. KeepKeys BY <1>4, KeepKeysHold
  <2> QED BY <1>f, <2>1 DEF Secrets, Below, MadeBelow, KeepKeys, Keys
<1>5. ASSUME Reserve \/ Password PROVE MadeBelow' /\ run'.secret < fresh'
  <2>1. PasswordKeys BY <1>5, PasswordKeysHold
  <2> QED BY <1>f, <1>k, <2>1 DEF Secrets, Below, MadeBelow, PasswordKeys, Keys
<1>6. ASSUME Land PROVE MadeBelow' /\ run'.secret < fresh'
  BY <1>6, LandDoes DEF Secrets, Below, MadeBelow
<1>7. ASSUME Foreign PROVE MadeBelow' /\ run'.secret < fresh'
  BY <1>7, ForeignDoes DEF Secrets, Below, MadeBelow
<1>8. ASSUME EntersRow PROVE MadeBelow' /\ run'.secret < fresh'
  <2>1. EnteredKeys BY <1>8, EnteredKeysHold
  <2> QED BY <1>f, <2>1 DEF Secrets, Below, MadeBelow, EnteredKeys, Keys
<1>9. ASSUME Unregister PROVE MadeBelow' /\ run'.secret < fresh'
  BY <1>9, UnregisterDoes DEF Secrets, Below, MadeBelow
<1> QED BY <1>1, <1>2, <1>3, <1>4, <1>5, <1>6, <1>7, <1>8, <1>9, KeysKept DEF KeysMove

-----------------------------------------------------------------------------
(* App passwords and passwords stay apart. *)

(* App passwords only come from their creation. *)
LEMMA AppPasswordKept ==
  ASSUME NoneIsNoOp, IMAPIsProtocol, LimitsAreNat, LocalTypes, OpTypes, RemoteTypes, Control, References, Secrets, Creations, Next, NEW k \in Keys, AppPassword(k)'
  PROVE  AppPassword(k) \/ (k = fresh /\ Provider /\ run.pc = "credential.create")
<1> USE NoneIsNoOp, IMAPIsProtocol, LimitsAreNat DEF vars, localVars, opVars, bounds, history, remoteVars
<1>1. ASSUME KeysSame PROVE AppPassword(k) \/ (k = fresh /\ Provider /\ run.pc = "credential.create")
  BY <1>1 DEF AppPassword, KeysSame, RowsKeep
<1>2. ASSUME NEW o \in Ops, NEW kd \in Kinds, Queue(o, kd) PROVE AppPassword(k) \/ (k = fresh /\ Provider /\ run.pc = "credential.create")
  <2>1. QueueKeys BY <1>2, QueueKeysHold
  <2> QED BY <2>1 DEF AppPassword, Rows, QueueKeys
<1>3. ASSUME Provider PROVE AppPassword(k) \/ (k = fresh /\ Provider /\ run.pc = "credential.create")
  <2>1. /\ run.op # None /\ run.pc \in Calls /\ (late' = late \/ late' = late \cup {Call}) /\ UNCHANGED cred
        /\ \A j \in Keys : maker'[j] # None => maker[j] # None \/ (j = fresh /\ run.pc = "credential.create")
    BY <1>3, ProviderDoes
  <2>2. Call.name = "credential.revoke" => AppPassword(Call.key)
    BY <2>1, CallKey
  <2> QED BY <1>3, <2>1, <2>2 DEF AppPassword, Rows
<1>4. ASSUME Keep PROVE AppPassword(k) \/ (k = fresh /\ Provider /\ run.pc = "credential.create")
  <2>1. KeepKeys BY <1>4, KeepKeysHold
  <2> QED BY <2>1 DEF AppPassword, KeepKeys
<1>5. ASSUME Reserve \/ Password PROVE AppPassword(k) \/ (k = fresh /\ Provider /\ run.pc = "credential.create")
  <2>1. PasswordKeys BY <1>5, PasswordKeysHold
  <2> QED BY <2>1 DEF AppPassword, Rows, PasswordKeys
<1>6. ASSUME Land PROVE AppPassword(k) \/ (k = fresh /\ Provider /\ run.pc = "credential.create")
  <2>1. PICK call \in late : /\ late' = late \ {call} /\ UNCHANGED <<localVars, opVars, fresh, maker, named>>
                             /\ Perform(call) \/ UNCHANGED <<account, lost, setter>>
    BY <1>6, LandDoes
  <2> QED BY <2>1 DEF AppPassword, Rows
<1>7. ASSUME Foreign PROVE AppPassword(k) \/ (k = fresh /\ Provider /\ run.pc = "credential.create")
  BY <1>7, ForeignDoes DEF AppPassword, Rows
<1>8. ASSUME EntersRow PROVE AppPassword(k) \/ (k = fresh /\ Provider /\ run.pc = "credential.create")
  <2>1. EnteredKeys BY <1>8, EnteredKeysHold
  <2> QED BY <2>1 DEF AppPassword, EnteredKeys
<1>9. ASSUME Unregister PROVE AppPassword(k) \/ (k = fresh /\ Provider /\ run.pc = "credential.create")
  BY <1>9, UnregisterDoes DEF AppPassword, Rows
<1> QED BY <1>1, <1>2, <1>3, <1>4, <1>5, <1>6, <1>7, <1>8, <1>9, KeysKept DEF KeysMove

(* The password is accepted, and nothing is unless the mailbox exists. *)
LEMMA BalancePerformed ==
  ASSUME NoneIsNoOp, IMAPIsProtocol, LimitsAreNat, LocalTypes, OpTypes, RemoteTypes, Control, References, Secrets, Creations, NEW call \in CallRow, call.name # "mailbox.delete" => call.key # 0, Perform(call), Possible(call),
         call.name = "credential.revoke" => call.key # account.primary
  PROVE  Balance'
<1> USE NoneIsNoOp, IMAPIsProtocol, LimitsAreNat DEF vars, localVars, opVars, bounds, history, remoteVars
<1>1. call.name \in Calls /\ account.primary \in account.accepted \cup {0} /\ (account.exists \/ account.accepted = {})
  BY DEF CallRow, Secrets, Balance
<1>2. account'.exists \/ call.name = "mailbox.delete"
  <2>1. account'.exists = (call.name = "mailbox.create" \/ (call.name # "mailbox.delete" /\ account.exists))
    BY PerformDoes
  <2>2. call.name = "mailbox.create" \/ account.exists
    BY DEF Possible, RemoteTypes, Account
  <2> QED BY <2>1, <2>2
<1>3. call.name = "mailbox.delete" => \A k : k \notin account'.accepted
  BY PerformDoes
<1>4. account'.primary \in account'.accepted \cup {0}
  BY <1>1, PerformDoes DEF Calls
<1> QED BY <1>2, <1>3, <1>4 DEF Balance

(* So it stays. *)
LEMMA BalanceStep ==
  ASSUME NoneIsNoOp, IMAPIsProtocol, LimitsAreNat, LocalTypes, OpTypes, RemoteTypes, Control, References, Secrets, Creations, Next
  PROVE  Balance'
<1> USE NoneIsNoOp, IMAPIsProtocol, LimitsAreNat DEF vars, localVars, opVars, bounds, history, remoteVars
<1>1. ASSUME KeysSame PROVE Balance'
  BY <1>1 DEF Secrets, Balance, KeysSame
<1>2. ASSUME NEW o \in Ops, NEW k \in Kinds, Queue(o, k) PROVE Balance'
  <2>1. QueueKeys BY <1>2, QueueKeysHold
  <2> QED BY <2>1 DEF Secrets, Balance, QueueKeys
<1>3. ASSUME Provider PROVE Balance'
  <2>1. run.op # None /\ run.pc \in Calls /\ Possible(Call) /\ (Perform(Call) \/ UNCHANGED account)
    BY <1>3, ProviderDoes
  <2>2. CASE Perform(Call)
    <3>1. Call.name = "credential.revoke" => Call.key # account.primary
      BY <2>1, CallKey
    <3>2. Call \in CallRow /\ (Call.name # "mailbox.delete" => Call.key # 0)
      BY <2>1, CallKey DEF Keys
    <3> QED BY <2>1, <2>2, <3>1, <3>2, BalancePerformed
  <2> QED BY <2>1, <2>2 DEF Secrets, Balance
<1>4. ASSUME Keep PROVE Balance'
  <2>1. KeepKeys BY <1>4, KeepKeysHold
  <2> QED BY <2>1 DEF Secrets, Balance, KeepKeys
<1>5. ASSUME Reserve \/ Password PROVE Balance'
  <2>1. PasswordKeys BY <1>5, PasswordKeysHold
  <2> QED BY <2>1 DEF Secrets, Balance, PasswordKeys
<1>6. ASSUME Land PROVE Balance'
  <2>1. PICK call \in late : (Possible(call) /\ Perform(call)) \/ (~Possible(call) /\ UNCHANGED account)
    BY <1>6, LandDoes
  <2>2. CASE Possible(call) /\ Perform(call)
    BY <2>2, LateKey, BalancePerformed
  <2> QED BY <2>1, <2>2 DEF Secrets, Balance
<1>7. ASSUME Foreign PROVE Balance'
  <2>1. PICK k \in account.accepted : /\ \A j : j \in account'.accepted <=> j \in account.accepted /\ j # k
                                     /\ account'.primary = (IF account.primary = k THEN 0 ELSE account.primary)
    BY <1>7, ForeignDoes
  <2>2. account'.exists = account.exists
    BY <1>7, ForeignDoes
  <2> QED BY <2>1, <2>2 DEF Secrets, Balance
<1>8. ASSUME EntersRow PROVE Balance'
  <2>1. EnteredKeys BY <1>8, EnteredKeysHold
  <2> QED BY <2>1 DEF Secrets, Balance, EnteredKeys
<1>9. ASSUME Unregister PROVE Balance'
  BY <1>9, UnregisterDoes DEF Secrets, Balance
<1> QED BY <1>1, <1>2, <1>3, <1>4, <1>5, <1>6, <1>7, <1>8, <1>9, KeysKept DEF KeysMove

(* No app password is the password. *)
LEMMA ApartPrimaryStep ==
  ASSUME NoneIsNoOp, IMAPIsProtocol, LimitsAreNat, LocalTypes, OpTypes, RemoteTypes, Control, References, Secrets, Creations, Next
  PROVE  ApartPrimary'
<1> USE NoneIsNoOp, IMAPIsProtocol, LimitsAreNat DEF vars, localVars, opVars, bounds, history, remoteVars
<1> SUFFICES ASSUME NEW k \in Keys, AppPassword(k)' PROVE account'.primary # k
  BY DEF ApartPrimary
<1>a. AppPassword(k) \/ (k = fresh /\ Provider /\ run.pc = "credential.create")
  BY AppPasswordKept
<1>n. k # 0
  BY LimitsAreNat DEF Keys
<1>c. account.primary # k
  BY <1>a, FreshIsNew DEF Secrets, Apart, ApartPrimary
<1>1. ASSUME KeysSame PROVE account'.primary # k
  BY <1>c, <1>1 DEF KeysSame
<1>2. ASSUME NEW o \in Ops, NEW kd \in Kinds, Queue(o, kd) PROVE account'.primary # k
  <2>1. QueueKeys BY <1>2, QueueKeysHold
  <2> QED BY <2>1, <1>c DEF Secrets, QueueKeys
<1>3. ASSUME Provider PROVE account'.primary # k
  <2>1. run.op # None /\ run.pc \in Calls /\ (Perform(Call) \/ UNCHANGED account)
    BY <1>3, ProviderDoes
  <2>2. /\ Call \in CallRow /\ (Call.name # "mailbox.delete" => Call.key # 0)
        /\ Call.name \in {"mailbox.create", "mailbox.resetPassword"} => Call.key # k
    <3>1. Call \in CallRow /\ (Call.name # "mailbox.delete" => Call.key # 0) /\ Call.name = run.pc
      BY <2>1, CallKey DEF Keys
    <3>2. Call.name \in {"mailbox.create", "mailbox.resetPassword"} => ~AppPassword(Call.key)
      BY <2>1, CallKey
    <3> QED BY <1>a, <3>1, <3>2
  <2>3. CASE Perform(Call)
    BY <1>c, <1>n, <2>1, <2>2, <2>3, PerformDoes
  <2> QED BY <1>c, <2>1, <2>3
<1>4. ASSUME Keep PROVE account'.primary # k
  <2>1. KeepKeys BY <1>4, KeepKeysHold
  <2> QED BY <2>1, <1>c DEF Secrets, KeepKeys
<1>5. ASSUME Reserve \/ Password PROVE account'.primary # k
  <2>1. PasswordKeys BY <1>5, PasswordKeysHold
  <2> QED BY <2>1, <1>c DEF Secrets, PasswordKeys
<1>6. ASSUME Land PROVE account'.primary # k
  <2>1. PICK call \in late : Perform(call) \/ UNCHANGED account
    BY <1>6, LandDoes
  <2>2. /\ call \in CallRow /\ (call.name # "mailbox.delete" => call.key # 0)
        /\ call.name \in {"mailbox.create", "mailbox.resetPassword"} => call.key # k
    <3>1. call.key # fresh
      BY FreshIsNew
    <3> QED BY <1>a, <3>1, LateKey
  <2>3. CASE Perform(call)
    BY <1>c, <1>n, <2>1, <2>2, <2>3, PerformDoes
  <2> QED BY <1>c, <2>1, <2>3
<1>7. ASSUME Foreign PROVE account'.primary # k
  BY <1>c, <1>n, <1>7, ForeignDoes
<1>8. ASSUME EntersRow PROVE account'.primary # k
  <2>1. EnteredKeys BY <1>8, EnteredKeysHold
  <2> QED BY <2>1, <1>c DEF Secrets, EnteredKeys
<1>9. ASSUME Unregister PROVE account'.primary # k
  BY <1>c, <1>9, UnregisterDoes
<1> QED BY <1>1, <1>2, <1>3, <1>4, <1>5, <1>6, <1>7, <1>8, <1>9, KeysKept DEF KeysMove

(* No operation has an app password for a password. *)
LEMMA ApartOpsStep ==
  ASSUME NoneIsNoOp, IMAPIsProtocol, LimitsAreNat, LocalTypes, OpTypes, RemoteTypes, Control, References, Secrets, Creations, Next
  PROVE  ApartOps'
<1> USE NoneIsNoOp, IMAPIsProtocol, LimitsAreNat DEF vars, localVars, opVars, bounds, history, remoteVars
<1> SUFFICES ASSUME NEW k \in Keys, AppPassword(k)' PROVE \A p \in Ops : op'[p].private # k /\ (Open(p)' => op'[p].request.secret # k)
  BY DEF ApartOps, Open
<1>a. AppPassword(k) \/ (k = fresh /\ Provider /\ run.pc = "credential.create")
  BY AppPasswordKept
<1>n. k # 0
  BY LimitsAreNat DEF Keys
<1>c. \A o \in Ops : op[o].private # k /\ (Open(o) => op[o].request.secret # k)
  BY <1>a, FreshIsNew DEF Secrets, Apart, ApartOps
<1>f. AppPassword(k) => k # fresh
  BY FreshIsNew
<1>p. account.primary # k
  BY <1>a, FreshIsNew DEF Secrets, Apart, ApartPrimary
<1>1. ASSUME KeysSame PROVE \A p \in Ops : op'[p].private # k /\ (Open(p)' => op'[p].request.secret # k)
  <2>1. OpsKeep
    BY <1>1 DEF KeysSame
  <2>2. \A p \in Ops : op'[p].private # k
    BY <1>c, <1>n, <2>1 DEF OpsKeep
  <2>3. \A p \in Ops : Open(p)' => op'[p].request.secret # k
    BY <1>c, <2>1 DEF OpsKeep
  <2> QED BY <2>2, <2>3
<1>2. ASSUME NEW o \in Ops, NEW kd \in Kinds, Queue(o, kd) PROVE \A p \in Ops : op'[p].private # k /\ (Open(p)' => op'[p].request.secret # k)
  <2>1. QueueKeys BY <1>2, QueueKeysHold
  <2>0. k # fresh
    <3>1. UNCHANGED maker /\ UNCHANGED late /\ UNCHANGED cred
      BY <2>1 DEF QueueKeys
    <3>2. AppPassword(k)
      BY <3>1 DEF AppPassword, Rows
    <3> QED BY <1>f, <3>2
  <2>2. \A p \in Ops : op'[p].private # k
    BY <1>c, <1>n, <2>0, <2>1 DEF QueueKeys
  <2>3. \A p \in Ops : Open(p)' => op'[p].request.secret # k
    BY <1>c, <1>n, <1>p, <2>0, <2>1 DEF QueueKeys
  <2> QED BY <2>2, <2>3
<1>3. ASSUME Provider PROVE \A p \in Ops : op'[p].private # k /\ (Open(p)' => op'[p].request.secret # k)
  BY <1>c, <1>3, ProviderDoes DEF Open
<1>4. ASSUME Keep PROVE \A p \in Ops : op'[p].private # k /\ (Open(p)' => op'[p].request.secret # k)
  <2>1. KeepKeys BY <1>4, KeepKeysHold
  <2>2. \A p \in Ops : op'[p].private # k
    BY <1>c, <1>n, <2>1 DEF OpsKeep, KeepKeys
  <2>3. \A p \in Ops : Open(p)' => op'[p].request.secret # k
    BY <1>c, <2>1 DEF OpsKeep, KeepKeys
  <2> QED BY <2>2, <2>3
<1>5. ASSUME Reserve \/ Password PROVE \A p \in Ops : op'[p].private # k /\ (Open(p)' => op'[p].request.secret # k)
  <2>1. PasswordKeys BY <1>5, PasswordKeysHold
  <2>0. k # fresh
    <3>1. UNCHANGED maker /\ UNCHANGED late /\ UNCHANGED cred
      BY <2>1 DEF PasswordKeys
    <3>2. AppPassword(k)
      BY <3>1 DEF AppPassword, Rows
    <3> QED BY <1>f, <3>2
  <2>2. \A p \in Ops : op'[p].private # k
    BY <1>c, <1>n, <2>0, <2>1 DEF PasswordKeys
  <2>3. \A p \in Ops : Open(p)' => op'[p].request.secret # k
    BY <1>c, <1>n, <1>p, <2>0, <2>1 DEF PasswordKeys
  <2> QED BY <2>2, <2>3
<1>6. ASSUME Land PROVE \A p \in Ops : op'[p].private # k /\ (Open(p)' => op'[p].request.secret # k)
  BY <1>c, <1>6, LandDoes DEF Open
<1>7. ASSUME Foreign PROVE \A p \in Ops : op'[p].private # k /\ (Open(p)' => op'[p].request.secret # k)
  BY <1>c, <1>7, ForeignDoes DEF Open
<1>8. ASSUME EntersRow PROVE \A p \in Ops : op'[p].private # k /\ (Open(p)' => op'[p].request.secret # k)
  <2>1. EnteredKeys BY <1>8, EnteredKeysHold
  <2>2. \A p \in Ops : op'[p].private # k
    BY <1>c, <1>n, <2>1 DEF OpsKeep, EnteredKeys
  <2>3. \A p \in Ops : Open(p)' => op'[p].request.secret # k
    BY <1>c, <2>1 DEF OpsKeep, EnteredKeys
  <2> QED BY <2>2, <2>3
<1>9. ASSUME Unregister PROVE \A p \in Ops : op'[p].private # k /\ (Open(p)' => op'[p].request.secret # k)
  BY <1>c, <1>9, UnregisterDoes DEF Open
<1> QED BY <1>1, <1>2, <1>3, <1>4, <1>5, <1>6, <1>7, <1>8, <1>9, KeysKept DEF KeysMove

(* No call sets an app password as the password. *)
LEMMA ApartLateStep ==
  ASSUME NoneIsNoOp, IMAPIsProtocol, LimitsAreNat, LocalTypes, OpTypes, RemoteTypes, Control, References, Secrets, Creations, Next
  PROVE  ApartLate'
<1> USE NoneIsNoOp, IMAPIsProtocol, LimitsAreNat DEF vars, localVars, opVars, bounds, history, remoteVars
<1> SUFFICES ASSUME NEW k \in Keys, AppPassword(k)' PROVE \A call \in late' : call.key = k => call.name \in {"credential.create", "credential.revoke"}
  BY DEF ApartLate
<1>a. AppPassword(k) \/ (k = fresh /\ Provider /\ run.pc = "credential.create")
  BY AppPasswordKept
<1>n. k # 0
  BY LimitsAreNat DEF Keys
<1>c. \A call \in late : call.key = k => call.name \in {"credential.create", "credential.revoke"}
  BY <1>a, FreshIsNew DEF Secrets, Apart, ApartLate
<1>1. ASSUME KeysSame PROVE \A call \in late' : call.key = k => call.name \in {"credential.create", "credential.revoke"}
  BY <1>c, <1>1 DEF KeysSame
<1>2. ASSUME NEW o \in Ops, NEW kd \in Kinds, Queue(o, kd) PROVE \A call \in late' : call.key = k => call.name \in {"credential.create", "credential.revoke"}
  <2>1. QueueKeys BY <1>2, QueueKeysHold
  <2> QED BY <2>1, <1>c DEF Secrets, QueueKeys
<1>3. ASSUME Provider PROVE \A call \in late' : call.key = k => call.name \in {"credential.create", "credential.revoke"}
  <2>1. run.op # None /\ run.pc \in Calls /\ (late' = late \/ late' = late \cup {Call})
    BY <1>3, ProviderDoes
  <2>2. Call.name \in Calls /\ Call.name = run.pc
    BY <2>1, CallKey DEF CallRow
  <2>3. Call.name \in {"mailbox.create", "mailbox.resetPassword"} => ~AppPassword(Call.key)
    BY <2>1, CallKey
  <2>4. Call.name = "mailbox.delete" => Call.key = 0
    BY <2>1, CallKey
  <2>5. Call.key = k => Call.name \in {"credential.create", "credential.revoke"}
    BY <1>a, <1>n, <2>2, <2>3, <2>4 DEF Calls
  <2> QED BY <1>c, <2>1, <2>5
<1>4. ASSUME Keep PROVE \A call \in late' : call.key = k => call.name \in {"credential.create", "credential.revoke"}
  <2>1. KeepKeys BY <1>4, KeepKeysHold
  <2> QED BY <2>1, <1>c DEF Secrets, KeepKeys
<1>5. ASSUME Reserve \/ Password PROVE \A call \in late' : call.key = k => call.name \in {"credential.create", "credential.revoke"}
  <2>1. PasswordKeys BY <1>5, PasswordKeysHold
  <2> QED BY <2>1, <1>c DEF Secrets, PasswordKeys
<1>6. ASSUME Land PROVE \A call \in late' : call.key = k => call.name \in {"credential.create", "credential.revoke"}
  BY <1>c, <1>6, LandDoes
<1>7. ASSUME Foreign PROVE \A call \in late' : call.key = k => call.name \in {"credential.create", "credential.revoke"}
  BY <1>c, <1>n, <1>7, ForeignDoes
<1>8. ASSUME EntersRow PROVE \A call \in late' : call.key = k => call.name \in {"credential.create", "credential.revoke"}
  <2>1. EnteredKeys BY <1>8, EnteredKeysHold
  <2> QED BY <2>1, <1>c DEF Secrets, EnteredKeys
<1>9. ASSUME Unregister PROVE \A call \in late' : call.key = k => call.name \in {"credential.create", "credential.revoke"}
  BY <1>c, <1>9, UnregisterDoes
<1> QED BY <1>1, <1>2, <1>3, <1>4, <1>5, <1>6, <1>7, <1>8, <1>9, KeysKept DEF KeysMove

(* No row of an entered password is about an app password. *)
LEMMA ApartRowsStep ==
  ASSUME NoneIsNoOp, IMAPIsProtocol, LimitsAreNat, LocalTypes, OpTypes, RemoteTypes, Control, References, Secrets, Creations, Next
  PROVE  ApartRows'
<1> USE NoneIsNoOp, IMAPIsProtocol, LimitsAreNat DEF vars, localVars, opVars, bounds, history, remoteVars
<1> SUFFICES ASSUME NEW k \in Keys, AppPassword(k)' PROVE \A c \in Rows' : cred'[c].key = k => cred'[c].source = "managed"
  BY DEF ApartRows, Rows
<1>a. AppPassword(k) \/ (k = fresh /\ Provider /\ run.pc = "credential.create")
  BY AppPasswordKept
<1>n. k # 0
  BY LimitsAreNat DEF Keys
<1>c. \A c \in Rows : cred[c].key = k => cred[c].source = "managed"
  BY <1>a, FreshIsNew DEF Secrets, Apart, ApartRows
<1>1. ASSUME KeysSame PROVE \A c \in Rows' : cred'[c].key = k => cred'[c].source = "managed"
  BY <1>c, <1>1 DEF KeysSame, RowsKeep
<1>2. ASSUME NEW o \in Ops, NEW kd \in Kinds, Queue(o, kd) PROVE \A c \in Rows' : cred'[c].key = k => cred'[c].source = "managed"
  <2>1. QueueKeys BY <1>2, QueueKeysHold
  <2> QED BY <2>1, <1>c DEF Rows, QueueKeys
<1>3. ASSUME Provider PROVE \A c \in Rows' : cred'[c].key = k => cred'[c].source = "managed"
  BY <1>c, <1>3, ProviderDoes DEF Rows
<1>4. ASSUME Keep PROVE \A c \in Rows' : cred'[c].key = k => cred'[c].source = "managed"
  <2>1. KeepKeys BY <1>4, KeepKeysHold
  <2> QED BY <1>c, <2>1 DEF KeepKeys
<1>5. ASSUME Reserve \/ Password PROVE \A c \in Rows' : cred'[c].key = k => cred'[c].source = "managed"
  <2>1. PasswordKeys BY <1>5, PasswordKeysHold
  <2> QED BY <2>1, <1>c DEF Rows, PasswordKeys
<1>6. ASSUME Land PROVE \A c \in Rows' : cred'[c].key = k => cred'[c].source = "managed"
  BY <1>c, <1>6, LandDoes DEF Rows
<1>7. ASSUME Foreign PROVE \A c \in Rows' : cred'[c].key = k => cred'[c].source = "managed"
  BY <1>c, <1>7, ForeignDoes DEF Rows
<1>8. ASSUME EntersRow PROVE \A c \in Rows' : cred'[c].key = k => cred'[c].source = "managed"
  <2>1. EnteredKeys BY <1>8, EnteredKeysHold
  <2>2. op[run.op].request.secret # k
    BY <1>a, <2>1, FreshIsNew DEF EnteredKeys, Secrets, Apart, ApartOps
  <2> QED BY <1>c, <2>1, <2>2 DEF EnteredKeys
<1>9. ASSUME Unregister PROVE \A c \in Rows' : cred'[c].key = k => cred'[c].source = "managed"
  BY <1>9, UnregisterDoes DEF Rows
<1> QED BY <1>1, <1>2, <1>3, <1>4, <1>5, <1>6, <1>7, <1>8, <1>9, KeysKept DEF KeysMove

=============================================================================
