--------------------------- MODULE ToolCallProofs ---------------------------
(***************************************************************************)
(* Proofs about ToolCall, for any finite set of calls: the inductive       *)
(* invariant, the safety properties it implies, and that ToolCall          *)
(* implements AuditLedger.                                                 *)
(***************************************************************************)
EXTENDS ToolCall, FiniteSetTheorems, TLAPS

----------------------------------------------------------------------------
(* The coordinator's count. *)

LEMMA Countable == IsFiniteSet(Inside) /\ Cardinality(Inside) \in Nat
<1>1. Inside \subseteq Call
  BY DEF Inside
<1> QED
  BY <1>1, Calls, FS_Subset, FS_CardinalityType

\* A call that moves but stays inside, or outside, is counted as before.
LEMMA SameCount ==
  ASSUME TypeOK, CountExact, NEW c \in Call, NEW stage \in Stage,
         Go(c, stage), UNCHANGED coordinator,
         pc[c] \in {"idle", "arrived", "done"} <=> stage \in {"idle", "arrived", "done"}
  PROVE  CountExact'
<1>1. Inside' = Inside
  BY DEF TypeOK, Inside, Go
<1> QED
  BY <1>1 DEF CountExact, coordinator

\* The first call in.
LEMMA CountIn ==
  ASSUME TypeOK, CountExact, NEW c \in Call, Admit(c)
  PROVE  CountExact'
<1>1. Inside' = Inside \cup {c} /\ c \notin Inside
  BY DEF TypeOK, Inside, Admit, Go
<1>2. Cardinality(Inside') = Cardinality(Inside) + 1
  BY <1>1, Countable, FS_AddElement
<1> QED
  BY <1>2, Countable DEF CountExact, Admit

LEMMA CountOut ==
  ASSUME TypeOK, CountExact, NEW c \in Call, Leave(c)
  PROVE  CountExact' /\ active' \in Nat
<1>1. Inside' = Inside \ {c} /\ c \in Inside
  BY DEF TypeOK, Inside, Leave, Go
<1>2. Cardinality(Inside') = Cardinality(Inside) - 1
  BY <1>1, Countable, FS_RemoveElement
<1>3. Cardinality(Inside') \in Nat
  BY <1>1, Countable, FS_Subset, FS_RemoveElement, FS_CardinalityType
<1> QED
  BY <1>2, <1>3, Countable DEF CountExact, Leave

----------------------------------------------------------------------------
(* Init, administration and shutdown. *)

LEMMA Start == Init => IInv
<1> SUFFICES ASSUME Init PROVE IInv
  OBVIOUS
<1>1. Inside = {}
  BY DEF Init, Inside
<1>2. CountExact
  BY <1>1, FS_EmptySet DEF Init, CountExact
<1> QED
  BY <1>2 DEF Init, IInv, TypeOK, Stage, RowMatchesStage, ReadsHold, Undecided

LEMMA AdministrationKeeps == ASSUME IInv, Administration PROVE IInv'
<1> USE DEF ChangeTo
<1>1. /\ ok' \subseteq Condition
      /\ ChangeTo(ok')
      /\ SettingsLocked =>
           \A p \in {"setting", "allowance", "grant"} : p \in ok <=> p \in ok'
  <2>1. CASE "token" \in Admin /\ RevokeToken
    BY <2>1 DEF RevokeToken, IInv, TypeOK, Condition
  <2>2. CASE "user" \in Admin /\ (DisableUser \/ EnableUser)
    BY <2>2 DEF DisableUser, EnableUser, IInv, TypeOK, Condition
  <2>3. CASE "credential" \in Admin /\ (SaveCredential \/ RevokeCredential)
    BY <2>3 DEF SaveCredential, RevokeCredential, IInv, TypeOK, Condition
  <2>4. CASE "setting" \in Admin /\ SetGlobalEnabled
    BY <2>4 DEF SetGlobalEnabled, IInv, TypeOK, Condition
  <2>5. CASE "allowance" \in Admin /\ ReplaceUserAllowances
    BY <2>5 DEF ReplaceUserAllowances, IInv, TypeOK, Condition
  <2>6. CASE "grant" \in Admin /\ ReplaceTokenGrants
    BY <2>6 DEF ReplaceTokenGrants, IInv, TypeOK, Condition
  <2> QED
    BY <2>1, <2>2, <2>3, <2>4, <2>5, <2>6 DEF Administration
<1> USE DEF decision, forgejo, coordinator
<1>2. TypeOK'
  BY <1>1 DEF IInv, TypeOK
<1>3. RowMatchesStage'
  BY <1>1 DEF IInv, RowMatchesStage
<1>4. ReadsHold'
  <2>1. \A c \in Call : since[c] \subseteq since'[c] /\ since'[c] \subseteq Condition
    BY <1>1 DEF IInv, TypeOK
  <2>2. \A c \in Call : audit[c] \in {"pending", "succeeded", "failed"} => since'[c] = Condition
    BY <1>1, <2>1 DEF IInv, ReadsHold, Undecided
  <2>3. \A c \in Call : pc[c] = "reading" => SettingsLocked
    BY DEF SettingsLocked
  <2> QED
    BY <1>1, <2>1, <2>2, <2>3 DEF IInv, ReadsHold, Undecided
<1>5. CountExact'
  <2>1. Inside' = Inside
    BY <1>1 DEF Inside
  <2> QED
    BY <1>1, <2>1 DEF IInv, CountExact
<1> QED
  BY <1>1, <1>2, <1>3, <1>4, <1>5 DEF IInv

LEMMA ShutdownKeeps == ASSUME IInv, BeginShutdown \/ CheckIdle \/ TimeOut PROVE IInv'
<1> USE DEF BeginShutdown, CheckIdle, TimeOut, decision, forgejo
<1>1. TypeOK'
  BY DEF IInv, TypeOK
<1>2. RowMatchesStage'
  BY DEF IInv, RowMatchesStage
<1>3. ReadsHold'
  BY DEF IInv, ReadsHold, Undecided
<1>4. Inside' = Inside
  BY DEF Inside
<1>5. CountExact'
  BY <1>4 DEF IInv, CountExact
<1> QED
  BY <1>1, <1>2, <1>3, <1>5 DEF IInv

LEMMA RestartKeeps == ASSUME IInv, Restart PROVE IInv'
<1> USE DEF Restart, forgejo
<1>1. TypeOK'
  BY DEF IInv, TypeOK, Stage
<1>2. \A c \in Call : pc'[c] \in {"idle", "done"} /\ (pc'[c] = "idle" => pc[c] = "idle")
  OBVIOUS
<1>3. RowMatchesStage'
  BY <1>2 DEF IInv, RowMatchesStage
<1>4. ReadsHold'
  BY <1>2 DEF IInv, ReadsHold, Undecided
<1>5. Inside' = {}
  BY <1>2 DEF Inside
<1>6. CountExact'
  BY <1>5, FS_EmptySet DEF CountExact
<1> QED
  BY <1>1, <1>3, <1>4, <1>6 DEF IInv

----------------------------------------------------------------------------
(* The steps of a call. *)

LEMMA EntryKeeps ==
  ASSUME IInv, NEW c \in Call, Arrive(c) \/ TurnAway(c) \/ CancelArrived(c)
  PROVE  IInv'
<1> USE DEF Arrive, TurnAway, CancelArrived, Go, decision, forgejo
<1>1. TypeOK'
  BY DEF IInv, TypeOK, Stage, Condition, coordinator
<1>2. RowMatchesStage'
  BY DEF IInv, TypeOK, RowMatchesStage
<1>3. ReadsHold'
  BY DEF IInv, TypeOK, RowMatchesStage, ReadsHold, Undecided
<1>4. CountExact'
  BY SameCount DEF IInv, Stage
<1>5. effect' \subseteq sent'
  BY DEF IInv
<1> QED
  BY <1>1, <1>2, <1>3, <1>4, <1>5 DEF IInv

LEMMA AdmitKeeps == ASSUME IInv, NEW c \in Call, Admit(c) PROVE IInv'
<1> USE DEF Admit, Go, decision, forgejo
<1>1. TypeOK'
  BY DEF IInv, TypeOK, Stage
<1>2. RowMatchesStage'
  BY DEF IInv, TypeOK, RowMatchesStage
<1>3. ReadsHold'
  BY DEF IInv, TypeOK, ReadsHold, Undecided
<1>4. CountExact'
  BY CountIn DEF IInv
<1> QED
  BY <1>1, <1>2, <1>3, <1>4 DEF IInv

LEMMA LeaveKeeps == ASSUME IInv, NEW c \in Call, Leave(c) PROVE IInv'
<1> USE DEF Leave, Go, decision, forgejo
<1>1. CountExact' /\ active' \in Nat
  BY CountOut DEF IInv
<1>2. TypeOK'
  BY <1>1 DEF IInv, TypeOK, Stage
<1>3. RowMatchesStage'
  BY DEF IInv, TypeOK, RowMatchesStage
<1>4. ReadsHold'
  BY DEF IInv, TypeOK, ReadsHold, Undecided
<1> QED
  BY <1>1, <1>2, <1>3, <1>4 DEF IInv

LEMMA SyncKeeps == ASSUME IInv, NEW c \in Call, SyncRegistry(c) PROVE IInv'
<1> USE DEF SyncRegistry, Go, decision, forgejo
<1>1. TypeOK'
  BY DEF IInv, TypeOK, Stage, coordinator
<1>2. RowMatchesStage'
  BY DEF IInv, TypeOK, RowMatchesStage
<1>3. ReadsHold'
  <2>1. \A d \in Call : pc'[d] = "reading" => d = c
    BY DEF IInv, TypeOK, SettingsLocked
  <2>2. seen[c] = {} /\ ok \subseteq since[c]
    BY DEF IInv, ReadsHold, Undecided
  <2> QED
    BY <2>1, <2>2 DEF IInv, TypeOK, ReadsHold, Undecided
<1>4. CountExact'
  BY SameCount DEF IInv, Stage
<1> QED
  BY <1>1, <1>2, <1>3, <1>4 DEF IInv

LEMMA ReadKeeps == ASSUME IInv, NEW c \in Call, Read(c) PROVE IInv'
<1> USE DEF Read, forgejo
<1>1. step[c] \in 0..5 /\ ok \cap {Reads[step[c] + 1]} \subseteq ok
  BY DEF IInv, TypeOK
<1>2. TypeOK'
  BY <1>1 DEF IInv, TypeOK, coordinator
<1>3. RowMatchesStage'
  BY DEF IInv, RowMatchesStage
<1>4. ReadsHold'
  <2>1. \A d \in Call : d # c => seen'[d] = seen[d]
    BY DEF IInv, TypeOK
  <2>2. \A x \in seen'[c] : x \in seen[c] \/ x \in ok
    BY <1>1 DEF IInv, TypeOK
  <2>3. ok \subseteq since[c]
    BY DEF IInv, ReadsHold, Undecided
  <2> QED
    BY <2>1, <2>2, <2>3 DEF IInv, TypeOK, ReadsHold, Undecided
<1>5. Inside' = Inside
  BY DEF Inside
<1>6. CountExact'
  BY <1>5 DEF IInv, CountExact, coordinator
<1> QED
  BY <1>2, <1>3, <1>4, <1>6 DEF IInv

LEMMA RecordKeeps ==
  ASSUME IInv, NEW c \in Call, RecordPending(c) \/ RecordDenied(c) \/ CancelRecording(c)
  PROVE  IInv'
<1> USE DEF Go, Forget, Decided, Allowed, decision, forgejo
<1>1. TypeOK'
  <2>1. CASE RecordPending(c)
    BY <2>1 DEF RecordPending, IInv, TypeOK, RowMatchesStage, Stage, Condition, coordinator
  <2>2. CASE RecordDenied(c)
    BY <2>2 DEF RecordDenied, IInv, TypeOK, RowMatchesStage, Stage, Condition, coordinator
  <2>3. CASE CancelRecording(c)
    BY <2>3 DEF CancelRecording, IInv, TypeOK, RowMatchesStage, Stage, Condition, coordinator
  <2> QED
    BY <2>1, <2>2, <2>3
<1>2. RowMatchesStage'
  <2>1. CASE RecordPending(c)
    BY <2>1 DEF RecordPending, IInv, TypeOK, RowMatchesStage
  <2>2. CASE RecordDenied(c)
    BY <2>2 DEF RecordDenied, IInv, TypeOK, RowMatchesStage
  <2>3. CASE CancelRecording(c)
    BY <2>3 DEF CancelRecording, IInv, TypeOK, RowMatchesStage
  <2> QED
    BY <2>1, <2>2, <2>3
<1>0. Allowed(c) => since[c] = Condition
  BY DEF IInv, TypeOK, ReadsHold, Undecided, RecordPending, RecordDenied, CancelRecording
<1>3. ReadsHold'
  <2>1. CASE RecordPending(c)
    BY <1>0, <2>1 DEF RecordPending, IInv, TypeOK, ReadsHold, Undecided
  <2>2. CASE RecordDenied(c)
    BY <2>2 DEF RecordDenied, IInv, TypeOK, RowMatchesStage, ReadsHold, Undecided
  <2>3. CASE CancelRecording(c)
    <3>1. audit'[c] = "pending" => since[c] = Condition
      BY <1>0, <2>3 DEF CancelRecording, IInv, TypeOK
    <3> QED
      BY <2>3, <3>1 DEF CancelRecording, IInv, TypeOK, ReadsHold, Undecided
  <2> QED
    BY <2>1, <2>2, <2>3
<1>4. CountExact'
  BY SameCount DEF IInv, Stage, RecordPending, RecordDenied, CancelRecording
<1>5. effect' \subseteq sent'
  BY DEF IInv, RecordPending, RecordDenied, CancelRecording
<1> QED
  BY <1>1, <1>2, <1>3, <1>4, <1>5 DEF IInv

LEMMA ExecutionKeeps ==
  ASSUME IInv, NEW c \in Call, Connect(c) \/ Send(c) \/ Answer(c) \/ Reject(c) \/ Fail(c)
  PROVE  IInv'
<1> USE DEF Go, decision, forgejo
<1>1. TypeOK'
  <2>1. CASE Connect(c)
    BY <2>1 DEF Connect, IInv, TypeOK, RowMatchesStage, Stage, Condition, coordinator
  <2>2. CASE Send(c)
    BY <2>2 DEF Send, IInv, TypeOK, RowMatchesStage, Stage, Condition, coordinator
  <2>3. CASE Answer(c)
    BY <2>3 DEF Answer, IInv, TypeOK, RowMatchesStage, Stage, Condition, coordinator
  <2>4. CASE Reject(c)
    BY <2>4 DEF Reject, IInv, TypeOK, RowMatchesStage, Stage, Condition, coordinator
  <2>5. CASE Fail(c)
    BY <2>5 DEF Fail, IInv, TypeOK, RowMatchesStage, Stage, Condition, coordinator
  <2> QED
    BY <2>1, <2>2, <2>3, <2>4, <2>5
<1>2. RowMatchesStage'
  <2>1. CASE Connect(c)
    BY <2>1 DEF Connect, IInv, TypeOK, RowMatchesStage
  <2>2. CASE Send(c)
    BY <2>2 DEF Send, IInv, TypeOK, RowMatchesStage
  <2>3. CASE Answer(c)
    BY <2>3 DEF Answer, IInv, TypeOK, RowMatchesStage
  <2>4. CASE Reject(c)
    BY <2>4 DEF Reject, IInv, TypeOK, RowMatchesStage
  <2>5. CASE Fail(c)
    BY <2>5 DEF Fail, IInv, TypeOK, RowMatchesStage
  <2> QED
    BY <2>1, <2>2, <2>3, <2>4, <2>5
<1>3. ReadsHold'
  <2>1. CASE Connect(c)
    BY <2>1 DEF Connect, IInv, TypeOK, RowMatchesStage, ReadsHold, Undecided
  <2>2. CASE Send(c)
    BY <2>2 DEF Send, IInv, TypeOK, RowMatchesStage, ReadsHold, Undecided
  <2>3. CASE Answer(c)
    BY <2>3 DEF Answer, IInv, TypeOK, RowMatchesStage, ReadsHold, Undecided
  <2>4. CASE Reject(c)
    BY <2>4 DEF Reject, IInv, TypeOK, RowMatchesStage, ReadsHold, Undecided
  <2>5. CASE Fail(c)
    BY <2>5 DEF Fail, IInv, TypeOK, RowMatchesStage, ReadsHold, Undecided
  <2> QED
    BY <2>1, <2>2, <2>3, <2>4, <2>5
<1>4. CountExact'
  BY SameCount DEF IInv, Stage, Connect, Send, Answer, Reject, Fail
<1>5. effect' \subseteq sent'
  BY DEF IInv, Connect, Send, Answer, Reject, Fail
<1> QED
  BY <1>1, <1>2, <1>3, <1>4, <1>5 DEF IInv

LEMMA CancelKeeps ==
  ASSUME IInv, NEW c \in Call, CancelUndecided(c) \/ CancelExecution(c)
  PROVE  IInv'
<1> USE DEF Go, Forget, decision, forgejo
<1>1. TypeOK'
  <2>1. CASE CancelUndecided(c)
    BY <2>1 DEF CancelUndecided, IInv, TypeOK, RowMatchesStage, Stage, Condition, coordinator
  <2>2. CASE CancelExecution(c)
    BY <2>2 DEF CancelExecution, IInv, TypeOK, RowMatchesStage, Stage, Condition, coordinator
  <2> QED
    BY <2>1, <2>2
<1>2. RowMatchesStage'
  <2>1. CASE CancelUndecided(c)
    BY <2>1 DEF CancelUndecided, IInv, TypeOK, RowMatchesStage
  <2>2. CASE CancelExecution(c)
    BY <2>2 DEF CancelExecution, IInv, TypeOK, RowMatchesStage
  <2> QED
    BY <2>1, <2>2
<1>3. ReadsHold'
  <2>1. CASE CancelUndecided(c)
    BY <2>1 DEF CancelUndecided, IInv, TypeOK, RowMatchesStage, ReadsHold, Undecided
  <2>2. CASE CancelExecution(c)
    BY <2>2 DEF CancelExecution, IInv, TypeOK, RowMatchesStage, ReadsHold, Undecided
  <2> QED
    BY <2>1, <2>2
<1>4. CountExact'
  BY SameCount DEF IInv, Stage, CancelUndecided, CancelExecution
<1>5. effect' \subseteq sent'
  BY DEF IInv, CancelUndecided, CancelExecution
<1> QED
  BY <1>1, <1>2, <1>3, <1>4, <1>5 DEF IInv

LEMMA SettleKeeps ==
  ASSUME IInv, NEW c \in Call, CompleteSuccess(c) \/ CompleteFailure(c) \/ CancelSettling(c)
  PROVE  IInv'
<1> USE DEF CompleteSuccess, CompleteFailure, CancelSettling, Go, decision, forgejo
<1> USE DEF Settle
<1>1. TypeOK'
  BY DEF IInv, TypeOK, Stage, Condition, coordinator
<1>2. RowMatchesStage'
  BY DEF IInv, TypeOK, RowMatchesStage
<1>3. ReadsHold'
  BY DEF IInv, TypeOK, RowMatchesStage, ReadsHold, Undecided
<1>4. CountExact'
  BY SameCount DEF IInv, Stage
<1>5. effect' \subseteq sent'
  BY DEF IInv
<1> QED
  BY <1>1, <1>2, <1>3, <1>4, <1>5 DEF IInv

LEMMA LandKeeps == ASSUME IInv, NEW c \in Call, Land(c) PROVE IInv'
<1> USE DEF Land, decision
<1>1. TypeOK'
  BY DEF IInv, TypeOK, coordinator
<1>2. RowMatchesStage'
  BY DEF IInv, RowMatchesStage
<1>3. ReadsHold'
  BY DEF IInv, ReadsHold, Undecided
<1>4. Inside' = Inside
  BY DEF Inside
<1>5. CountExact'
  BY <1>4 DEF IInv, CountExact, coordinator
<1>6. effect' \subseteq sent'
  BY DEF IInv
<1> QED
  BY <1>1, <1>2, <1>3, <1>5, <1>6 DEF IInv

----------------------------------------------------------------------------
(* The invariant, and what follows from it. *)

LEMMA StepKeeps == ASSUME IInv, [Next]_vars PROVE IInv'
<1>1. CASE UNCHANGED vars
  <2>1. Inside' = Inside
    BY <1>1 DEF vars, Inside
  <2> QED
    BY <1>1, <2>1 DEF vars, decision, forgejo, coordinator, IInv, TypeOK, RowMatchesStage,
                      ReadsHold, Undecided, CountExact
<1>2. ASSUME NEW c \in Call, Arrive(c) \/ SyncRegistry(c) \/ Proceed(c) \/ Land(c) \/ Cancel(c)
      PROVE  IInv'
  BY <1>2, EntryKeeps, AdmitKeeps, LeaveKeeps, SyncKeeps, ReadKeeps, RecordKeeps, ExecutionKeeps,
     CancelKeeps, SettleKeeps, LandKeeps DEF Proceed, Cancel
<1> QED
  BY <1>1, <1>2, AdministrationKeeps, ShutdownKeeps, RestartKeeps DEF Next

\* Every reachable state satisfies the inductive invariant, for any finite set of calls.
THEOREM CallInvariance == Spec => []IInv
<1>1. IInv /\ [Next]_vars => IInv'
  BY StepKeeps
<1> QED
  BY Start, <1>1, PTL DEF Spec

\* Types, from the invariant.
THEOREM CallTypes == Spec => []TypeOK
<1>1. IInv => TypeOK
  BY DEF IInv
<1> QED
  BY <1>1, CallInvariance, PTL

\* Whatever takes effect was authorized by conditions that held after the call arrived.
THEOREM EffectsAuthorized == Spec => []AuthorizedFromTheStart
<1>1. IInv => AuthorizedFromTheStart
  BY DEF IInv, TypeOK, AuthorizedFromTheStart, RowMatchesStage, ReadsHold
<1> QED
  BY <1>1, CallInvariance, PTL

\* Once the drain reports that it is complete, no call is under way and none starts.
THEOREM DrainIsComplete == Spec => []NothingAfterDrain
<1>1. IInv => NothingAfterDrain
  <2> SUFFICES ASSUME IInv, shutdown = "drained" PROVE Inside = {} /\ ~accepting
    BY DEF NothingAfterDrain
  <2>1. Cardinality(Inside) = 0 /\ ~accepting
    BY DEF IInv, CountExact
  <2> QED
    BY <2>1, Countable, FS_EmptySet
<1> QED
  BY <1>1, CallInvariance, PTL

\* The only steps that commit a row for an allowed call.
LEMMA OnlyDecisionsAllow ==
  ASSUME IInv, [Next]_vars, NEW c \in Call, audit[c] = "none", audit'[c] = "pending"
  PROVE  pc[c] = "reading" /\ Allowed(c)
<1>1. audit' # audit
  OBVIOUS
<1>2. PICK d \in Call : Proceed(d) \/ Cancel(d)
  BY <1>1 DEF Next, vars, Administration, RevokeToken, DisableUser, EnableUser, SaveCredential,
       RevokeCredential, SetGlobalEnabled, ReplaceUserAllowances, ReplaceTokenGrants, ChangeTo,
       BeginShutdown, CheckIdle, TimeOut, Restart, Arrive, SyncRegistry, Land
<1>3. ASSUME NEW status, audit' = [audit EXCEPT ![d] = status]
      PROVE  c = d
  BY <1>3, <1>1 DEF IInv, TypeOK
<1>4. CASE RecordPending(d) \/ RecordDenied(d) \/ CancelRecording(d)
  <2>1. c = d
    BY <1>3, <1>4 DEF RecordPending, RecordDenied, CancelRecording
  <2> QED
    BY <1>4, <2>1 DEF RecordPending, RecordDenied, CancelRecording, Decided, IInv, TypeOK
<1>5. CASE CompleteSuccess(d) \/ CompleteFailure(d) \/ CancelSettling(d)
  <2>1. PICK status : Settle(d, status)
    BY <1>5 DEF CompleteSuccess, CompleteFailure, CancelSettling
  <2>2. c = d
    BY <1>3, <2>1 DEF Settle
  <2> QED
    BY <1>5, <2>2 DEF CompleteSuccess, CompleteFailure, CancelSettling, IInv, RowMatchesStage
<1> QED
  BY <1>1, <1>2, <1>4, <1>5 DEF Proceed, Admit, TurnAway, Read, Connect, Send, Answer, Reject,
     Fail, Leave, Cancel, CancelArrived, CancelUndecided, CancelExecution

\* A decision to allow is committed while setting, allowance and grant all hold.
THEOREM PermissionsStand == Spec => PermissionsHoldTogether
<1>1. ASSUME IInv, [Next]_vars
      PROVE  [\A c \in Call : audit[c] = "none" /\ audit'[c] = "pending" =>
                {"setting", "allowance", "grant"} \subseteq ok]_vars
  <2> SUFFICES ASSUME NEW c \in Call, audit[c] = "none", audit'[c] = "pending"
               PROVE  {"setting", "allowance", "grant"} \subseteq ok
    OBVIOUS
  <2>1. pc[c] = "reading" /\ Allowed(c)
    BY <1>1, OnlyDecisionsAllow
  <2> QED
    BY <1>1, <2>1 DEF IInv, ReadsHold, Allowed, Condition
<1> QED
  BY <1>1, CallInvariance, PTL DEF Spec, PermissionsHoldTogether

----------------------------------------------------------------------------
(* ToolCall implements AuditLedger. *)

LEMMA SettleIsFailOrSucceed ==
  ASSUME IInv, NEW c \in Call, CompleteSuccess(c) \/ CompleteFailure(c) \/ CancelSettling(c)
  PROVE  [Ledger!Next]_(Ledger!vars)
<1>1. audit[c] = "pending" /\ UNCHANGED effect
  BY DEF IInv, RowMatchesStage, CompleteSuccess, CompleteFailure, CancelSettling, Settle, forgejo
<1>2. \/ audit' = [audit EXCEPT ![c] = "failed"]
      \/ audit' = [audit EXCEPT ![c] = "succeeded"] /\ c \in effect
      \/ audit' = [audit EXCEPT ![c] = "pending"]
  BY DEF IInv, RowMatchesStage, CompleteSuccess, CompleteFailure, CancelSettling, Settle
<1>3. CASE audit' = [audit EXCEPT ![c] = "pending"]
  <2>1. audit' = audit
    BY <1>1, <1>3 DEF IInv, TypeOK
  <2> QED
    BY <1>1, <2>1 DEF Ledger!vars
<1>4. CASE audit' = [audit EXCEPT ![c] = "failed"]
  <2>1. Ledger!Fail(c)
    BY <1>1, <1>4 DEF Ledger!Fail
  <2> QED
    BY <2>1 DEF Ledger!Next
<1>5. CASE audit' = [audit EXCEPT ![c] = "succeeded"] /\ c \in effect
  <2>1. Ledger!Succeed(c)
    BY <1>1, <1>5 DEF Ledger!Succeed
  <2> QED
    BY <2>1 DEF Ledger!Next
<1> QED
  BY <1>2, <1>3, <1>4, <1>5

LEMMA RecordIsDenyOrAuthorize ==
  ASSUME IInv, NEW c \in Call, RecordPending(c) \/ RecordDenied(c) \/ CancelRecording(c)
  PROVE  Ledger!Next
<1>1. audit[c] = "none" /\ UNCHANGED effect
  BY DEF IInv, RowMatchesStage, RecordPending, RecordDenied, CancelRecording, Decided, forgejo
<1>2. Ledger!Deny(c) \/ Ledger!Authorize(c)
  BY <1>1 DEF Ledger!Deny, Ledger!Authorize, RecordPending, RecordDenied, CancelRecording
<1> QED
  BY <1>2 DEF Ledger!Next

LEMMA LandIsAct == ASSUME IInv, NEW c \in Call, Land(c) PROVE [Ledger!Next]_(Ledger!vars)
<1>1. CASE audit[c] \in {"pending", "failed"}
  <2>1. Ledger!Act(c)
    BY <1>1 DEF Land, Ledger!Act
  <2> QED
    BY <2>1 DEF Ledger!Next
<1>2. CASE audit[c] = "succeeded"
  <2>1. effect' = effect /\ audit' = audit
    BY <1>2 DEF Land, IInv, RowMatchesStage
  <2> QED
    BY <2>1 DEF Ledger!vars
<1> QED
  BY <1>1, <1>2 DEF Land, IInv, RowMatchesStage

\* Nothing takes effect without a committed row that authorizes it, a row says "succeeded"
\* only after the effect, and settled rows stand, through every cancellation and restart.
THEOREM AuditIsFailClosed == Spec => FailClosed
<1>1. Init => Ledger!Init
  BY DEF Init, Ledger!Init
<1>2. ASSUME IInv, [Next]_vars PROVE [Ledger!Next]_(Ledger!vars)
  <2> USE <1>2
  <2>1. CASE UNCHANGED <<audit, effect>>
    BY <2>1 DEF Ledger!vars
  <2>2. ASSUME NEW c \in Call, RecordPending(c) \/ RecordDenied(c) \/ CancelRecording(c)
        PROVE  [Ledger!Next]_(Ledger!vars)
    BY <2>2, RecordIsDenyOrAuthorize
  <2>3. ASSUME NEW c \in Call, CompleteSuccess(c) \/ CompleteFailure(c) \/ CancelSettling(c)
        PROVE  [Ledger!Next]_(Ledger!vars)
    BY <2>3, SettleIsFailOrSucceed
  <2>4. ASSUME NEW c \in Call, Land(c)
        PROVE  [Ledger!Next]_(Ledger!vars)
    BY <2>4, LandIsAct
  <2>5. CASE Administration
    <3>1. UNCHANGED <<audit, effect>>
      BY <2>5 DEF Administration, RevokeToken, DisableUser, EnableUser, SaveCredential,
           RevokeCredential, SetGlobalEnabled, ReplaceUserAllowances, ReplaceTokenGrants,
           ChangeTo, forgejo
    <3> QED
      BY <2>1, <3>1
  <2>6. CASE BeginShutdown \/ CheckIdle \/ TimeOut \/ Restart
    <3>1. UNCHANGED <<audit, effect>>
      BY <2>6 DEF BeginShutdown, CheckIdle, TimeOut, Restart, forgejo
    <3> QED
      BY <2>1, <3>1
  <2>7. CASE \E c \in Call : Arrive(c) \/ SyncRegistry(c) \/ Proceed(c) \/ Cancel(c)
    <3>1. PICK c \in Call : Arrive(c) \/ SyncRegistry(c) \/ Proceed(c) \/ Cancel(c)
      BY <2>7
    <3>2. \/ UNCHANGED <<audit, effect>>
          \/ RecordPending(c) \/ RecordDenied(c) \/ CancelRecording(c)
          \/ CompleteSuccess(c) \/ CompleteFailure(c) \/ CancelSettling(c)
      BY <3>1 DEF Arrive, SyncRegistry, Proceed, Cancel, Admit, TurnAway, Read, Connect, Send,
           Answer, Reject, Fail, Leave, CancelArrived, CancelUndecided, CancelExecution, forgejo
    <3> QED
      BY <2>1, <2>2, <2>3, <3>2
  <2>8. CASE UNCHANGED vars
    BY <2>1, <2>8 DEF vars, forgejo
  <2> QED
    BY <2>4, <2>5, <2>6, <2>7, <2>8 DEF Next
<1> QED
  BY <1>1, <1>2, CallInvariance, PTL DEF Spec, FailClosed, Ledger!Spec

----------------------------------------------------------------------------
(* What AuditLedger promises, and with it every tool call. *)

\* What took effect was authorized by a committed row, and what reads "succeeded" did.
LedgerTrue ==
  /\ audit \in [Call -> {"none", "denied", "pending", "succeeded", "failed"}]
  /\ \A c \in Call : c \in effect => audit[c] \in {"pending", "succeeded", "failed"}
  /\ \A c \in Call : audit[c] = "succeeded" => c \in effect

LEMMA LedgerSteps ==
  ASSUME LedgerTrue, [Ledger!Next]_(Ledger!vars)
  PROVE  /\ LedgerTrue'
         /\ \A c \in Call : audit[c] \in {"denied", "succeeded", "failed"} => audit'[c] = audit[c]
         /\ effect \subseteq effect'
<1> USE DEF LedgerTrue
<1>1. CASE UNCHANGED Ledger!vars
  BY <1>1 DEF Ledger!vars
<1>2. ASSUME NEW c \in Call, Ledger!Deny(c) \/ Ledger!Authorize(c)
      PROVE  /\ LedgerTrue'
             /\ \A d \in Call : audit[d] \in {"denied", "succeeded", "failed"} => audit'[d] = audit[d]
             /\ effect \subseteq effect'
  BY <1>2 DEF Ledger!Deny, Ledger!Authorize
<1>3. ASSUME NEW c \in Call, Ledger!Act(c)
      PROVE  LedgerTrue' /\ audit' = audit /\ effect \subseteq effect'
  BY <1>3 DEF Ledger!Act
<1>4. ASSUME NEW c \in Call, Ledger!Succeed(c) \/ Ledger!Fail(c)
      PROVE  /\ LedgerTrue'
             /\ \A d \in Call : audit[d] \in {"denied", "succeeded", "failed"} => audit'[d] = audit[d]
             /\ effect \subseteq effect'
  BY <1>4 DEF Ledger!Succeed, Ledger!Fail
<1> HIDE DEF LedgerTrue
<1> QED
  BY <1>1, <1>2, <1>3, <1>4 DEF Ledger!Next

\* No call took effect at Forgejo without a row that authorized it, and a row that reads
\* "succeeded" has its effect.
THEOREM EffectsHaveRows == Spec => []LedgerTrue
<1>1. Ledger!Init => LedgerTrue
  BY DEF Ledger!Init, LedgerTrue
<1>2. FailClosed => []LedgerTrue
  BY <1>1, LedgerSteps, PTL DEF FailClosed, Ledger!Spec
<1> QED
  BY <1>2, AuditIsFailClosed, PTL

\* A row that says denied, succeeded or failed is not written again.
SettledStand ==
  [][/\ \A c \in Call : audit[c] \in {"denied", "succeeded", "failed"} => audit'[c] = audit[c]
     /\ effect \subseteq effect']_<<audit, effect>>

\* Settled rows stand for ever: no late answer, cancellation, drain or restart rewrites one.
THEOREM SettledRowsStand == Spec => SettledStand
<1>1. LedgerTrue /\ [Ledger!Next]_(Ledger!vars) =>
        [/\ \A c \in Call : audit[c] \in {"denied", "succeeded", "failed"} => audit'[c] = audit[c]
         /\ effect \subseteq effect']_<<audit, effect>>
  BY LedgerSteps
<1>2. FailClosed /\ []LedgerTrue => SettledStand
  BY <1>1, PTL DEF FailClosed, Ledger!Spec, SettledStand
<1> QED
  BY <1>2, AuditIsFailClosed, EffectsHaveRows, PTL
==============================================================================
