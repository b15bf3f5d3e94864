------------------------------ MODULE ToolCall ------------------------------
(***************************************************************************)
(* A tools/call of the MCP server from the HTTP gate to its audit row, for *)
(* one tool and one token (mcp/server.py, application/runtime.py,          *)
(* application/tool_permission_service.py,                                 *)
(* application/tool_invocation_service.py), with cancellation of calls,    *)
(* the drain at shutdown, restarts and administration at the same time.    *)
(*                                                                         *)
(* decision() upserts every tool_settings row before it reads, which locks *)
(* them until record_decision commits; every change of a setting, an       *)
(* allowance or a grant starts with the same upsert and waits for it.  The *)
(* reads themselves have a snapshot each (READ COMMITTED).                 *)
(***************************************************************************)
EXTENDS Naturals, FiniteSets

CONSTANTS
  Call,    \* tools/call requests
  Admin    \* the conditions that administration changes in an instance

\* What authorize_tool checks, in the order decision() reads it.
Reads == <<"token", "user", "credential", "setting", "allowance", "grant">>
Condition == {"token", "user", "credential", "setting", "allowance", "grant"}

ASSUME Calls == IsFiniteSet(Call) /\ Admin \subseteq Condition

VARIABLES
  ok,          \* the conditions that hold in the database
  pc,          \* where each call is
  step,        \* how many reads its decision has made
  seen,        \* the conditions those reads found to hold
  audit,       \* the status of its ToolInvocation row, "none" before it is committed
  sent,        \* the calls whose request has left for Forgejo
  effect,      \* the calls that took effect at Forgejo
  accepting,   \* InvocationCoordinator._accepting
  active,      \* InvocationCoordinator._active
  shutdown,    \* the lifespan's shutdown
  since        \* the conditions that held at some time before a call was decided (history)

coordinator == <<accepting, active, shutdown>>
forgejo     == <<sent, effect>>
decision    == <<step, seen>>
vars == <<ok, pc, decision, audit, forgejo, coordinator, since>>

----------------------------------------------------------------------------

Stage == {"idle", "arrived", "admitted", "reading", "recorded", "sending", "awaiting",
          "performed", "failing", "cancelled", "leaving", "done"}

TypeOK ==
  /\ ok \subseteq Condition
  /\ pc \in [Call -> Stage]
  /\ step \in [Call -> 0..6] /\ seen \in [Call -> SUBSET Condition]
  /\ audit \in [Call -> {"none", "denied", "pending", "succeeded", "failed"}]
  /\ sent \subseteq Call /\ effect \subseteq Call
  /\ accepting \in BOOLEAN /\ active \in Nat
  /\ shutdown \in {"serving", "closing", "waiting", "notified", "drained", "timedout"}
  /\ since \in [Call -> SUBSET Condition]

Init ==
  /\ ok = Condition
  /\ pc = [c \in Call |-> "idle"]
  /\ step = [c \in Call |-> 0] /\ seen = [c \in Call |-> {}]
  /\ audit = [c \in Call |-> "none"]
  /\ sent = {} /\ effect = {}
  /\ accepting = TRUE /\ active = 0 /\ shutdown = "serving"
  /\ since = [c \in Call |-> {}]

----------------------------------------------------------------------------
(* Administration. *)

Undecided(c) == pc[c] \in {"arrived", "admitted", "reading"}

ChangeTo(S) ==
  /\ ok' = S
  /\ since' = [c \in Call |-> IF Undecided(c) THEN since[c] \cup S ELSE since[c]]
  /\ UNCHANGED <<pc, decision, audit, forgejo, coordinator>>

\* FAULT: sync_registry inserts with ON CONFLICT DO NOTHING, which locks nothing.
SettingsNeverLocked == FALSE

\* sync_registry: the tool_settings rows are locked by a decision not yet recorded.
SettingsLocked == \E c \in Call : pc[c] = "reading"

\* _revoke, and the passing of expires_at: a token never comes back.
RevokeToken == "token" \in ok /\ ChangeTo(ok \ {"token"})

\* disable_user revokes the active credential with the user.
DisableUser == "user" \in ok /\ ChangeTo(ok \ {"user", "credential"})
EnableUser  == "user" \notin ok /\ ChangeTo(ok \cup {"user"})

\* save checks the user long before it commits, so the user may be disabled by then.
SaveCredential   == "credential" \notin ok /\ ChangeTo(ok \cup {"credential"})
RevokeCredential == "credential" \in ok /\ ChangeTo(ok \ {"credential"})

SetGlobalEnabled ==
  /\ ~SettingsLocked
  /\ ChangeTo(IF "setting" \in ok THEN ok \ {"setting"} ELSE ok \cup {"setting"})

\* replace_user_allowances also deletes the grants the new allowance lacks.
ReplaceUserAllowances ==
  /\ ~SettingsLocked
  /\ ChangeTo(IF "allowance" \in ok THEN ok \ {"allowance", "grant"} ELSE ok \cup {"allowance"})

\* replace_token_grants: that the token is not revoked is checked earlier, without a lock.
ReplaceTokenGrants ==
  /\ ~SettingsLocked
  /\ \/ "grant" \in ok /\ ChangeTo(ok \ {"grant"})
     \/ "grant" \notin ok /\ "allowance" \in ok /\ ChangeTo(ok \cup {"grant"})

Administration ==
  \/ "token" \in Admin /\ RevokeToken
  \/ "user" \in Admin /\ (DisableUser \/ EnableUser)
  \/ "credential" \in Admin /\ (SaveCredential \/ RevokeCredential)
  \/ "setting" \in Admin /\ SetGlobalEnabled
  \/ "allowance" \in Admin /\ ReplaceUserAllowances
  \/ "grant" \in Admin /\ ReplaceTokenGrants

----------------------------------------------------------------------------
(* A call. *)

Go(c, stage) == pc' = [pc EXCEPT ![c] = stage]

\* McpHttpApplication: the gate is open and the limiter lets the request through.
Arrive(c) ==
  /\ pc[c] = "idle" /\ accepting
  /\ Go(c, "arrived")
  /\ since' = [since EXCEPT ![c] = ok]
  /\ UNCHANGED <<ok, decision, audit, forgejo, coordinator>>

\* FAULT: the gate's look at accepting is taken as still true.
AdmitUnchecked(c) ==
  /\ pc[c] = "arrived"
  /\ active' = active + 1
  /\ Go(c, "admitted")
  /\ UNCHANGED <<ok, decision, audit, forgejo, accepting, shutdown, since>>

\* invocation(): accepting is looked at again, under the condition.
Admit(c) ==
  /\ pc[c] = "arrived" /\ accepting
  /\ active' = active + 1
  /\ Go(c, "admitted")
  /\ UNCHANGED <<ok, decision, audit, forgejo, accepting, shutdown, since>>

\* FAULT: the try block of invocation() starts before the look at accepting.
TurnAwayCounted(c) ==
  /\ pc[c] = "arrived" /\ ~accepting
  /\ Go(c, "leaving")
  /\ UNCHANGED <<ok, decision, audit, forgejo, coordinator, since>>

TurnAway(c) ==
  /\ pc[c] = "arrived" /\ ~accepting
  /\ Go(c, "done")
  /\ UNCHANGED <<ok, decision, audit, forgejo, coordinator, since>>

\* decision(): _sync_registry takes the locks.
SyncRegistry(c) ==
  /\ pc[c] = "admitted" /\ ~SettingsLocked
  /\ Go(c, "reading")
  /\ UNCHANGED <<ok, decision, audit, forgejo, coordinator, since>>

\* One SELECT of decision(), with a snapshot of its own.
Read(c) ==
  /\ pc[c] = "reading" /\ step[c] < 6
  /\ step' = [step EXCEPT ![c] = @ + 1]
  /\ seen' = [seen EXCEPT ![c] = @ \cup (ok \cap {Reads[step[c] + 1]})]
  /\ UNCHANGED <<ok, pc, audit, forgejo, coordinator, since>>

\* FAULT: the credential is left to the connection to check.
AllowedWithoutCredential(c) == Condition \ {"credential"} \subseteq seen[c]

\* authorize_tool
Allowed(c) == Condition \subseteq seen[c]

Decided(c) == pc[c] = "reading" /\ step[c] = 6

\* What was read is not kept once the decision is made.
Forget(c) == step' = [step EXCEPT ![c] = 0] /\ seen' = [seen EXCEPT ![c] = {}]

\* record_decision commits the row, which releases the locks.
RecordPending(c) ==
  /\ Decided(c) /\ Allowed(c)
  /\ audit' = [audit EXCEPT ![c] = "pending"]
  /\ Forget(c) /\ Go(c, "recorded")
  /\ UNCHANGED <<ok, forgejo, coordinator, since>>

RecordDenied(c) ==
  /\ Decided(c) /\ ~Allowed(c)
  /\ audit' = [audit EXCEPT ![c] = "denied"]
  /\ Forget(c) /\ Go(c, "leaving")
  /\ UNCHANGED <<ok, forgejo, coordinator, since>>

\* The arguments are valid and the instance configured; the credential is read again.
Connect(c) ==
  /\ pc[c] = "recorded" /\ "credential" \in ok
  /\ Go(c, "sending")
  /\ UNCHANGED <<ok, decision, audit, forgejo, coordinator, since>>

\* The client sends the request.
Send(c) ==
  /\ pc[c] = "sending"
  /\ sent' = sent \cup {c}
  /\ Go(c, "awaiting")
  /\ UNCHANGED <<ok, decision, audit, effect, coordinator, since>>

\* Forgejo carries out a request, however long after it was sent.
Land(c) ==
  /\ c \in sent
  /\ effect' = effect \cup {c}
  /\ UNCHANGED <<ok, pc, decision, audit, sent, coordinator, since>>

Answer(c) ==
  /\ pc[c] = "awaiting" /\ c \in effect
  /\ Go(c, "performed")
  /\ UNCHANGED <<ok, decision, audit, forgejo, coordinator, since>>

\* Forgejo refuses the request.
Reject(c) ==
  /\ pc[c] = "awaiting" /\ c \notin effect
  /\ sent' = sent \ {c}
  /\ Go(c, "failing")
  /\ UNCHANGED <<ok, decision, audit, effect, coordinator, since>>

\* Invalid arguments, no connection, a time-out, or an answer that cannot be used.
Fail(c) ==
  /\ pc[c] \in {"recorded", "sending", "awaiting"}
  /\ Go(c, "failing")
  /\ UNCHANGED <<ok, decision, audit, forgejo, coordinator, since>>

Settle(c, status) ==
  /\ audit' = [audit EXCEPT ![c] = status]
  /\ Go(c, "leaving")
  /\ UNCHANGED <<ok, decision, forgejo, coordinator, since>>

CompleteSuccess(c) == pc[c] = "performed" /\ Settle(c, "succeeded")
CompleteFailure(c) == pc[c] \in {"failing", "cancelled"} /\ Settle(c, "failed")

\* FAULT: nobody is told that the last invocation ended.
LeaveSilently(c) ==
  /\ pc[c] = "leaving"
  /\ active' = active - 1
  /\ Go(c, "done")
  /\ UNCHANGED <<ok, decision, audit, forgejo, accepting, shutdown, since>>

\* The session is closed and invocation() is left; the last one out wakes the drain.
Leave(c) ==
  /\ pc[c] = "leaving"
  /\ active' = active - 1
  /\ shutdown' = IF active' = 0 /\ shutdown = "waiting" THEN "notified" ELSE shutdown
  /\ Go(c, "done")
  /\ UNCHANGED <<ok, decision, audit, forgejo, accepting, since>>

----------------------------------------------------------------------------
(* Cancellation: the client's, or that of the session manager's task group *)
(* at the end of the lifespan.  Whether a commit under way when it strikes *)
(* still takes place is open.                                              *)

CancelArrived(c) ==
  /\ pc[c] = "arrived"
  /\ Go(c, "done")
  /\ UNCHANGED <<ok, decision, audit, forgejo, coordinator, since>>

\* Before the row is committed, the transaction rolls back and nothing else happens.
CancelUndecided(c) ==
  /\ pc[c] \in {"admitted", "reading"}
  /\ Forget(c) /\ Go(c, "leaving")
  /\ UNCHANGED <<ok, audit, forgejo, coordinator, since>>

\* During record_decision's commit: the row may be there, and nobody completes it.
CancelRecording(c) ==
  /\ Decided(c)
  /\ audit' = [audit EXCEPT ![c] = IF Allowed(c) THEN "pending" ELSE "denied"]
  /\ Forget(c) /\ Go(c, "leaving")
  /\ UNCHANGED <<ok, forgejo, coordinator, since>>

\* except asyncio.CancelledError: complete_failure comes next.
CancelExecution(c) ==
  /\ pc[c] \in {"recorded", "sending", "awaiting"}
  /\ Go(c, "cancelled")
  /\ UNCHANGED <<ok, decision, audit, forgejo, coordinator, since>>

\* FAULT: complete_success inside the try block, so that its cancellation is a failure too.
CancelSettlingToFailure(c) ==
  \/ /\ pc[c] \in {"failing", "cancelled"}
     /\ \E status \in {"pending", "failed"} : Settle(c, status)
  \/ /\ pc[c] = "performed"
     /\ audit' = [audit EXCEPT ![c] = "succeeded"]
     /\ Go(c, "cancelled")
     /\ UNCHANGED <<ok, decision, forgejo, coordinator, since>>

\* Outside that block, or a second time: the settling commit takes place or not.
CancelSettling(c) ==
  \/ /\ pc[c] \in {"failing", "cancelled"}
     /\ \E status \in {"pending", "failed"} : Settle(c, status)
  \/ /\ pc[c] = "performed"
     /\ \E status \in {"pending", "succeeded"} : Settle(c, status)

Cancel(c) ==
  CancelArrived(c) \/ CancelUndecided(c) \/ CancelRecording(c) \/ CancelExecution(c)
  \/ CancelSettling(c)

----------------------------------------------------------------------------
(* Shutdown. *)

BeginShutdown ==
  /\ shutdown = "serving"
  /\ accepting' = FALSE
  /\ shutdown' = "closing"
  /\ UNCHANGED <<ok, pc, decision, audit, forgejo, active, since>>

\* wait_for's predicate, at first and after each notification.
CheckIdle ==
  /\ shutdown \in {"closing", "notified"}
  /\ shutdown' = IF active = 0 THEN "drained" ELSE "waiting"
  /\ UNCHANGED <<ok, pc, decision, audit, forgejo, accepting, active, since>>

\* asyncio.wait_for gives up after shutdown_grace_period_seconds.
TimeOut ==
  /\ shutdown \in {"waiting", "notified"}
  /\ shutdown' = "timedout"
  /\ UNCHANGED <<ok, pc, decision, audit, forgejo, accepting, active, since>>

\* The process ends, drained or not, and a new one starts; rows and requests sent remain.
Restart ==
  /\ pc' = [c \in Call |-> IF pc[c] = "idle" THEN "idle" ELSE "done"]
  /\ step' = [c \in Call |-> 0] /\ seen' = [c \in Call |-> {}]
  /\ accepting' = TRUE /\ active' = 0 /\ shutdown' = "serving"
  /\ UNCHANGED <<ok, audit, forgejo, since>>

----------------------------------------------------------------------------

Proceed(c) ==
  \/ Admit(c) \/ TurnAway(c) \/ Read(c) \/ RecordPending(c) \/ RecordDenied(c)
  \/ Connect(c) \/ Send(c) \/ Answer(c) \/ Reject(c) \/ Fail(c)
  \/ CompleteSuccess(c) \/ CompleteFailure(c) \/ Leave(c)

Next ==
  \/ Administration
  \/ \E c \in Call : Arrive(c) \/ SyncRegistry(c) \/ Proceed(c) \/ Land(c) \/ Cancel(c)
  \/ BeginShutdown \/ CheckIdle \/ TimeOut
  \/ Restart

Spec == Init /\ [][Next]_vars

----------------------------------------------------------------------------
(* Safety. *)

\* The calls the coordinator counts.
Inside == {c \in Call : pc[c] \notin {"idle", "arrived", "done"}}

\* "in-flight MCP calls retain normal start-time authorization semantics": whatever takes
\* effect, each of the six conditions held at some time between its arrival and its decision.
AuthorizedFromTheStart == \A c \in effect : since[c] = Condition

\* A drain reported as complete is complete: no call is under way and none starts.
NothingAfterDrain == shutdown = "drained" => Inside = {} /\ ~accepting

\* A decision to allow rests on one state of the permissions: setting, allowance and grant
\* hold together when the row is committed, whatever administrators do meanwhile.
PermissionsHoldTogether ==
  [][\A c \in Call : audit[c] = "none" /\ audit'[c] = "pending" =>
       {"setting", "allowance", "grant"} \subseteq ok]_vars

Ledger == INSTANCE AuditLedger WITH entry <- audit, done <- effect

\* The audit is fail-closed and truthful through cancellation, time-outs and restarts.
FailClosed == Ledger!Spec

----------------------------------------------------------------------------
(* The inductive invariant. *)

\* How far a call has come and what its row says.
RowMatchesStage ==
  \A c \in Call :
    /\ pc[c] \in {"idle", "arrived", "admitted", "reading"} => audit[c] = "none"
    /\ pc[c] \in {"recorded", "sending", "awaiting", "performed", "failing", "cancelled"} =>
         audit[c] = "pending"
    /\ pc[c] = "performed" \/ audit[c] = "succeeded" => c \in effect
    /\ c \in sent => audit[c] \in {"pending", "failed", "succeeded"}
    /\ pc[c] \in {"recorded", "sending"} => c \notin sent

\* What a decision has read: each condition held when it was read, and the permissions,
\* whose rows are locked, hold still.
ReadsHold ==
  /\ \A c \in Call : pc[c] # "reading" => step[c] = 0 /\ seen[c] = {}
  /\ \A c \in Call : Undecided(c) => ok \subseteq since[c] /\ seen[c] \subseteq since[c]
  /\ \A c \in Call : pc[c] = "reading" =>
       seen[c] \cap {"setting", "allowance", "grant"} \subseteq ok
  /\ \A c, d \in Call : pc[c] = "reading" /\ pc[d] = "reading" => c = d
  /\ \A c \in Call : audit[c] \in {"pending", "succeeded", "failed"} => since[c] = Condition

\* The coordinator's count is exact, so a drain cannot be fooled.
CountExact ==
  /\ active = Cardinality(Inside)
  /\ accepting <=> shutdown = "serving"
  /\ shutdown = "drained" => active = 0

IInv ==
  TypeOK /\ RowMatchesStage /\ ReadsHold /\ CountExact /\ effect \subseteq sent

----------------------------------------------------------------------------
(* Liveness.  Row locks are granted in order (SF); a call that can go on does (WF), since *)
(* every request to Forgejo has time-outs; so does the waiter of the drain.  Cancellation, *)
(* the time-out of the drain and restarts are not relied on.                              *)

FairSpec ==
  /\ Spec
  /\ \A c \in Call : SF_vars(SyncRegistry(c)) /\ WF_vars(Proceed(c))
  /\ WF_vars(CheckIdle)

\* The drain never sleeps through the end of the last call: even with no time-out it ends.
DrainEnds == shutdown \in {"closing", "waiting", "notified"} ~> shutdown \notin {"closing", "waiting", "notified"}
=============================================================================
