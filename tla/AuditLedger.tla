----------------------------- MODULE AuditLedger -----------------------------
(***************************************************************************)
(* What the invocation audit promises, with no locks, sessions, shutdown   *)
(* or cancellation: nothing happens at Forgejo for a call that has no      *)
(* committed row or a denied one, a row reads "succeeded" only after the   *)
(* effect, and a settled row never changes.  ToolCall implements it.       *)
(***************************************************************************)
CONSTANT Call

VARIABLES
  entry,   \* the row of each call
  done     \* the calls that took effect at Forgejo

vars == <<entry, done>>

Init == entry = [c \in Call |-> "none"] /\ done = {}

Deny(c) ==
  /\ entry[c] = "none"
  /\ entry' = [entry EXCEPT ![c] = "denied"]
  /\ UNCHANGED done

Authorize(c) ==
  /\ entry[c] = "none"
  /\ entry' = [entry EXCEPT ![c] = "pending"]
  /\ UNCHANGED done

\* A request given up and recorded as failed may still reach Forgejo.
Act(c) ==
  /\ entry[c] \in {"pending", "failed"}
  /\ done' = done \cup {c}
  /\ UNCHANGED entry

Succeed(c) ==
  /\ entry[c] = "pending" /\ c \in done
  /\ entry' = [entry EXCEPT ![c] = "succeeded"]
  /\ UNCHANGED done

Fail(c) ==
  /\ entry[c] = "pending"
  /\ entry' = [entry EXCEPT ![c] = "failed"]
  /\ UNCHANGED done

Next == \E c \in Call : Deny(c) \/ Authorize(c) \/ Act(c) \/ Succeed(c) \/ Fail(c)

Spec == Init /\ [][Next]_vars
==============================================================================
