----------------------------- MODULE SingleWrite -----------------------------
(***************************************************************************)
(* What a tool call promises about the changes it makes at Forgejo: it     *)
(* sends at most one request that changes anything, never again whatever   *)
(* happens to the answer; it reports success only if that request took     *)
(* effect and a refusal only if it did not and never will.  A call that    *)
(* is merely given up says nothing: the request may still take effect.     *)
(***************************************************************************)
VARIABLES
  sent,      \* the requests sent that change something
  pending,   \* those of them that may still take effect
  effect,    \* those that have taken effect
  result     \* what the caller was told

vars == <<sent, pending, effect, result>>

Init == sent = {} /\ pending = {} /\ effect = {} /\ result = "none"

Send ==
  /\ result = "none" /\ sent = {}
  /\ \E id \in sent' : sent' = {id}
  /\ pending' = sent'
  /\ UNCHANGED <<effect, result>>

Land ==
  /\ \E id \in pending : pending' = pending \ {id} /\ effect' = effect \cup {id}
  /\ UNCHANGED <<sent, result>>

TurnDown ==
  /\ result = "none" /\ effect = {} /\ pending # {}
  /\ pending' = {}
  /\ UNCHANGED <<sent, effect, result>>

Tell(outcome) == result = "none" /\ result' = outcome /\ UNCHANGED <<sent, pending, effect>>

Succeed == effect = sent /\ Tell("ok")
Refuse  == effect = {} /\ pending = {} /\ (Tell("invalid") \/ Tell("notfound"))
GiveUp  == Tell("unavailable")

\* Nothing was changed: the caller may ask for the next page.
Continue ==
  /\ result = "ok" /\ sent = {}
  /\ result' = "none"
  /\ UNCHANGED <<sent, pending, effect>>

Next == Send \/ Land \/ TurnDown \/ Succeed \/ Refuse \/ GiveUp \/ Continue

Spec == Init /\ [][Next]_vars
=============================================================================
