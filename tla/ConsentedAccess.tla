--------------------------- MODULE ConsentedAccess ---------------------------
(***************************************************************************)
(* What the authorization server promises about one user's access, with no *)
(* requests, locks, clocks or caches: a consent opens at most one family,  *)
(* a family has one pair in force at a time, a pair once replaced never    *)
(* comes back, a closed family never reopens, and a request to /mcp is     *)
(* admitted only on the pair in force.  OAuthTokenFamily implements it.    *)
(***************************************************************************)
CONSTANTS Code, Family, Pair, Bearer, NoCode, NoPair

VARIABLES
  opened,    \* the consented code behind each family
  current,   \* the pair in force in each family
  closed,    \* the families that ended
  used,      \* every pair ever in force
  admitted   \* the pair each request was last admitted on

vars == <<opened, current, closed, used, admitted>>

Init ==
  /\ opened = [f \in Family |-> NoCode]
  /\ current = [f \in Family |-> NoPair]
  /\ closed = {}
  /\ used = {}
  /\ admitted = [b \in Bearer |-> NoPair]

Open(c, f, p) ==
  /\ opened[f] = NoCode
  /\ \A g \in Family : opened[g] # c
  /\ p \notin used
  /\ opened' = [opened EXCEPT ![f] = c]
  /\ current' = [current EXCEPT ![f] = p]
  /\ used' = used \cup {p}
  /\ UNCHANGED <<closed, admitted>>

Renew(f, p) ==
  /\ current[f] # NoPair
  /\ p \notin used
  /\ current' = [current EXCEPT ![f] = p]
  /\ used' = used \cup {p}
  /\ UNCHANGED <<opened, closed, admitted>>

Close(f) ==
  /\ current[f] # NoPair
  /\ current' = [current EXCEPT ![f] = NoPair]
  /\ closed' = closed \cup {f}
  /\ UNCHANGED <<opened, used, admitted>>

\* A later request of the same client starts afresh.
Ask(b) ==
  /\ admitted' = [admitted EXCEPT ![b] = NoPair]
  /\ UNCHANGED <<opened, current, closed, used>>

Admit(b, f) ==
  /\ current[f] # NoPair
  /\ admitted' = [admitted EXCEPT ![b] = current[f]]
  /\ UNCHANGED <<opened, current, closed, used>>

Next ==
  \/ \E c \in Code, f \in Family, p \in Pair : Open(c, f, p)
  \/ \E f \in Family, p \in Pair : Renew(f, p)
  \/ \E f \in Family : Close(f)
  \/ \E b \in Bearer : Ask(b)
  \/ \E b \in Bearer, f \in Family : Admit(b, f)

Spec == Init /\ [][Next]_vars
==============================================================================
