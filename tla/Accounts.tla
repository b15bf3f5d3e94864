------------------------------ MODULE Accounts ------------------------------
(***************************************************************************)
(* One user of the Dashboard with its account: logins and their sessions,  *)
(* password changes, invitations and their acceptance, disabling and       *)
(* enabling (auth_service.py, invitation_service.py, user_service.py).     *)
(*                                                                         *)
(* An operation is one transaction.  It reads the user's and the account's *)
(* row in two statements without locking them, writes later the columns    *)
(* whose value it changed in its own copy, and holds the lock of a written *)
(* row until it commits.  Only the acceptance reads a row FOR UPDATE, the  *)
(* invitation's.                                                           *)
(***************************************************************************)
EXTENDS LoginLimiter, FiniteSets

CONSTANTS
  Change,      \* change_password requests
  Acceptance,  \* accept requests
  Invitation,  \* create_invitation requests, and the invitations they issue
  Disabling,   \* disable_user requests
  Enabling,    \* enable_user requests
  Overlap,     \* bound: how many requests are under way at once
  Nobody       \* holds a lock that is free

Transaction == Login \cup Change \cup Acceptance \cup Invitation \cup Disabling \cup Enabling
Secret == {"first"} \cup Change \cup Acceptance

\* Requests of different kinds are different requests.
ASSUME Kinds ==
  /\ Login \cap (Change \cup Acceptance \cup Invitation \cup Disabling \cup Enabling) = {}
  /\ Change \cap (Acceptance \cup Invitation \cup Disabling \cup Enabling) = {}
  /\ Acceptance \cap (Invitation \cup Disabling \cup Enabling) = {}
  /\ Invitation \cap (Disabling \cup Enabling) = {}
  /\ Disabling \cap Enabling = {}
  /\ {Nobody, "user", "account", "first"} \cap Transaction = {}

Status == {"PENDING", "ACTIVE", "DISABLED"}

VARIABLES
  user,         \* User.status
  account,      \* Account.status
  password,     \* who set Account.password_hash
  mustChange,   \* Account.must_change_password
  session,      \* the session of each login
  invitation,   \* the state of each invitation
  lock,         \* who holds each row's lock
  pc,           \* where each request is
  seen,         \* the two statuses it has read, and the one enable_user computes from them
  with,         \* the password a login verified, a change's session, an acceptance's invitation
  closing,      \* the sessions and invitations an uncommitted UPDATE closes
  racing,       \* logins that were under way when the password changed (history)
  unseen        \* invitations issued after an uncommitted disabling had looked (history)

rows    == <<user, account, password, mustChange, session, invitation>>
history == <<racing, unseen>>
vars == <<rows, lock, pc, seen, with, closing, history, limiter>>

Unread == [user |-> "none", account |-> "none", next |-> "none"]

RequestsTypeOK ==
  /\ user \in Status /\ account \in Status /\ password \in Secret /\ mustChange \in BOOLEAN
  /\ session \in [Login -> {"none", "active", "closed"}]
  /\ invitation \in [Invitation -> {"none", "active", "used", "closed"}]
  /\ lock \in [{"user", "account"} \cup Invitation -> Transaction \cup {Nobody}]
  /\ pc \in [Transaction -> {"idle", "leased", "verified", "opened", "locked", "reading",
                             "loaded", "flushed", "scanned", "done"}]
  /\ seen \in [Transaction -> [user : Status \cup {"none"}, account : Status \cup {"none"},
                               next : Status \cup {"none"}]]
  /\ with \in [Login \cup Change \cup Acceptance -> Secret \cup Login \cup Invitation \cup {Nobody}]
  /\ closing \in [Disabling \cup Invitation -> SUBSET (Login \cup Invitation)]
  /\ racing \subseteq Login /\ unseen \subseteq Invitation

TypeOK == LimiterTypeOK /\ RequestsTypeOK

\* A user that was created, or one whose invitation was accepted long ago.
Init ==
  /\ user \in {"PENDING", "ACTIVE"} /\ account = user
  /\ password = "first" /\ mustChange = (user = "PENDING")
  /\ session = [l \in Login |-> "none"]
  /\ invitation = [i \in Invitation |-> "none"]
  /\ lock = [r \in {"user", "account"} \cup Invitation |-> Nobody]
  /\ pc = [t \in Transaction |-> "idle"]
  /\ seen = [t \in Transaction |-> Unread]
  /\ with = [t \in Login \cup Change \cup Acceptance |-> Nobody]
  /\ closing = [t \in Disabling \cup Invitation |-> {}]
  /\ racing = {} /\ unseen = {}
  /\ LimiterInit

----------------------------------------------------------------------------

Go(t, stage) == pc' = [pc EXCEPT ![t] = stage]

\* The end of a transaction: what it read is forgotten and its locks are released.
End(t, stage) ==
  /\ Go(t, stage)
  /\ seen' = [seen EXCEPT ![t] = Unread]
  /\ lock' = [r \in DOMAIN lock |-> IF lock[r] = t THEN Nobody ELSE lock[r]]
  /\ closing' = IF t \in DOMAIN closing THEN [closing EXCEPT ![t] = {}] ELSE closing
  /\ with' = IF t \in Acceptance THEN [with EXCEPT ![t] = Nobody] ELSE with

Finish(t) == End(t, "done")

\* Nothing was written: the request may be made again.
GiveUp(t) ==
  /\ End(t, "idle")
  /\ UNCHANGED <<rows, history, limiter>>

Room == Cardinality({t \in Transaction : pc[t] \notin {"idle", "done"}}) < Overlap

Free(t, rowset) == \A r \in rowset : lock[r] \in {Nobody, t}

\* The rows of which t has changed the status in its copy.
Dirty(t, status) ==
  {r \in {"user", "account"} : seen[t][r] # status}

\* A column is written only if it differs from what was read.
Written(t, row, status, current) == IF seen[t][row] # status THEN status ELSE current

Active == {i \in Invitation : invitation[i] = "active"}
Open   == {l \in Login : session[l] = "active"}

CloseSessions(S) == session' = [l \in Login |-> IF l \in S THEN "closed" ELSE session[l]]
CloseInvitations(S) ==
  [i \in Invitation |-> IF i \in S THEN "closed" ELSE invitation[i]]

\* selectinload: the user's row, then the account's.
ReadUser(t) ==
  /\ IF t \in Acceptance THEN pc[t] = "locked" ELSE pc[t] = "idle" /\ Room
  /\ seen' = [seen EXCEPT ![t].user = user]
  /\ Go(t, "reading")
  /\ UNCHANGED <<rows, lock, with, closing, history, limiter>>

\* FAULT: must_change_password is not read, and no status computed from it.
ReadStatusOnly(t) ==
  /\ pc[t] = "reading"
  /\ seen' = [seen EXCEPT ![t].account = account]
  /\ Go(t, "loaded")
  /\ UNCHANGED <<rows, lock, with, closing, history, limiter>>

ReadAccount(t) ==
  /\ pc[t] = "reading"
  /\ seen' = [seen EXCEPT ![t].account = account,
                          ![t].next = IF t \notin Enabling THEN @
                                      ELSE IF mustChange THEN "PENDING" ELSE "ACTIVE"]
  /\ Go(t, "loaded")
  /\ UNCHANGED <<rows, lock, with, closing, history, limiter>>

----------------------------------------------------------------------------
(* login *)

\* The limiter is asked first.
Attempt(l) ==
  /\ pc[l] = "idle" /\ Room
  /\ Reserve(l)
  /\ Go(l, "leased")
  /\ UNCHANGED <<rows, lock, seen, with, closing, history>>

\* The account is read; the password is right and the account active.
Verify(l) ==
  /\ pc[l] = "leased" /\ account = "ACTIVE"
  /\ with' = [with EXCEPT ![l] = password]
  /\ Go(l, "verified")
  /\ UNCHANGED <<rows, lock, seen, closing, history, limiter>>

\* Wrong password, an account that is not active, or a failure: it may be tried again.
FailLogin(l) ==
  /\ pc[l] \in {"leased", "verified"}
  /\ Charge(l)
  /\ with' = [with EXCEPT ![l] = Nobody]
  /\ racing' = racing \ {l}
  /\ Go(l, "idle")
  /\ UNCHANGED <<rows, lock, seen, closing, unseen>>

\* The session is inserted and last_login_at set, which waits for the account's row.
OpenSession(l) ==
  /\ pc[l] = "verified" /\ Free(l, {"account"})
  /\ session' = [session EXCEPT ![l] = "active"]
  /\ Go(l, "opened")
  /\ UNCHANGED <<user, account, password, mustChange, invitation, lock, seen, with, closing,
                 history, limiter>>

ReturnLease(l) ==
  /\ pc[l] = "opened"
  /\ Refund(l)
  /\ Go(l, "done")
  /\ UNCHANGED <<rows, lock, seen, with, closing, history>>

\* logout, revoke_session, and the passing of expires_at.
EndSession(l) ==
  /\ session[l] = "active"
  /\ session' = [session EXCEPT ![l] = "closed"]
  /\ UNCHANGED <<user, account, password, mustChange, invitation, lock, pc, seen, with,
                 closing, history, limiter>>

----------------------------------------------------------------------------
(* change_password *)

\* get_current_session
Usable(l) == session[l] = "active" /\ account = "ACTIVE" /\ user = "ACTIVE"

LoadSession(c) ==
  /\ pc[c] = "idle" /\ Room
  /\ \E l \in Login : Usable(l) /\ with' = [with EXCEPT ![c] = l]
  /\ Go(c, "loaded")
  /\ UNCHANGED <<rows, lock, seen, closing, history, limiter>>

\* FAULT: the sessions are kept.
KeepSessions(S) == UNCHANGED session

\* revoke_for_account, where the password changes: logins under way are not reached.
RevokeForAccount(S) == CloseSessions(S)

UnderWay == {l \in Login : pc[l] = "verified"}

CommitChange(c) ==
  /\ pc[c] = "loaded" /\ Free(c, {"account"})
  /\ password' = c /\ mustChange' = FALSE
  /\ RevokeForAccount(Open \ {with[c]})
  /\ racing' = racing \cup UnderWay
  /\ Finish(c)
  /\ UNCHANGED <<user, account, invitation, unseen, limiter>>

----------------------------------------------------------------------------
(* create_invitation, revoke_invitation *)

RefuseInvitation(v) ==
  /\ pc[v] = "reading" /\ seen[v].user = "DISABLED"
  /\ GiveUp(v)

\* revoke_active: an UPDATE that waits for acceptances under way.
ReplaceActive(v) ==
  /\ pc[v] = "reading" /\ seen[v].user # "DISABLED" /\ Free(v, Active)
  /\ closing' = [closing EXCEPT ![v] = Active]
  /\ lock' = [r \in DOMAIN lock |-> IF r \in Active THEN v ELSE lock[r]]
  /\ Go(v, "scanned")
  /\ UNCHANGED <<rows, seen, with, history, limiter>>

CommitInvitation(v) ==
  /\ pc[v] = "scanned"
  /\ invitation' = [CloseInvitations(closing[v]) EXCEPT ![v] = "active"]
  /\ unseen' = IF \E d \in Disabling : pc[d] = "scanned" THEN unseen \cup {v} ELSE unseen
  /\ Finish(v)
  /\ UNCHANGED <<user, account, password, mustChange, session, racing, limiter>>

\* revoke_invitation, and the passing of expires_at.  Of an invitation that was used or
\* revoked before, revoke_invitation only overwrites revoked_at: it is closed as it was.
CloseInvitation(i) ==
  /\ invitation[i] = "active" /\ lock[i] = Nobody
  /\ invitation' = [invitation EXCEPT ![i] = "closed"]
  /\ UNCHANGED <<user, account, password, mustChange, session, lock, pc, seen, with, closing,
                 history, limiter>>

----------------------------------------------------------------------------
(* accept *)

\* FAULT: the invitation is read without FOR UPDATE.
LoadUnlocked(a) ==
  /\ pc[a] = "idle" /\ Room
  /\ \E i \in Active : with' = [with EXCEPT ![a] = i]
  /\ Go(a, "locked")
  /\ UNCHANGED <<rows, lock, seen, closing, history, limiter>>

\* _load_valid with FOR UPDATE: neither used nor revoked nor expired.
LoadValid(a) ==
  /\ pc[a] = "idle" /\ Room
  /\ \E i \in Active :
       /\ lock[i] = Nobody
       /\ lock' = [lock EXCEPT ![i] = a]
       /\ with' = [with EXCEPT ![a] = i]
  /\ Go(a, "locked")
  /\ UNCHANGED <<rows, seen, closing, history, limiter>>

RefuseAcceptance(a) ==
  /\ pc[a] = "loaded" /\ seen[a].user = "DISABLED"
  /\ GiveUp(a)

CommitAcceptance(a) ==
  /\ pc[a] = "loaded" /\ seen[a].user # "DISABLED"
  /\ Free(a, {"account", with[a]} \cup Dirty(a, "ACTIVE"))
  /\ password' = a /\ mustChange' = FALSE
  /\ user' = Written(a, "user", "ACTIVE", user)
  /\ account' = Written(a, "account", "ACTIVE", account)
  /\ invitation' = [invitation EXCEPT ![with[a]] = "used"]
  /\ RevokeForAccount(Open)
  /\ racing' = racing \cup UnderWay
  /\ Finish(a)
  /\ UNCHANGED <<unseen, limiter>>

----------------------------------------------------------------------------
(* disable_user, enable_user *)

\* The user's row and, if its status changes, the account's; then the sessions.
FlushDisabling(d) ==
  LET written == {"user"} \cup Dirty(d, "DISABLED")
  IN  /\ pc[d] = "loaded" /\ Free(d, written)
      /\ lock' = [r \in DOMAIN lock |-> IF r \in written THEN d ELSE lock[r]]
      /\ closing' = [closing EXCEPT ![d] = Open]
      /\ Go(d, "flushed")
      /\ UNCHANGED <<rows, seen, with, history, limiter>>

\* FAULT: invitations are left as they are.
RevokeNoInvitations(d) ==
  /\ pc[d] = "flushed"
  /\ Go(d, "scanned")
  /\ UNCHANGED <<rows, lock, closing, seen, with, history, limiter>>

\* revoke_all_active: an UPDATE that waits for acceptances under way.
RevokeAllActive(d) ==
  /\ pc[d] = "flushed" /\ Free(d, Active)
  /\ closing' = [closing EXCEPT ![d] = @ \cup Active]
  /\ lock' = [r \in DOMAIN lock |-> IF r \in Active THEN d ELSE lock[r]]
  /\ Go(d, "scanned")
  /\ UNCHANGED <<rows, seen, with, history, limiter>>

CommitDisabling(d) ==
  /\ pc[d] = "scanned"
  /\ user' = Written(d, "user", "DISABLED", user)
  /\ account' = Written(d, "account", "DISABLED", account)
  /\ CloseSessions(closing[d])
  /\ invitation' = CloseInvitations(closing[d])
  /\ Finish(d)
  /\ UNCHANGED <<password, mustChange, history, limiter>>

CommitEnabling(e) ==
  /\ pc[e] = "loaded" /\ Free(e, Dirty(e, seen[e].next))
  /\ user' = Written(e, "user", seen[e].next, user)
  /\ account' = Written(e, "account", seen[e].next, account)
  /\ Finish(e)
  /\ UNCHANGED <<password, mustChange, session, invitation, history, limiter>>

\* The connection fails, or PostgreSQL breaks a deadlock: nothing was done.
Abort(t) ==
  /\ t \notin Login /\ pc[t] \in {"locked", "reading", "loaded", "flushed", "scanned"}
  /\ GiveUp(t)

----------------------------------------------------------------------------

PassTime ==
  /\ Tick
  /\ UNCHANGED <<rows, lock, pc, seen, with, closing, history>>

Next ==
  \/ \E l \in Login :
       Attempt(l) \/ Verify(l) \/ FailLogin(l) \/ OpenSession(l) \/ ReturnLease(l) \/ EndSession(l)
  \/ \E t \in Acceptance \cup Invitation \cup Disabling \cup Enabling : ReadUser(t)
  \/ \E t \in Acceptance \cup Disabling \cup Enabling : ReadAccount(t)
  \/ \E c \in Change : LoadSession(c) \/ CommitChange(c)
  \/ \E v \in Invitation :
       RefuseInvitation(v) \/ ReplaceActive(v) \/ CommitInvitation(v) \/ CloseInvitation(v)
  \/ \E a \in Acceptance : LoadValid(a) \/ RefuseAcceptance(a) \/ CommitAcceptance(a)
  \/ \E d \in Disabling : FlushDisabling(d) \/ RevokeAllActive(d) \/ CommitDisabling(d)
  \/ \E e \in Enabling : CommitEnabling(e)
  \/ \E t \in Transaction : Abort(t)
  \/ PassTime

Spec == Init /\ [][Next]_vars

----------------------------------------------------------------------------

\* An invitation that was used, replaced, revoked or disabled with its user is never used
\* (again), whatever else is under way: "one-time invitation link".
InvitationsFinal ==
  [][\A i \in Invitation : invitation[i] \in {"used", "closed"} => invitation'[i] = invitation[i]]_vars

\* A disabled user comes back only by enable_user, or by an invitation that was issued while
\* the disabling was under way and had already looked for invitations.
BackOnlyByEnabling ==
  [][user = "DISABLED" /\ user' # "DISABLED" =>
       \/ \E e \in Enabling : pc[e] = "loaded" /\ pc'[e] = "done"
       \/ \E a \in Acceptance : pc[a] = "loaded" /\ pc'[a] = "done" /\ with[a] \in unseen]_vars

\* A session outlives the password it was opened with only as the session that changed it,
\* or if its login had verified the old password when the new one was committed.
OldPasswordSessionsEnd ==
  \A l \in Login : session[l] = "active" /\ with[l] # password =>
    l \in racing \/ \E c \in Change : with[c] = l /\ password = c

----------------------------------------------------------------------------
(* What the properties rest on, checked with them and proved inductive. *)

\* Whoever is about to use or to close an invitation has its row locked, and it is open.
InvitationsHeld ==
  /\ \A i \in Invitation : invitation[i] # "none" => pc[i] = "done"
  /\ \A a \in Acceptance : pc[a] \in {"locked", "reading", "loaded"} =>
       with[a] \in Invitation /\ lock[with[a]] = a /\ invitation[with[a]] = "active"
  /\ \A t \in Disabling \cup Invitation : pc[t] = "scanned" =>
       \A i \in closing[t] \cap Invitation : lock[i] = t /\ invitation[i] = "active"
  /\ \A d \in Disabling : pc[d] = "flushed" => closing[d] \cap Invitation = {}

\* A disabling that has looked for invitations holds the open ones, but those issued since;
\* an acceptance that read the user before the disabling committed has one of those.
DisablingSeen ==
  /\ \A d \in Disabling, i \in Invitation :
       pc[d] = "scanned" /\ invitation[i] = "active" => lock[i] = d \/ i \in unseen
  /\ \A a \in Acceptance :
       user = "DISABLED" /\ pc[a] \in {"reading", "loaded"} /\ seen[a].user # "DISABLED"
       => with[a] \in unseen
  /\ \A e \in Enabling : pc[e] = "loaded" => seen[e].next \in {"PENDING", "ACTIVE"}

\* A login under way has verified the present password, or is known to have raced with it.
PasswordsKnown ==
  /\ \A l \in Login : session[l] = "active" => pc[l] \in {"opened", "done"}
  /\ \A l \in Login : pc[l] = "verified" /\ with[l] # password => l \in racing
  /\ \A c \in Change : password = c => pc[c] = "done"

\* Inductive without the limiter.
RequestsInv ==
  /\ RequestsTypeOK /\ InvitationsHeld /\ DisablingSeen
  /\ PasswordsKnown /\ OldPasswordSessionsEnd

\* A login under way has one place at the limiter, and nobody else has one.
LeasesHeld ==
  /\ \A i \in DOMAIN events : events[i].lease \in Login =>
       pc[events[i].lease] \in {"leased", "verified", "opened"}
  /\ \A i, j \in DOMAIN events :
       events[i].lease \in Login /\ events[i].lease = events[j].lease => i = j

\* Inductive: what the requests hold and are about to write, and what the limiter has counted.
IInv == RequestsInv /\ LimiterTypeOK /\ TriesCounted /\ LeasesHeld /\ GuessesWithinLimit
=============================================================================
