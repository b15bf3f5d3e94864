---------------------------- MODULE AccountsProofs ----------------------------
(***************************************************************************)
(* Proofs about Accounts, for any sets of requests of each kind: the       *)
(* inductive invariant, part after part, and the properties that follow.   *)
(***************************************************************************)
EXTENDS Accounts, TLAPS

----------------------------------------------------------------------------
(* How a request moves. *)

Kept == Acceptance \cup Change \cup Login
Closers == Disabling \cup Invitation

LEMMA Ends ==
  ASSUME RequestsTypeOK, NEW t \in Transaction, NEW stage, End(t, stage)
  PROVE  /\ pc'[t] = stage /\ (\A s \in Transaction \ {t} : pc'[s] = pc[s] /\ seen'[s] = seen[s])
         /\ \A i \in Invitation : lock[i] # t => lock'[i] = lock[i]
         /\ \A s \in Closers \ {t} : closing'[s] = closing[s]
         /\ \A s \in Kept \ {t} : with'[s] = with[s]
         /\ t \notin Acceptance => with' = with
  BY DEF RequestsTypeOK, End, Go, Closers, Kept

LEMMA EndTypes ==
  ASSUME RequestsTypeOK, NEW t \in Transaction, NEW stage \in {"idle", "done"}, End(t, stage)
  PROVE  /\ pc' \in [Transaction -> {"idle", "leased", "verified", "opened", "locked", "reading",
                                     "loaded", "flushed", "scanned", "done"}]
         /\ seen' \in [Transaction -> [user : Status \cup {"none"}, account : Status \cup {"none"},
                                       next : Status \cup {"none"}]]
         /\ lock' \in [{"user", "account"} \cup Invitation -> Transaction \cup {Nobody}]
         /\ with' \in [Login \cup Change \cup Acceptance ->
                         Secret \cup Login \cup Invitation \cup {Nobody}]
         /\ closing' \in [Disabling \cup Invitation -> SUBSET (Login \cup Invitation)]
<1>1. Unread \in [user : Status \cup {"none"}, account : Status \cup {"none"},
                  next : Status \cup {"none"}]
  BY DEF Unread
<1>2. pc' \in [Transaction -> {"idle", "leased", "verified", "opened", "locked", "reading",
                               "loaded", "flushed", "scanned", "done"}]
  BY DEF RequestsTypeOK, End, Go
<1>3. seen' = [seen EXCEPT ![t] = Unread]
  BY DEF End
<1>4. seen' \in [Transaction -> [user : Status \cup {"none"}, account : Status \cup {"none"},
                                 next : Status \cup {"none"}]]
  BY <1>1, <1>3 DEF RequestsTypeOK
<1>5. lock' \in [{"user", "account"} \cup Invitation -> Transaction \cup {Nobody}]
  BY DEF RequestsTypeOK, End
<1>6. with' \in [Login \cup Change \cup Acceptance ->
                   Secret \cup Login \cup Invitation \cup {Nobody}]
  BY DEF RequestsTypeOK, End
<1>7. closing' \in [Disabling \cup Invitation -> SUBSET (Login \cup Invitation)]
  BY DEF RequestsTypeOK, End
<1> QED
  BY <1>2, <1>4, <1>5, <1>6, <1>7

----------------------------------------------------------------------------
(* Types. *)

\* What login and reading write.
LEMMA EarlyTypes ==
  ASSUME RequestsInv, NEW t \in Transaction,
         \/ t \in Login /\ (Attempt(t) \/ Verify(t) \/ FailLogin(t) \/ OpenSession(t)
                            \/ ReturnLease(t) \/ EndSession(t))
         \/ t \in Change /\ LoadSession(t)
         \/ ReadUser(t) \/ ReadAccount(t)
  PROVE  RequestsTypeOK'
<1> USE DEF rows, history, limiter
<1>1. RequestsTypeOK
  BY DEF RequestsInv
<1>2. CASE t \in Login /\ (Attempt(t) \/ ReturnLease(t))
  BY <1>1, <1>2 DEF RequestsTypeOK, Attempt, ReturnLease, Go
<1>3. CASE t \in Login /\ (Verify(t) \/ FailLogin(t))
  <2>1. with' \in [Login \cup Change \cup Acceptance ->
                    Secret \cup Login \cup Invitation \cup {Nobody}]
    BY <1>1, <1>3 DEF RequestsTypeOK, Verify, FailLogin
  <2>2. racing' \subseteq Login
    BY <1>1, <1>3 DEF RequestsTypeOK, Verify, FailLogin
  <2> QED
    BY <1>1, <1>3, <2>1, <2>2 DEF RequestsTypeOK, Verify, FailLogin, Go
<1>4. CASE t \in Login /\ (OpenSession(t) \/ EndSession(t))
  BY <1>1, <1>4 DEF RequestsTypeOK, OpenSession, EndSession, Go
<1>5. CASE t \in Change /\ LoadSession(t)
  <2>1. PICK l \in Login : with' = [with EXCEPT ![t] = l]
    BY <1>5 DEF LoadSession
  <2> QED
    BY <1>1, <1>5, <2>1 DEF RequestsTypeOK, LoadSession, Go
<1>6. CASE ReadUser(t)
  <2>1. seen' = [seen EXCEPT ![t].user = user] /\ user \in Status /\ pc' = [pc EXCEPT ![t] = "reading"]
    BY <1>1, <1>6 DEF ReadUser, RequestsTypeOK, Go
  <2>2. seen' \in [Transaction -> [user : Status \cup {"none"}, account : Status \cup {"none"},
                                   next : Status \cup {"none"}]]
    BY SMTT(30), <1>1, <2>1 DEF RequestsTypeOK
  <2> QED
    BY <1>1, <1>6, <2>1, <2>2 DEF RequestsTypeOK, ReadUser
<1>7. CASE ReadAccount(t)
  <2> DEFINE next == IF t \notin Enabling THEN seen[t].next
                     ELSE IF mustChange THEN "PENDING" ELSE "ACTIVE"
  <2>1. seen' = [seen EXCEPT ![t] = [seen[t] EXCEPT !.account = account, !.next = next]]
    BY <1>7 DEF ReadAccount
  <2>2. /\ seen[t] \in [user : Status \cup {"none"}, account : Status \cup {"none"},
                        next : Status \cup {"none"}]
        /\ account \in Status
    BY <1>1 DEF RequestsTypeOK
  <2>3. next \in Status \cup {"none"}
    BY <2>2 DEF Status
  <2> HIDE DEF next
  <2>4. [seen[t] EXCEPT !.account = account, !.next = next] \in
           [user : Status \cup {"none"}, account : Status \cup {"none"}, next : Status \cup {"none"}]
    BY <2>2, <2>3
  <2>5. seen' \in [Transaction -> [user : Status \cup {"none"}, account : Status \cup {"none"},
                                   next : Status \cup {"none"}]]
    BY <1>1, <2>1, <2>4 DEF RequestsTypeOK
  <2>6. pc' = [pc EXCEPT ![t] = "loaded"]
    BY <1>7 DEF ReadAccount, Go
  <2> QED
    BY <1>1, <1>7, <2>5, <2>6 DEF RequestsTypeOK, ReadAccount
<1> QED
  BY <1>2, <1>3, <1>4, <1>5, <1>6, <1>7

\* What is locked and remembered between two statements.
LEMMA HoldTypes ==
  ASSUME RequestsInv,
         \/ \E v \in Invitation : ReplaceActive(v) \/ CloseInvitation(v)
         \/ \E a \in Acceptance : LoadValid(a)
         \/ \E d \in Disabling : FlushDisabling(d) \/ RevokeAllActive(d)
  PROVE  RequestsTypeOK'
<1> USE DEF rows, history, limiter
<1>1. RequestsTypeOK
  BY DEF RequestsInv
<1>2. ASSUME NEW v \in Invitation, ReplaceActive(v) PROVE RequestsTypeOK'
  BY <1>1, <1>2 DEF RequestsTypeOK, ReplaceActive, Go, Active, Transaction
<1>3. ASSUME NEW v \in Invitation, CloseInvitation(v) PROVE RequestsTypeOK'
  BY <1>1, <1>3 DEF RequestsTypeOK, CloseInvitation
<1>4. ASSUME NEW a \in Acceptance, LoadValid(a) PROVE RequestsTypeOK'
  <2>1. PICK i \in Invitation : /\ lock' = [lock EXCEPT ![i] = a]
                                /\ with' = [with EXCEPT ![a] = i]
    BY <1>4 DEF LoadValid, Active
  <2> QED
    BY <1>1, <1>4, <2>1 DEF RequestsTypeOK, LoadValid, Go, Transaction
<1>5. ASSUME NEW d \in Disabling, FlushDisabling(d) PROVE RequestsTypeOK'
  BY <1>1, <1>5 DEF RequestsTypeOK, FlushDisabling, Go, Open, Transaction
<1>6. ASSUME NEW d \in Disabling, RevokeAllActive(d) PROVE RequestsTypeOK'
  <2>1. closing[d] \cup Active \subseteq Login \cup Invitation
    BY <1>1 DEF RequestsTypeOK, Active
  <2> QED
    BY <1>1, <1>6, <2>1 DEF RequestsTypeOK, RevokeAllActive, Go, Transaction
<1> QED
  BY <1>2, <1>3, <1>4, <1>5, <1>6

\* What a transaction writes when it commits, and that it may give up.
LEMMA CommitTypes ==
  ASSUME RequestsInv,
         \/ \E c \in Change : CommitChange(c)
         \/ \E v \in Invitation : RefuseInvitation(v) \/ CommitInvitation(v)
         \/ \E a \in Acceptance : RefuseAcceptance(a) \/ CommitAcceptance(a)
         \/ \E d \in Disabling : CommitDisabling(d)
         \/ \E e \in Enabling : CommitEnabling(e)
         \/ \E t \in Transaction : Abort(t)
  PROVE  RequestsTypeOK'
<1> USE DEF rows, history, limiter
<1>1. RequestsTypeOK
  BY DEF RequestsInv
<1>2. ASSUME NEW t \in Transaction, GiveUp(t) PROVE RequestsTypeOK'
  <2>1. End(t, "idle")
    BY <1>2 DEF GiveUp
  <2> QED
    BY <1>1, <1>2, <2>1, EndTypes DEF GiveUp, RequestsTypeOK
<1>3. ASSUME NEW S PROVE RevokeForAccount(S) => session' \in [Login -> {"none", "active", "closed"}]
  BY <1>1 DEF RequestsTypeOK, RevokeForAccount, CloseSessions
<1>4. ASSUME NEW c \in Change, CommitChange(c) PROVE RequestsTypeOK'
  <2>1. End(c, "done") /\ c \in Transaction
    BY <1>4 DEF CommitChange, Finish, Transaction
  <2>2. session' \in [Login -> {"none", "active", "closed"}]
    BY <1>3, <1>4 DEF CommitChange
  <2>3. password' \in Secret /\ mustChange' \in BOOLEAN /\ racing' \subseteq Login
    BY <1>1, <1>4 DEF CommitChange, RequestsTypeOK, Secret, UnderWay
  <2> QED
    BY <1>1, <1>4, <2>1, <2>2, <2>3, EndTypes DEF CommitChange, RequestsTypeOK
<1>5. ASSUME NEW v \in Invitation, CommitInvitation(v) PROVE RequestsTypeOK'
  <2>1. End(v, "done") /\ v \in Transaction
    BY <1>5 DEF CommitInvitation, Finish, Transaction
  <2>2. invitation' \in [Invitation -> {"none", "active", "used", "closed"}] /\ unseen' \subseteq Invitation
    BY <1>1, <1>5 DEF CommitInvitation, CloseInvitations, RequestsTypeOK
  <2> QED
    BY <1>1, <1>5, <2>1, <2>2, EndTypes DEF CommitInvitation, RequestsTypeOK
<1>6. ASSUME NEW a \in Acceptance, CommitAcceptance(a) PROVE RequestsTypeOK'
  <2>1. End(a, "done") /\ a \in Transaction
    BY <1>6 DEF CommitAcceptance, Finish, Transaction
  <2>2. session' \in [Login -> {"none", "active", "closed"}]
    BY <1>3, <1>6 DEF CommitAcceptance
  <2>3. /\ password' \in Secret /\ mustChange' \in BOOLEAN /\ racing' \subseteq Login
        /\ user' \in Status /\ account' \in Status
    BY <1>1, <1>6 DEF CommitAcceptance, RequestsTypeOK, Secret, UnderWay, Written, Status
  <2>4. invitation' \in [Invitation -> {"none", "active", "used", "closed"}]
    BY <1>1, <1>6 DEF CommitAcceptance, RequestsTypeOK
  <2> QED
    BY <1>1, <1>6, <2>1, <2>2, <2>3, <2>4, EndTypes DEF CommitAcceptance, RequestsTypeOK
<1>7. ASSUME NEW d \in Disabling, CommitDisabling(d) PROVE RequestsTypeOK'
  <2>1. End(d, "done") /\ d \in Transaction
    BY <1>7 DEF CommitDisabling, Finish, Transaction
  <2>2. session' \in [Login -> {"none", "active", "closed"}]
    BY <1>1, <1>7 DEF CommitDisabling, CloseSessions, RequestsTypeOK
  <2>3. user' \in Status /\ account' \in Status
    BY <1>1, <1>7 DEF CommitDisabling, RequestsTypeOK, Written, Status
  <2>4. invitation' \in [Invitation -> {"none", "active", "used", "closed"}]
    BY <1>1, <1>7 DEF CommitDisabling, CloseInvitations, RequestsTypeOK
  <2> QED
    BY <1>1, <1>7, <2>1, <2>2, <2>3, <2>4, EndTypes DEF CommitDisabling, RequestsTypeOK
<1>8. ASSUME NEW e \in Enabling, CommitEnabling(e) PROVE RequestsTypeOK'
  <2>1. End(e, "done") /\ e \in Transaction
    BY <1>8 DEF CommitEnabling, Finish, Transaction
  <2>2. seen[e].next \in {"PENDING", "ACTIVE"}
    BY <1>8 DEF CommitEnabling, RequestsInv, DisablingSeen
  <2>3. user' \in Status /\ account' \in Status
    BY <1>1, <1>8, <2>2 DEF CommitEnabling, RequestsTypeOK, Written, Status
  <2> QED
    BY <1>1, <1>8, <2>1, <2>3, EndTypes DEF CommitEnabling, RequestsTypeOK
<1> QED
  BY <1>2, <1>4, <1>5, <1>6, <1>7, <1>8 DEF RefuseInvitation, RefuseAcceptance, Abort, Transaction

LEMMA TypesKept == ASSUME RequestsInv, [Next]_vars PROVE RequestsTypeOK'
<1>1. CASE PassTime \/ UNCHANGED vars
  BY <1>1 DEF RequestsInv, RequestsTypeOK, PassTime, vars, rows, history
<1> QED
  BY <1>1, EarlyTypes, HoldTypes, CommitTypes DEF Next, Transaction

----------------------------------------------------------------------------
(* Invitations.  FOR UPDATE in accept(), and the row locks of the updates  *)
(* that close invitations, keep an open invitation to one transaction.     *)

\* A transaction that ends and leaves the invitations as they are.
LEMMA InvitationsKeptByEnd ==
  ASSUME RequestsTypeOK, InvitationsHeld, NEW t \in Transaction, NEW stage \in {"idle", "done"},
         End(t, stage), UNCHANGED invitation, t \in Invitation => pc[t] # "done"
  PROVE  InvitationsHeld'
<1> USE Ends DEF Transaction, Closers, Kept
<1>1. \A i \in Invitation : invitation'[i] # "none" => pc'[i] = "done"
  BY DEF InvitationsHeld
<1>2. ASSUME NEW a \in Acceptance, pc'[a] \in {"locked", "reading", "loaded"}
      PROVE  with'[a] \in Invitation /\ lock'[with'[a]] = a /\ invitation'[with'[a]] = "active"
  BY <1>2 DEF InvitationsHeld
<1>3. ASSUME NEW s \in Disabling \cup Invitation, pc'[s] = "scanned",
             NEW i \in closing'[s] \cap Invitation
      PROVE  lock'[i] = s /\ invitation'[i] = "active"
  BY <1>3 DEF InvitationsHeld
<1>4. ASSUME NEW d \in Disabling, pc'[d] = "flushed" PROVE closing'[d] \cap Invitation = {}
  BY <1>4 DEF InvitationsHeld
<1> QED
  BY <1>1, <1>2, <1>3, <1>4 DEF InvitationsHeld

\* A request that moves on without touching locks or invitations.
LEMMA InvitationsKeptByMove ==
  ASSUME RequestsTypeOK, InvitationsHeld, NEW t \in Transaction, NEW stage, Go(t, stage),
         UNCHANGED <<invitation, lock, closing>>,
         \A a \in Acceptance : with'[a] = with[a],
         t \in Invitation => pc[t] # "done" /\ stage # "scanned",
         t \in Acceptance => pc[t] \in {"locked", "reading", "loaded"},
         t \in Disabling => stage \notin {"flushed", "scanned"}
  PROVE  InvitationsHeld'
<1>1. pc'[t] = stage /\ \A s \in Transaction \ {t} : pc'[s] = pc[s]
  BY DEF Go, RequestsTypeOK
<1>2. Acceptance \cap (Disabling \cup Invitation) = {} /\ Invitation \cap Disabling = {}
  BY Kinds
<1> USE DEF Transaction
<1>3. \A i \in Invitation : invitation'[i] # "none" => pc'[i] = "done"
  BY <1>1 DEF InvitationsHeld
<1>4. ASSUME NEW a \in Acceptance, pc'[a] \in {"locked", "reading", "loaded"}
      PROVE  with'[a] \in Invitation /\ lock'[with'[a]] = a /\ invitation'[with'[a]] = "active"
  BY <1>1, <1>4 DEF InvitationsHeld
<1>5. ASSUME NEW s \in Disabling \cup Invitation, pc'[s] = "scanned",
             NEW i \in closing'[s] \cap Invitation
      PROVE  lock'[i] = s /\ invitation'[i] = "active"
  BY <1>1, <1>5 DEF InvitationsHeld
<1>6. ASSUME NEW d \in Disabling, pc'[d] = "flushed" PROVE closing'[d] \cap Invitation = {}
  BY <1>1, <1>6 DEF InvitationsHeld
<1> QED
  BY <1>3, <1>4, <1>5, <1>6 DEF InvitationsHeld

\* Logins, changes and reading.
LEMMA InvitationsKeptEarly ==
  ASSUME RequestsInv, NEW t \in Transaction,
         \/ t \in Login /\ (Attempt(t) \/ Verify(t) \/ FailLogin(t) \/ OpenSession(t)
                            \/ ReturnLease(t) \/ EndSession(t))
         \/ t \in Change /\ LoadSession(t)
         \/ t \notin Login \cup Change /\ ReadUser(t)
         \/ t \notin Login \cup Change \cup Invitation /\ ReadAccount(t)
  PROVE  InvitationsHeld'
<1> USE DEF rows, history, limiter, RequestsInv
<1>1. (Login \cup Change) \cap (Acceptance \cup Invitation \cup Disabling) = {}
  BY Kinds
<1>2. CASE t \in Login /\ EndSession(t)
  BY <1>2 DEF EndSession, InvitationsHeld
<1>3. CASE t \in Login /\ (Attempt(t) \/ Verify(t) \/ FailLogin(t) \/ OpenSession(t) \/ ReturnLease(t))
  <2>1. /\ UNCHANGED <<invitation, lock, closing>> /\ \E stage : Go(t, stage)
        /\ \A a \in Acceptance : with'[a] = with[a]
    BY <1>1, <1>3 DEF Attempt, Verify, FailLogin, OpenSession, ReturnLease, RequestsTypeOK
  <2> QED
    BY <1>1, <1>3, <2>1, InvitationsKeptByMove
<1>4. CASE t \in Change /\ LoadSession(t)
  <2>1. /\ UNCHANGED <<invitation, lock, closing>> /\ Go(t, "loaded")
        /\ \A a \in Acceptance : with'[a] = with[a]
    BY <1>1, <1>4 DEF LoadSession, RequestsTypeOK
  <2> QED
    BY <1>1, <1>4, <2>1, InvitationsKeptByMove
<1>5. CASE ReadUser(t)
  <2>1. Acceptance \cap Invitation = {}
    BY Kinds
  <2> QED
    BY <1>5, <2>1, InvitationsKeptByMove DEF ReadUser
<1>6. CASE t \notin Invitation /\ ReadAccount(t)
  BY <1>6, InvitationsKeptByMove DEF ReadAccount
<1> QED
  BY <1>2, <1>3, <1>4, <1>5, <1>6

\* Taking the locks: nobody else holds an invitation that is found free.
LEMMA InvitationsKeptByHolding ==
  ASSUME RequestsInv,
         \/ \E v \in Invitation : ReplaceActive(v) \/ CloseInvitation(v)
         \/ \E a \in Acceptance : LoadValid(a)
         \/ \E d \in Disabling : FlushDisabling(d) \/ RevokeAllActive(d)
  PROVE  InvitationsHeld'
<1> USE DEF rows, history, limiter
<1>1. RequestsTypeOK /\ InvitationsHeld
  BY DEF RequestsInv
<1>2. /\ Acceptance \cap (Disabling \cup Invitation) = {} /\ Invitation \cap Disabling = {}
      /\ Login \cap Invitation = {}
      /\ Nobody \notin Transaction
      /\ {"user", "account"} \cap Invitation = {}
  BY Kinds DEF Transaction
<1>3. ASSUME NEW v \in Invitation, CloseInvitation(v) PROVE InvitationsHeld'
  <2>1. /\ invitation[v] = "active" /\ lock[v] = Nobody
        /\ invitation'[v] = "closed" /\ \A i \in Invitation \ {v} : invitation'[i] = invitation[i]
        /\ UNCHANGED <<lock, pc, with, closing>>
    BY <1>1, <1>3 DEF CloseInvitation, RequestsTypeOK
  <2>2. \A t \in Transaction : t # Nobody
    BY <1>2
  <2> QED
    BY <1>1, <2>1, <2>2 DEF InvitationsHeld, Transaction
<1>4. ASSUME NEW t \in Disabling \cup Invitation, Free(t, Active),
             lock' = [r \in DOMAIN lock |-> IF r \in Active THEN t ELSE lock[r]],
             closing'[t] \cap Invitation \subseteq Active,
             \A s \in (Disabling \cup Invitation) \ {t} : closing'[s] = closing[s],
             Go(t, "scanned"), UNCHANGED <<invitation, with>>,
             pc[t] # "done"
      PROVE  InvitationsHeld'
  <2>1. /\ t \in Transaction
        /\ pc'[t] = "scanned" /\ \A s \in Transaction \ {t} : pc'[s] = pc[s]
        /\ \A i \in Active : lock'[i] = t /\ invitation[i] = "active"
    BY <1>1, <1>4 DEF Go, RequestsTypeOK, Transaction, Active
  <2>2. \A i \in Active : lock[i] \in {Nobody, t}
    BY <1>4 DEF Free
  <2>3. \A a \in Acceptance : pc[a] \notin {"locked", "reading", "loaded"}
    BY <1>1, <1>2, <1>4, <2>2 DEF InvitationsHeld, Active, Transaction
  <2>4. \A s \in (Disabling \cup Invitation) \ {t} :
          pc[s] = "scanned" => closing[s] \cap Invitation = {}
    BY <1>1, <1>2, <2>2 DEF InvitationsHeld, Active, Transaction
  <2>5. \A i \in Invitation : invitation'[i] # "none" => pc'[i] = "done"
    BY <1>1, <1>4, <2>1 DEF InvitationsHeld, Transaction
  <2>6. \A a \in Acceptance : pc'[a] \notin {"locked", "reading", "loaded"}
    BY <1>2, <1>4, <2>1, <2>3 DEF Transaction
  <2>7. ASSUME NEW s \in Disabling \cup Invitation, pc'[s] = "scanned",
               NEW i \in closing'[s] \cap Invitation
        PROVE  lock'[i] = s /\ invitation'[i] = "active"
    BY <1>4, <2>1, <2>4, <2>7 DEF Transaction
  <2>8. \A d \in Disabling : pc'[d] = "flushed" => closing'[d] \cap Invitation = {}
    BY <1>1, <1>4, <2>1 DEF InvitationsHeld, Transaction
  <2> QED
    BY <2>5, <2>6, <2>7, <2>8 DEF InvitationsHeld
<1>5. ASSUME NEW v \in Invitation, ReplaceActive(v) PROVE InvitationsHeld'
  <2>1. /\ closing'[v] = Active
        /\ \A s \in (Disabling \cup Invitation) \ {v} : closing'[s] = closing[s]
    BY <1>1, <1>5 DEF ReplaceActive, RequestsTypeOK
  <2> QED
    BY <1>4, <1>5, <2>1 DEF ReplaceActive
<1>6. ASSUME NEW d \in Disabling, RevokeAllActive(d) PROVE InvitationsHeld'
  <2>1. /\ closing'[d] = closing[d] \cup Active
        /\ \A s \in (Disabling \cup Invitation) \ {d} : closing'[s] = closing[s]
    BY <1>1, <1>6 DEF RevokeAllActive, RequestsTypeOK
  <2>2. closing[d] \cap Invitation = {}
    BY <1>1, <1>6 DEF RevokeAllActive, InvitationsHeld
  <2> QED
    BY <1>4, <1>6, <2>1, <2>2 DEF RevokeAllActive
<1>7. ASSUME NEW d \in Disabling, FlushDisabling(d) PROVE InvitationsHeld'
  <2>1. /\ pc[d] = "loaded" /\ pc'[d] = "flushed"
        /\ \A s \in Transaction \ {d} : pc'[s] = pc[s]
        /\ closing'[d] = Open
        /\ \A s \in (Disabling \cup Invitation) \ {d} : closing'[s] = closing[s]
        /\ \A i \in Invitation : lock'[i] = lock[i]
        /\ UNCHANGED <<invitation, with>>
    BY <1>1, <1>2, <1>7 DEF FlushDisabling, Go, Dirty, RequestsTypeOK, Transaction
  <2>2. Open \cap Invitation = {}
    BY <1>2 DEF Open
  <2> QED
    BY <1>1, <1>2, <2>1, <2>2 DEF InvitationsHeld, Transaction
<1>8. ASSUME NEW a \in Acceptance, LoadValid(a) PROVE InvitationsHeld'
  <2>1. PICK i \in Active : /\ lock[i] = Nobody /\ lock' = [lock EXCEPT ![i] = a]
                            /\ with' = [with EXCEPT ![a] = i]
    BY <1>8 DEF LoadValid
  <2>2. /\ i \in Invitation /\ invitation[i] = "active"
        /\ with'[a] = i /\ \A b \in Acceptance \ {a} : with'[b] = with[b]
        /\ lock'[i] = a /\ \A j \in Invitation \ {i} : lock'[j] = lock[j]
        /\ pc'[a] = "locked" /\ \A s \in Transaction \ {a} : pc'[s] = pc[s]
        /\ UNCHANGED <<invitation, closing>>
    BY <1>1, <1>8, <2>1 DEF LoadValid, Active, Go, RequestsTypeOK, Transaction
  <2>3. \A t \in Transaction : t # Nobody
    BY <1>2
  <2> QED
    BY <1>1, <1>2, <2>1, <2>2, <2>3 DEF InvitationsHeld, Transaction
<1> QED
  BY <1>3, <1>5, <1>6, <1>7, <1>8

LEMMA InvitationsKeptByGivingUp ==
  ASSUME RequestsInv, NEW t \in Transaction, GiveUp(t), pc[t] # "done"
  PROVE  InvitationsHeld'
  BY InvitationsKeptByEnd DEF GiveUp, RequestsInv, rows

LEMMA InvitationsKeptByCommit ==
  ASSUME RequestsInv,
         \/ \E c \in Change : CommitChange(c)
         \/ \E v \in Invitation : CommitInvitation(v)
         \/ \E a \in Acceptance : CommitAcceptance(a)
         \/ \E d \in Disabling : CommitDisabling(d)
         \/ \E e \in Enabling : CommitEnabling(e)
  PROVE  InvitationsHeld'
<1> USE DEF Finish
<1>1. RequestsTypeOK /\ InvitationsHeld
  BY DEF RequestsInv
<1>2. /\ Change \cap (Acceptance \cup Invitation \cup Disabling) = {}
      /\ Acceptance \cap (Disabling \cup Invitation) = {} /\ Invitation \cap Disabling = {}
      /\ Enabling \cap (Acceptance \cup Invitation \cup Disabling) = {}
  BY Kinds
<1>3. ASSUME NEW c \in Change, CommitChange(c) PROVE InvitationsHeld'
  BY <1>1, <1>2, <1>3, InvitationsKeptByEnd DEF CommitChange, Transaction
<1>4. ASSUME NEW e \in Enabling, CommitEnabling(e) PROVE InvitationsHeld'
  BY <1>1, <1>2, <1>4, InvitationsKeptByEnd DEF CommitEnabling, Transaction
<1>5. ASSUME NEW t \in Transaction, End(t, "done"),
             \A i \in Invitation \ {t} :
               invitation'[i] = invitation[i] \/ (lock[i] = t /\ invitation[i] = "active"),
             t \in Invitation => invitation'[t] = "active" /\ pc[t] = "scanned"
      PROVE  InvitationsHeld'
  <2>1. /\ pc'[t] = "done" /\ \A s \in Transaction \ {t} : pc'[s] = pc[s]
        /\ \A i \in Invitation : lock[i] # t => lock'[i] = lock[i]
        /\ \A s \in (Disabling \cup Invitation) \ {t} : closing'[s] = closing[s]
        /\ \A a \in Acceptance \ {t} : with'[a] = with[a]
    BY <1>1, <1>5, Ends DEF Closers, Kept
  <2>2. \A i \in Invitation : lock[i] # t /\ invitation[i] # "none" => invitation'[i] = invitation[i]
    BY <1>1, <1>5 DEF InvitationsHeld
  <2>3. \A i \in Invitation : invitation'[i] # "none" => pc'[i] = "done"
    BY <1>1, <1>5, <2>1 DEF InvitationsHeld, Transaction
  <2>4. ASSUME NEW a \in Acceptance, pc'[a] \in {"locked", "reading", "loaded"}
        PROVE  with'[a] \in Invitation /\ lock'[with'[a]] = a /\ invitation'[with'[a]] = "active"
    BY <1>1, <2>1, <2>2, <2>4 DEF InvitationsHeld, Transaction
  <2>5. ASSUME NEW s \in Disabling \cup Invitation, pc'[s] = "scanned",
               NEW i \in closing'[s] \cap Invitation
        PROVE  lock'[i] = s /\ invitation'[i] = "active"
    BY <1>1, <2>1, <2>2, <2>5 DEF InvitationsHeld, Transaction
  <2>6. \A d \in Disabling : pc'[d] = "flushed" => closing'[d] \cap Invitation = {}
    BY <1>1, <2>1 DEF InvitationsHeld, Transaction
  <2> QED
    BY <2>3, <2>4, <2>5, <2>6 DEF InvitationsHeld
<1>6. ASSUME NEW v \in Invitation, CommitInvitation(v) PROVE InvitationsHeld'
  <2>1. /\ invitation'[v] = "active"
        /\ \A i \in Invitation \ {v} :
             invitation'[i] = IF i \in closing[v] THEN "closed" ELSE invitation[i]
    BY <1>1, <1>6 DEF CommitInvitation, CloseInvitations, RequestsTypeOK
  <2>2. pc[v] = "scanned" /\ \A i \in closing[v] \cap Invitation : lock[i] = v /\ invitation[i] = "active"
    BY <1>1, <1>6 DEF CommitInvitation, InvitationsHeld
  <2>3. \A i \in Invitation \ {v} :
          invitation'[i] = invitation[i] \/ (lock[i] = v /\ invitation[i] = "active")
    BY <2>1, <2>2
  <2>4. v \in Transaction /\ End(v, "done")
    BY <1>6 DEF CommitInvitation, Transaction
  <2>5. v \in Invitation => invitation'[v] = "active" /\ pc[v] = "scanned"
    BY <1>2, <2>1, <2>2
  <2> QED
    BY <1>5, <2>3, <2>4, <2>5
<1>7. ASSUME NEW d \in Disabling, CommitDisabling(d) PROVE InvitationsHeld'
  <2>1. \A i \in Invitation :
             invitation'[i] = IF i \in closing[d] THEN "closed" ELSE invitation[i]
    BY <1>1, <1>7 DEF CommitDisabling, CloseInvitations, RequestsTypeOK
  <2>2. \A i \in closing[d] \cap Invitation : lock[i] = d /\ invitation[i] = "active"
    BY <1>1, <1>7 DEF CommitDisabling, InvitationsHeld
  <2>3. \A i \in Invitation \ {d} :
          invitation'[i] = invitation[i] \/ (lock[i] = d /\ invitation[i] = "active")
    BY <2>1, <2>2
  <2>4. d \in Transaction /\ End(d, "done")
    BY <1>7 DEF CommitDisabling, Transaction
  <2>5. d \in Invitation => invitation'[d] = "active" /\ pc[d] = "scanned"
    BY <1>2, <2>1, <2>2
  <2> QED
    BY <1>5, <2>3, <2>4, <2>5
<1>8. ASSUME NEW a \in Acceptance, CommitAcceptance(a) PROVE InvitationsHeld'
  <2>1. with[a] \in Invitation /\ lock[with[a]] = a /\ invitation[with[a]] = "active"
    BY <1>1, <1>8 DEF CommitAcceptance, InvitationsHeld
  <2>2. \A i \in Invitation : invitation'[i] = IF i = with[a] THEN "used" ELSE invitation[i]
    BY <1>1, <1>8, <2>1 DEF CommitAcceptance, RequestsTypeOK
  <2>3. \A i \in Invitation \ {a} :
          invitation'[i] = invitation[i] \/ (lock[i] = a /\ invitation[i] = "active")
    BY <2>1, <2>2
  <2>4. a \in Transaction /\ End(a, "done")
    BY <1>8 DEF CommitAcceptance, Transaction
  <2>5. a \in Invitation => invitation'[a] = "active" /\ pc[a] = "scanned"
    BY <1>2, <2>1, <2>2
  <2> QED
    BY <1>5, <2>3, <2>4, <2>5
<1> QED
  BY <1>3, <1>4, <1>6, <1>7, <1>8

LEMMA InvitationsKept == ASSUME RequestsInv, [Next]_vars PROVE InvitationsHeld'
<1>1. CASE PassTime \/ UNCHANGED vars
  BY <1>1 DEF RequestsInv, InvitationsHeld, PassTime, vars, rows, history
<1>2. ASSUME \/ \E t \in Transaction : Abort(t)
             \/ \E v \in Invitation : RefuseInvitation(v)
             \/ \E a \in Acceptance : RefuseAcceptance(a)
      PROVE  InvitationsHeld'
  BY <1>2, InvitationsKeptByGivingUp DEF Abort, RefuseInvitation, RefuseAcceptance, Transaction
<1>3. CASE \E t \in Acceptance \cup Invitation \cup Disabling \cup Enabling : ReadUser(t)
  BY <1>3, Kinds, InvitationsKeptEarly DEF Transaction
<1>4. CASE \E t \in Acceptance \cup Disabling \cup Enabling : ReadAccount(t)
  BY <1>4, Kinds, InvitationsKeptEarly DEF Transaction
<1> QED
  BY <1>1, <1>2, <1>3, <1>4, InvitationsKeptEarly, InvitationsKeptByHolding,
     InvitationsKeptByCommit DEF Next, Transaction

----------------------------------------------------------------------------
(* Disabling.  An acceptance that runs beside it either made it wait, or   *)
(* took an invitation it could not see.                                    *)

\* A step that neither writes the user nor touches an invitation, a lock, or what the
\* acceptances and enablings have read.
LEMMA DisablingKeptByMove ==
  ASSUME RequestsInv, NEW t \in Transaction, NEW stage,
         pc'[t] = stage, \A s \in Transaction \ {t} : pc'[s] = pc[s],
         \A s \in Transaction \ {t} : seen'[s] = seen[s],
         \A a \in Acceptance \ {t} : with'[a] = with[a],
         \A i \in Invitation : lock[i] # t => lock'[i] = lock[i],
         \A i \in Invitation : invitation'[i] = "active" => invitation[i] = "active",
         user' = "DISABLED" => user = "DISABLED",
         unseen \subseteq unseen',
         t \in Disabling => stage # "scanned",
         t \in Acceptance => stage \notin {"reading", "loaded"},
         t \in Enabling => stage # "loaded"
  PROVE  DisablingSeen'
<1> USE DEF RequestsInv, Transaction
<1>1. ASSUME NEW d \in Disabling, NEW i \in Invitation, pc'[d] = "scanned", invitation'[i] = "active"
      PROVE  lock'[i] = d \/ i \in unseen'
  BY <1>1 DEF DisablingSeen
<1>2. ASSUME NEW a \in Acceptance, user' = "DISABLED", pc'[a] \in {"reading", "loaded"},
             seen'[a].user # "DISABLED"
      PROVE  with'[a] \in unseen'
  BY <1>2 DEF DisablingSeen
<1>3. \A e \in Enabling : pc'[e] = "loaded" => seen'[e].next \in {"PENDING", "ACTIVE"}
  BY DEF DisablingSeen
<1> QED
  BY <1>1, <1>2, <1>3 DEF DisablingSeen

LEMMA DisablingKeptByLogin ==
  ASSUME RequestsInv, NEW l \in Login,
         \/ Attempt(l) \/ Verify(l) \/ FailLogin(l) \/ OpenSession(l) \/ ReturnLease(l) \/ EndSession(l)
  PROVE  DisablingSeen'
<1> USE DEF rows, history, limiter
<1>1. RequestsTypeOK
  BY DEF RequestsInv
<1>2. Login \cap (Acceptance \cup Disabling \cup Enabling) = {}
  BY Kinds
<1>3. CASE EndSession(l)
  BY <1>3 DEF EndSession, DisablingSeen, RequestsInv
<1>4. CASE ~EndSession(l)
  <2>1. /\ UNCHANGED <<user, invitation, lock, seen, unseen>> /\ \E stage : Go(l, stage)
        /\ \A a \in Acceptance : with'[a] = with[a]
    BY <1>1, <1>2, <1>4 DEF Attempt, Verify, FailLogin, OpenSession, ReturnLease, RequestsTypeOK
  <2>2. \A s \in Transaction \ {l} : pc'[s] = pc[s]
    BY <1>1, <2>1 DEF Go, RequestsTypeOK
  <2> QED
    BY <1>2, <2>1, <2>2, DisablingKeptByMove DEF Transaction
<1> QED
  BY <1>3, <1>4

LEMMA DisablingKeptByReading ==
  ASSUME RequestsInv, NEW t \in Transaction, t \notin Login,
         (t \in Change /\ LoadSession(t)) \/ ReadUser(t) \/ (t \notin Change /\ ReadAccount(t))
  PROVE  DisablingSeen'
<1> USE DEF rows, history, limiter
<1>1. RequestsTypeOK
  BY DEF RequestsInv
<1>2. /\ Change \cap (Acceptance \cup Disabling \cup Enabling) = {}
      /\ Acceptance \cap (Disabling \cup Enabling) = {}
      /\ Disabling \cap Enabling = {}
  BY Kinds
<1>3. CASE t \in Change /\ LoadSession(t)
  <2>1. /\ UNCHANGED <<user, invitation, lock, seen, unseen>>
        /\ pc'[t] = "loaded" /\ \A s \in Transaction \ {t} : pc'[s] = pc[s]
        /\ \A a \in Acceptance : with'[a] = with[a]
    BY <1>1, <1>2, <1>3 DEF LoadSession, Go, RequestsTypeOK
  <2> QED
    BY <1>2, <1>3, <2>1, DisablingKeptByMove
<1>4. CASE ReadUser(t)
  <2>1. /\ UNCHANGED <<user, invitation, lock, with, unseen>>
        /\ pc'[t] = "reading" /\ \A s \in Transaction \ {t} : pc'[s] = pc[s]
        /\ seen'[t].user = user /\ \A s \in Transaction \ {t} : seen'[s] = seen[s]
    BY <1>1, <1>4 DEF ReadUser, Go, RequestsTypeOK
  <2> QED
    BY <1>2, <2>1 DEF RequestsInv, DisablingSeen, Transaction
<1>5. CASE t \notin Change /\ ReadAccount(t)
  <2> DEFINE next == IF t \notin Enabling THEN seen[t].next
                     ELSE IF mustChange THEN "PENDING" ELSE "ACTIVE"
  <2>1. /\ UNCHANGED <<user, invitation, lock, with, unseen>>
        /\ pc[t] = "reading"
        /\ pc'[t] = "loaded" /\ \A s \in Transaction \ {t} : pc'[s] = pc[s]
        /\ seen' = [seen EXCEPT ![t] = [seen[t] EXCEPT !.account = account, !.next = next]]
    BY <1>1, <1>5 DEF ReadAccount, Go, RequestsTypeOK
  <2>2. /\ seen'[t].user = seen[t].user /\ seen'[t].next = next
        /\ \A s \in Transaction \ {t} : seen'[s] = seen[s]
    BY <1>1, <2>1 DEF RequestsTypeOK
  <2>3. t \in Enabling => next \in {"PENDING", "ACTIVE"}
    OBVIOUS
  <2> HIDE DEF next
  <2> QED
    BY <1>2, <2>1, <2>2, <2>3 DEF RequestsInv, DisablingSeen, Transaction
<1> QED
  BY <1>3, <1>4, <1>5

\* The updates that look for invitations wait for the acceptances that hold one.
LEMMA DisablingKeptByHolding ==
  ASSUME RequestsInv,
         \/ \E v \in Invitation : ReplaceActive(v) \/ CloseInvitation(v)
         \/ \E a \in Acceptance : LoadValid(a)
         \/ \E d \in Disabling : FlushDisabling(d) \/ RevokeAllActive(d)
  PROVE  DisablingSeen'
<1> USE DEF rows, history, limiter
<1>1. RequestsTypeOK /\ InvitationsHeld /\ DisablingSeen
  BY DEF RequestsInv
<1>2. /\ Acceptance \cap (Disabling \cup Invitation \cup Enabling) = {}
      /\ Invitation \cap (Disabling \cup Enabling) = {} /\ Disabling \cap Enabling = {}
      /\ Nobody \notin Transaction
      /\ {"user", "account"} \cap Invitation = {}
  BY Kinds DEF Transaction
<1>3. ASSUME NEW v \in Invitation, CloseInvitation(v) PROVE DisablingSeen'
  <2>1. /\ \A i \in Invitation : invitation'[i] = "active" => invitation[i] = "active"
        /\ UNCHANGED <<user, lock, pc, seen, with, unseen>>
    BY <1>1, <1>3 DEF CloseInvitation, RequestsTypeOK
  <2> QED
    BY <1>1, <2>1 DEF DisablingSeen
<1>4. ASSUME NEW t \in Disabling \cup Invitation, Free(t, Active),
             lock' = [r \in DOMAIN lock |-> IF r \in Active THEN t ELSE lock[r]],
             Go(t, "scanned"), UNCHANGED <<user, invitation, seen, with, unseen>>
      PROVE  DisablingSeen'
  <2>1. /\ t \in Transaction
        /\ pc'[t] = "scanned" /\ \A s \in Transaction \ {t} : pc'[s] = pc[s]
        /\ \A i \in Active : lock'[i] = t
        /\ \A i \in Active : lock[i] \in {Nobody, t}
    BY <1>1, <1>4 DEF Go, RequestsTypeOK, Transaction, Active, Free
  <2>2. ASSUME NEW d \in Disabling, NEW i \in Invitation, pc'[d] = "scanned",
               invitation'[i] = "active"
        PROVE  lock'[i] = d \/ i \in unseen'
    <3>1. i \in Active
      BY <1>4, <2>2 DEF Active
    <3>2. CASE d = t
      BY <2>1, <3>1, <3>2
    <3>3. CASE d # t
      <4>1. pc[d] = "scanned" /\ lock[i] # d
        BY <1>2, <2>1, <2>2, <3>1, <3>3 DEF Transaction
      <4> QED
        BY <1>1, <1>4, <2>2, <4>1 DEF DisablingSeen
    <3> QED
      BY <3>2, <3>3
  <2>3. \A s \in Acceptance \cup Enabling : pc'[s] = pc[s]
    BY <1>2, <1>4, <2>1 DEF Transaction
  <2> QED
    BY <1>1, <1>4, <2>2, <2>3 DEF DisablingSeen
<1>5. ASSUME NEW v \in Invitation, ReplaceActive(v) PROVE DisablingSeen'
  BY <1>4, <1>5 DEF ReplaceActive
<1>6. ASSUME NEW d \in Disabling, RevokeAllActive(d) PROVE DisablingSeen'
  BY <1>4, <1>6 DEF RevokeAllActive
<1>7. ASSUME NEW d \in Disabling, FlushDisabling(d) PROVE DisablingSeen'
  <2>1. /\ pc'[d] = "flushed" /\ \A s \in Transaction \ {d} : pc'[s] = pc[s]
        /\ \A i \in Invitation : lock'[i] = lock[i]
        /\ UNCHANGED <<user, invitation, seen, with, unseen>>
    BY <1>1, <1>2, <1>7 DEF FlushDisabling, Go, Dirty, RequestsTypeOK, Transaction
  <2> QED
    BY <1>2, <2>1, DisablingKeptByMove DEF Transaction
<1>8. ASSUME NEW a \in Acceptance, LoadValid(a) PROVE DisablingSeen'
  <2>1. PICK i \in Active : /\ lock[i] = Nobody /\ lock' = [lock EXCEPT ![i] = a]
                            /\ with' = [with EXCEPT ![a] = i]
    BY <1>8 DEF LoadValid
  <2>2. /\ a \in Transaction
        /\ \A b \in Acceptance \ {a} : with'[b] = with[b]
        /\ \A j \in Invitation \ {i} : lock'[j] = lock[j]
        /\ pc'[a] = "locked" /\ \A s \in Transaction \ {a} : pc'[s] = pc[s]
        /\ UNCHANGED <<user, invitation, seen, unseen>>
    BY <1>1, <1>8, <2>1 DEF LoadValid, Active, Go, RequestsTypeOK, Transaction
  <2>3. ASSUME NEW d \in Disabling, NEW j \in Invitation, pc'[d] = "scanned",
               invitation'[j] = "active"
        PROVE  lock'[j] = d \/ j \in unseen'
    <3>1. pc[d] = "scanned" /\ invitation[j] = "active" /\ d # Nobody
      BY <1>2, <2>2, <2>3 DEF Transaction
    <3>2. lock[j] = d \/ j \in unseen
      BY <1>1, <3>1 DEF DisablingSeen
    <3> QED
      BY <2>1, <2>2, <3>1, <3>2
  <2>4. \A b \in Acceptance : pc'[b] \in {"reading", "loaded"} => b # a
    BY <2>2
  <2> QED
    BY <1>1, <1>2, <2>2, <2>3, <2>4 DEF DisablingSeen, Transaction
<1> QED
  BY <1>3, <1>5, <1>6, <1>7, <1>8

LEMMA DisablingKeptByEnd ==
  ASSUME RequestsInv, NEW t \in Transaction, NEW stage \in {"idle", "done"}, End(t, stage),
         \A i \in Invitation : invitation'[i] = "active" => invitation[i] = "active",
         user' = "DISABLED" => user = "DISABLED",
         unseen \subseteq unseen'
  PROVE  DisablingSeen'
<1>1. RequestsTypeOK
  BY DEF RequestsInv
<1> QED
  BY <1>1, Ends, DisablingKeptByMove DEF Kept, Transaction

\* An invitation committed beside a disabling that has looked is remembered; the commit of a
\* disabling finds only such ones in the hands of acceptances.
LEMMA DisablingKeptByCommit ==
  ASSUME RequestsInv,
         \/ \E c \in Change : CommitChange(c)
         \/ \E v \in Invitation : RefuseInvitation(v) \/ CommitInvitation(v)
         \/ \E a \in Acceptance : RefuseAcceptance(a) \/ CommitAcceptance(a)
         \/ \E d \in Disabling : CommitDisabling(d)
         \/ \E e \in Enabling : CommitEnabling(e)
         \/ \E t \in Transaction : Abort(t)
  PROVE  DisablingSeen'
<1> USE DEF rows, history, limiter, Finish
<1>1. RequestsTypeOK /\ InvitationsHeld /\ DisablingSeen
  BY DEF RequestsInv
<1>2. /\ Acceptance \cap (Disabling \cup Invitation \cup Enabling) = {}
      /\ Invitation \cap (Disabling \cup Enabling) = {} /\ Disabling \cap Enabling = {}
  BY Kinds
<1>3. ASSUME NEW t \in Transaction, GiveUp(t) PROVE DisablingSeen'
  BY <1>3, DisablingKeptByEnd DEF GiveUp
<1>4. ASSUME NEW c \in Change, CommitChange(c) PROVE DisablingSeen'
  BY <1>4, DisablingKeptByEnd DEF CommitChange, Transaction
<1>5. ASSUME NEW e \in Enabling, CommitEnabling(e) PROVE DisablingSeen'
  <2>1. user' = "DISABLED" => user = "DISABLED"
    BY <1>1, <1>5 DEF CommitEnabling, DisablingSeen, Written
  <2> QED
    BY <1>5, <2>1, DisablingKeptByEnd DEF CommitEnabling, Transaction
<1>6. ASSUME NEW a \in Acceptance, CommitAcceptance(a) PROVE DisablingSeen'
  <2>1. user' = "DISABLED" => user = "DISABLED"
    BY <1>6 DEF CommitAcceptance, Written
  <2>2. \A i \in Invitation : invitation'[i] = "active" => invitation[i] = "active"
    BY <1>1, <1>6 DEF CommitAcceptance, RequestsTypeOK
  <2> QED
    BY <1>6, <2>1, <2>2, DisablingKeptByEnd DEF CommitAcceptance, Transaction
<1>7. ASSUME NEW v \in Invitation, CommitInvitation(v) PROVE DisablingSeen'
  <2>1. /\ v \in Transaction /\ End(v, "done") /\ user' = user /\ unseen \subseteq unseen'
    BY <1>7 DEF CommitInvitation, Transaction
  <2>2. \A i \in Invitation \ {v} : invitation'[i] = "active" => invitation[i] = "active"
    BY <1>1, <1>7 DEF CommitInvitation, CloseInvitations, RequestsTypeOK
  <2>3. /\ pc'[v] = "done" /\ \A s \in Transaction \ {v} : pc'[s] = pc[s] /\ seen'[s] = seen[s]
        /\ \A i \in Invitation : lock[i] # v => lock'[i] = lock[i]
        /\ \A a \in Acceptance : with'[a] = with[a]
    BY <1>1, <1>2, <2>1, Ends DEF Kept
  <2>4. ASSUME NEW d \in Disabling, NEW i \in Invitation, pc'[d] = "scanned",
               invitation'[i] = "active"
        PROVE  lock'[i] = d \/ i \in unseen'
    <3>1. pc[d] = "scanned" /\ d # v
      BY <1>2, <2>3, <2>4 DEF Transaction
    <3>2. CASE i = v
      BY <1>7, <3>1, <3>2 DEF CommitInvitation
    <3>3. CASE i # v
      BY <1>1, <2>1, <2>2, <2>3, <2>4, <3>1, <3>3 DEF DisablingSeen
    <3> QED
      BY <3>2, <3>3
  <2> QED
    BY <1>1, <1>2, <2>1, <2>3, <2>4 DEF DisablingSeen, Transaction
<1>8. ASSUME NEW d \in Disabling, CommitDisabling(d) PROVE DisablingSeen'
  <2>1. d \in Transaction /\ End(d, "done") /\ unseen' = unseen /\ pc[d] = "scanned"
    BY <1>8 DEF CommitDisabling, Transaction
  <2>2. \A i \in Invitation : invitation'[i] = "active" => invitation[i] = "active"
    BY <1>1, <1>8 DEF CommitDisabling, CloseInvitations, RequestsTypeOK
  <2>3. /\ pc'[d] = "done" /\ \A s \in Transaction \ {d} : pc'[s] = pc[s] /\ seen'[s] = seen[s]
        /\ \A i \in Invitation : lock[i] # d => lock'[i] = lock[i]
        /\ \A a \in Acceptance : with'[a] = with[a]
    BY <1>1, <1>2, <2>1, Ends DEF Kept
  <2>4. ASSUME NEW a \in Acceptance, pc'[a] \in {"reading", "loaded"}
        PROVE  with'[a] \in unseen'
    <3>1. /\ pc[a] \in {"reading", "loaded"} /\ a # d
          /\ with[a] \in Invitation /\ lock[with[a]] = a /\ invitation[with[a]] = "active"
      BY <1>1, <1>2, <2>3, <2>4 DEF InvitationsHeld, Transaction
    <3> QED
      BY <1>1, <2>1, <2>3, <3>1 DEF DisablingSeen
  <2>5. ASSUME NEW e \in Disabling, NEW i \in Invitation, pc'[e] = "scanned",
               invitation'[i] = "active"
        PROVE  lock'[i] = e \/ i \in unseen'
    <3>1. pc[e] = "scanned" /\ e # d
      BY <2>3, <2>5 DEF Transaction
    <3> QED
      BY <1>1, <2>1, <2>2, <2>3, <2>5, <3>1 DEF DisablingSeen
  <2>6. \A e \in Enabling : pc'[e] = "loaded" => seen'[e].next \in {"PENDING", "ACTIVE"}
    BY <1>1, <1>2, <2>3 DEF DisablingSeen, Transaction
  <2> QED
    BY <2>4, <2>5, <2>6 DEF DisablingSeen
<1> QED
  BY <1>3, <1>4, <1>5, <1>6, <1>7, <1>8 DEF RefuseInvitation, RefuseAcceptance, Abort, Transaction

LEMMA DisablingKept == ASSUME RequestsInv, [Next]_vars PROVE DisablingSeen'
<1>1. CASE PassTime \/ UNCHANGED vars
  BY <1>1 DEF RequestsInv, DisablingSeen, PassTime, vars, rows, history
<1>2. CASE \E c \in Change : LoadSession(c)
  BY <1>2, Kinds, DisablingKeptByReading DEF Transaction
<1>3. CASE \E t \in Acceptance \cup Invitation \cup Disabling \cup Enabling : ReadUser(t)
  BY <1>3, Kinds, DisablingKeptByReading DEF Transaction
<1>4. CASE \E t \in Acceptance \cup Disabling \cup Enabling : ReadAccount(t)
  BY <1>4, Kinds, DisablingKeptByReading DEF Transaction
<1> QED
  BY <1>1, <1>2, <1>3, <1>4, DisablingKeptByLogin, DisablingKeptByHolding, DisablingKeptByCommit
     DEF Next

----------------------------------------------------------------------------
(* Passwords and sessions. *)

PasswordsInv == PasswordsKnown /\ OldPasswordSessionsEnd

\* A step of another kind of request, which may close sessions.
LEMMA PasswordsKeptElsewhere ==
  ASSUME RequestsInv, UNCHANGED <<password, racing>>,
         \A l \in Login : session'[l] = "active" => session[l] = "active",
         \A t \in Login \cup Change : pc'[t] = pc[t] /\ with'[t] = with[t]
  PROVE  PasswordsInv'
  BY DEF RequestsInv, PasswordsInv, PasswordsKnown, OldPasswordSessionsEnd

\* A request of another kind that ends, or moves on.
LEMMA PasswordsKeptByOthers ==
  ASSUME RequestsInv, NEW t \in Acceptance \cup Invitation \cup Disabling \cup Enabling,
         UNCHANGED <<password, racing>>,
         \A l \in Login : session'[l] = "active" => session[l] = "active",
         \/ \E stage : End(t, stage)
         \/ /\ \E stage : Go(t, stage)
            /\ \A s \in Login \cup Change : with'[s] = with[s]
  PROVE  PasswordsInv'
<1>1. RequestsTypeOK /\ t \in Transaction
  BY DEF RequestsInv, Transaction
<1>2. t \notin Login \cup Change
  BY Kinds
<1>3. \A s \in Login \cup Change : pc'[s] = pc[s] /\ with'[s] = with[s]
  <2>1. CASE \E stage : End(t, stage)
    BY <1>1, <1>2, <2>1, Ends DEF Kept, Transaction
  <2>2. CASE (\E stage : Go(t, stage)) /\ \A s \in Login \cup Change : with'[s] = with[s]
    BY <1>1, <1>2, <2>2 DEF Go, RequestsTypeOK, Transaction
  <2> QED
    BY <2>1, <2>2
<1> QED
  BY <1>3, PasswordsKeptElsewhere

LEMMA PasswordsKeptByLogin ==
  ASSUME RequestsInv, NEW l \in Login,
         \/ Attempt(l) \/ Verify(l) \/ FailLogin(l) \/ OpenSession(l) \/ ReturnLease(l) \/ EndSession(l)
  PROVE  PasswordsInv'
<1> USE DEF rows, history, limiter
<1>1. RequestsTypeOK /\ PasswordsKnown /\ OldPasswordSessionsEnd
  BY DEF RequestsInv
<1>2. Login \cap Change = {}
  BY Kinds
<1> USE DEF PasswordsInv, PasswordsKnown, OldPasswordSessionsEnd
<1>3. CASE EndSession(l)
  <2>1. \A m \in Login : session'[m] = "active" => session[m] = "active"
    BY <1>1, <1>3 DEF EndSession, RequestsTypeOK
  <2> QED
    BY <1>3, <2>1, PasswordsKeptElsewhere DEF EndSession
<1>4. ASSUME NEW stage, Go(l, stage)
      PROVE  pc'[l] = stage /\ \A s \in Transaction \ {l} : pc'[s] = pc[s]
  BY <1>1, <1>4 DEF Go, RequestsTypeOK, Transaction
<1>5. CASE Attempt(l)
  <2>1. pc[l] = "idle" /\ pc'[l] = "leased" /\ \A s \in Transaction \ {l} : pc'[s] = pc[s]
    BY <1>4, <1>5 DEF Attempt
  <2>2. UNCHANGED <<password, session, with, racing>>
    BY <1>5 DEF Attempt
  <2> QED
    BY <1>1, <1>2, <2>1, <2>2 DEF Transaction
<1>6. CASE Verify(l)
  <2>1. pc[l] = "leased" /\ pc'[l] = "verified" /\ \A s \in Transaction \ {l} : pc'[s] = pc[s]
    BY <1>4, <1>6 DEF Verify
  <2>2. /\ UNCHANGED <<password, session, racing>>
        /\ with'[l] = password /\ \A s \in (Login \cup Change) \ {l} : with'[s] = with[s]
    BY <1>1, <1>6 DEF Verify, RequestsTypeOK
  <2> QED
    BY <1>1, <1>2, <2>1, <2>2 DEF Transaction
<1>7. CASE FailLogin(l)
  <2>1. /\ pc[l] \in {"leased", "verified"} /\ pc'[l] = "idle"
        /\ \A s \in Transaction \ {l} : pc'[s] = pc[s]
    BY <1>4, <1>7 DEF FailLogin
  <2>2. /\ UNCHANGED <<password, session>> /\ racing' = racing \ {l}
        /\ \A s \in (Login \cup Change) \ {l} : with'[s] = with[s]
    BY <1>1, <1>7 DEF FailLogin, RequestsTypeOK
  <2> QED
    BY <1>1, <1>2, <2>1, <2>2 DEF Transaction
<1>8. CASE OpenSession(l)
  <2>1. pc[l] = "verified" /\ pc'[l] = "opened" /\ \A s \in Transaction \ {l} : pc'[s] = pc[s]
    BY <1>4, <1>8 DEF OpenSession
  <2>2. /\ UNCHANGED <<password, with, racing>>
        /\ \A m \in Login \ {l} : session'[m] = session[m]
    BY <1>1, <1>8 DEF OpenSession, RequestsTypeOK
  <2> QED
    BY <1>1, <1>2, <2>1, <2>2 DEF Transaction
<1>9. CASE ReturnLease(l)
  <2>1. pc[l] = "opened" /\ pc'[l] = "done" /\ \A s \in Transaction \ {l} : pc'[s] = pc[s]
    BY <1>4, <1>9 DEF ReturnLease
  <2>2. UNCHANGED <<password, session, with, racing>>
    BY <1>9 DEF ReturnLease
  <2> QED
    BY <1>1, <1>2, <2>1, <2>2 DEF Transaction
<1> QED
  BY <1>3, <1>5, <1>6, <1>7, <1>8, <1>9

\* A change that commits leaves one session, the one that made it.
LEMMA PasswordsKeptByChange ==
  ASSUME RequestsInv, NEW c \in Change, LoadSession(c) \/ CommitChange(c)
  PROVE  PasswordsInv'
<1> USE DEF rows, history, limiter
<1>1. RequestsTypeOK /\ PasswordsKnown /\ OldPasswordSessionsEnd /\ c \in Transaction
  BY DEF RequestsInv, Transaction
<1>2. Login \cap Change = {}
  BY Kinds
<1> USE DEF PasswordsInv, PasswordsKnown, OldPasswordSessionsEnd
<1>3. CASE LoadSession(c)
  <2>1. /\ pc[c] = "idle" /\ pc'[c] = "loaded" /\ \A s \in Transaction \ {c} : pc'[s] = pc[s]
        /\ UNCHANGED <<password, session, racing>>
        /\ \A s \in (Login \cup Change) \ {c} : with'[s] = with[s]
    BY <1>1, <1>3 DEF LoadSession, Go, RequestsTypeOK
  <2>2. password # c
    BY <1>1, <2>1
  <2> QED
    BY <1>1, <1>2, <2>1, <2>2 DEF Transaction
<1>4. CASE CommitChange(c)
  <2>1. End(c, "done") /\ c \notin Acceptance
    BY <1>4, Kinds DEF CommitChange, Finish
  <2>2. pc'[c] = "done" /\ with' = with /\ \A s \in Transaction \ {c} : pc'[s] = pc[s]
    BY <1>1, <2>1, Ends
  <2>3. /\ password' = c /\ racing' = racing \cup UnderWay
        /\ \A l \in Login : session'[l] = "active" => l = with[c]
    BY <1>1, <1>4 DEF CommitChange, RevokeForAccount, CloseSessions, Open, RequestsTypeOK
  <2>4. \A l \in Login : session'[l] = "active" => session[l] = "active"
    BY <1>1, <1>4 DEF CommitChange, RevokeForAccount, CloseSessions, RequestsTypeOK
  <2> QED
    BY <1>1, <1>2, <2>2, <2>3, <2>4 DEF Transaction, UnderWay
<1> QED
  BY <1>3, <1>4

LEMMA PasswordsKeptByAcceptance ==
  ASSUME RequestsInv, NEW a \in Acceptance, CommitAcceptance(a)
  PROVE  PasswordsInv'
<1>1. RequestsTypeOK /\ PasswordsKnown /\ a \in Transaction
  BY DEF RequestsInv, Transaction
<1>2. a \notin Login \cup Change
  BY Kinds
<1>3. End(a, "done")
  BY DEF CommitAcceptance, Finish
<1>4. \A s \in Login \cup Change : pc'[s] = pc[s] /\ with'[s] = with[s]
  BY <1>1, <1>2, <1>3, Ends DEF Kept, Transaction
<1>5. /\ password' = a /\ racing' = racing \cup UnderWay
      /\ \A l \in Login : session'[l] # "active"
  BY <1>1 DEF CommitAcceptance, RevokeForAccount, CloseSessions, Open, RequestsTypeOK
<1> QED
  BY <1>1, <1>2, <1>4, <1>5 DEF PasswordsInv, PasswordsKnown, OldPasswordSessionsEnd, UnderWay

LEMMA PasswordsKept == ASSUME RequestsInv, [Next]_vars PROVE PasswordsInv'
<1> USE DEF rows, history, limiter
<1>1. RequestsTypeOK
  BY DEF RequestsInv
<1>2. CASE PassTime \/ UNCHANGED vars
  BY <1>2 DEF RequestsInv, PasswordsInv, PasswordsKnown, OldPasswordSessionsEnd, PassTime, vars
<1>3. ASSUME NEW t \in Transaction, Abort(t) PROVE PasswordsInv'
  <2>1. /\ End(t, "idle") /\ t \notin Login /\ pc[t] # "done"
        /\ UNCHANGED <<password, session, racing>>
    BY <1>3 DEF Abort, GiveUp
  <2>2. pc'[t] = "idle" /\ \A s \in Transaction \ {t} : pc'[s] = pc[s]
    BY <1>1, <2>1, Ends
  <2>3. \A s \in Login \cup Change : with'[s] = with[s]
    BY <1>1, <2>1, Ends, Kinds DEF Kept, Transaction
  <2> QED
    BY <2>1, <2>2, <2>3 DEF RequestsInv, PasswordsInv, PasswordsKnown, OldPasswordSessionsEnd, Transaction
<1>4. ASSUME NEW t \in Acceptance \cup Invitation \cup Disabling \cup Enabling,
             ReadUser(t) \/ ReadAccount(t)
      PROVE  PasswordsInv'
  BY <1>4, PasswordsKeptByOthers DEF ReadUser, ReadAccount
<1>5. ASSUME NEW v \in Invitation,
             RefuseInvitation(v) \/ ReplaceActive(v) \/ CommitInvitation(v)
      PROVE  PasswordsInv'
  BY <1>5, PasswordsKeptByOthers DEF RefuseInvitation, ReplaceActive, CommitInvitation, GiveUp, Finish
<1>6. ASSUME NEW v \in Invitation, CloseInvitation(v) PROVE PasswordsInv'
  BY <1>6, PasswordsKeptElsewhere DEF CloseInvitation
<1>7. ASSUME NEW a \in Acceptance, LoadValid(a) PROVE PasswordsInv'
  <2>1. \A s \in Login \cup Change : with'[s] = with[s]
    BY <1>1, <1>7, Kinds DEF LoadValid, RequestsTypeOK
  <2> QED
    BY <1>7, <2>1, PasswordsKeptByOthers DEF LoadValid
<1>8. ASSUME NEW a \in Acceptance, RefuseAcceptance(a) PROVE PasswordsInv'
  BY <1>8, PasswordsKeptByOthers DEF RefuseAcceptance, GiveUp
<1>9. ASSUME NEW d \in Disabling, FlushDisabling(d) \/ RevokeAllActive(d) PROVE PasswordsInv'
  BY <1>9, PasswordsKeptByOthers DEF FlushDisabling, RevokeAllActive
<1>10. ASSUME NEW d \in Disabling, CommitDisabling(d) PROVE PasswordsInv'
  <2>1. \A l \in Login : session'[l] = "active" => session[l] = "active"
    BY <1>1, <1>10 DEF CommitDisabling, CloseSessions, RequestsTypeOK
  <2> QED
    BY <1>10, <2>1, PasswordsKeptByOthers DEF CommitDisabling, Finish
<1>11. ASSUME NEW e \in Enabling, CommitEnabling(e) PROVE PasswordsInv'
  BY <1>11, PasswordsKeptByOthers DEF CommitEnabling, Finish
<1> QED
  BY <1>2, <1>3, <1>4, <1>5, <1>6, <1>7, <1>8, <1>9, <1>10, <1>11, PasswordsKeptByLogin,
     PasswordsKeptByChange, PasswordsKeptByAcceptance DEF Next

----------------------------------------------------------------------------
(* The inductive invariant and what follows from it. *)

LEMMA Start == Init => RequestsInv
<1> SUFFICES ASSUME Init PROVE RequestsInv
  OBVIOUS
<1>1. RequestsTypeOK
  <2>1. [user |-> "none", account |-> "none", next |-> "none"]
          \in [user : Status \cup {"none"}, account : Status \cup {"none"}, next : Status \cup {"none"}]
    OBVIOUS
  <2> QED
    BY <2>1 DEF Init, RequestsTypeOK, Unread, Status, Secret
<1>2. InvitationsHeld
  BY DEF Init, InvitationsHeld, Transaction
<1>3. DisablingSeen
  BY DEF Init, DisablingSeen, Transaction
<1>4. PasswordsKnown /\ OldPasswordSessionsEnd
  BY Kinds DEF Init, PasswordsKnown, OldPasswordSessionsEnd, Transaction
<1> QED
  BY <1>1, <1>2, <1>3, <1>4 DEF RequestsInv

\* The inductive invariant holds for any sets of requests, however many overlap.
THEOREM RequestsInvariance == Spec => []RequestsInv
<1>1. ASSUME RequestsInv, [Next]_vars PROVE RequestsInv'
  BY <1>1, TypesKept, InvitationsKept, DisablingKept, PasswordsKept DEF RequestsInv, PasswordsInv
<1> QED
  BY Start, <1>1, PTL DEF Spec

\* A session outlives the password it was opened with only as the one that changed it, or
\* because its login was under way when the password changed.
THEOREM OldSessionsEnd == Spec => []OldPasswordSessionsEnd
<1>1. RequestsInv => OldPasswordSessionsEnd
  BY DEF RequestsInv
<1> QED
  BY <1>1, RequestsInvariance, PTL

\* An invitation that was used or closed is never opened or used again.
THEOREM InvitationsAreFinal == Spec => InvitationsFinal
<1>1. ASSUME RequestsInv, [Next]_vars, NEW i \in Invitation, invitation[i] \in {"used", "closed"}
      PROVE  invitation'[i] = invitation[i]
  <2> USE DEF rows, history, limiter
  <2>1. RequestsTypeOK /\ InvitationsHeld
    BY <1>1 DEF RequestsInv
  <2>2. CASE UNCHANGED invitation
    BY <2>2
  <2>3. ASSUME NEW v \in Invitation, CloseInvitation(v) PROVE invitation'[i] = invitation[i]
    BY <1>1, <2>1, <2>3 DEF CloseInvitation, RequestsTypeOK
  <2>4. ASSUME NEW v \in Invitation, CommitInvitation(v) PROVE invitation'[i] = invitation[i]
    <3>1. i # v /\ i \notin closing[v]
      BY <1>1, <2>1, <2>4 DEF CommitInvitation, InvitationsHeld
    <3> QED
      BY <2>1, <2>4, <3>1 DEF CommitInvitation, CloseInvitations, RequestsTypeOK
  <2>5. ASSUME NEW d \in Disabling, CommitDisabling(d) PROVE invitation'[i] = invitation[i]
    <3>1. i \notin closing[d]
      BY <1>1, <2>1, <2>5 DEF CommitDisabling, InvitationsHeld
    <3> QED
      BY <2>1, <2>5, <3>1 DEF CommitDisabling, CloseInvitations, RequestsTypeOK
  <2>6. ASSUME NEW a \in Acceptance, CommitAcceptance(a) PROVE invitation'[i] = invitation[i]
    <3>1. i # with[a]
      BY <1>1, <2>1, <2>6 DEF CommitAcceptance, InvitationsHeld
    <3> QED
      BY <2>1, <2>6, <3>1 DEF CommitAcceptance, RequestsTypeOK
  <2>7. ASSUME \A v \in Invitation : ~CloseInvitation(v) /\ ~CommitInvitation(v),
               \A d \in Disabling : ~CommitDisabling(d),
               \A a \in Acceptance : ~CommitAcceptance(a)
        PROVE  UNCHANGED invitation
    <3>1. CASE PassTime \/ UNCHANGED vars
      BY <3>1 DEF PassTime, vars
    <3>2. ASSUME NEW l \in Login,
                 \/ Attempt(l) \/ Verify(l) \/ FailLogin(l) \/ OpenSession(l) \/ ReturnLease(l)
                 \/ EndSession(l)
          PROVE  UNCHANGED invitation
      BY <3>2 DEF Attempt, Verify, FailLogin, OpenSession, ReturnLease, EndSession
    <3>3. ASSUME NEW t \in Transaction, ReadUser(t) \/ ReadAccount(t) \/ Abort(t)
          PROVE  UNCHANGED invitation
      BY <3>3 DEF ReadUser, ReadAccount, Abort, GiveUp
    <3>4. ASSUME NEW c \in Change, LoadSession(c) \/ CommitChange(c) PROVE UNCHANGED invitation
      BY <3>4 DEF LoadSession, CommitChange
    <3>5. ASSUME NEW v \in Invitation, RefuseInvitation(v) \/ ReplaceActive(v)
          PROVE  UNCHANGED invitation
      BY <3>5 DEF RefuseInvitation, ReplaceActive, GiveUp
    <3>6. ASSUME NEW a \in Acceptance, LoadValid(a) \/ RefuseAcceptance(a) PROVE UNCHANGED invitation
      BY <3>6 DEF LoadValid, RefuseAcceptance, GiveUp
    <3>7. ASSUME NEW d \in Disabling, FlushDisabling(d) \/ RevokeAllActive(d)
          PROVE  UNCHANGED invitation
      BY <3>7 DEF FlushDisabling, RevokeAllActive
    <3>8. ASSUME NEW e \in Enabling, CommitEnabling(e) PROVE UNCHANGED invitation
      BY <3>8 DEF CommitEnabling
    <3> QED
      BY <1>1, <2>7, <3>1, <3>2, <3>3, <3>4, <3>5, <3>6, <3>7, <3>8 DEF Next, Transaction
  <2> QED
    BY <2>2, <2>3, <2>4, <2>5, <2>6, <2>7
<1>2. RequestsInv /\ [Next]_vars =>
        [\A i \in Invitation : invitation[i] \in {"used", "closed"} => invitation'[i] = invitation[i]]_vars
  BY <1>1
<1> QED
  BY <1>2, RequestsInvariance, PTL DEF Spec, InvitationsFinal

\* A disabled user comes back only by enable_user, or by an invitation the disabling could
\* not see.
THEOREM DisabledUsersStayOut == Spec => BackOnlyByEnabling
<1> DEFINE Back == \/ \E e \in Enabling : pc[e] = "loaded" /\ pc'[e] = "done"
                   \/ \E a \in Acceptance : pc[a] = "loaded" /\ pc'[a] = "done" /\ with[a] \in unseen
<1>1. ASSUME RequestsInv, [Next]_vars, user = "DISABLED", user' # "DISABLED"
      PROVE  Back
  <2> USE DEF rows, history, limiter
  <2>1. RequestsTypeOK /\ DisablingSeen
    BY <1>1 DEF RequestsInv
  <2>2. ASSUME NEW t \in Transaction, End(t, "done") PROVE pc'[t] = "done"
    BY <2>1, <2>2, Ends
  <2>3. ASSUME NEW e \in Enabling, CommitEnabling(e) PROVE Back
    <3>1. pc[e] = "loaded" /\ pc'[e] = "done"
      BY <2>2, <2>3 DEF CommitEnabling, Finish, Transaction
    <3> QED
      BY <3>1
  <2>4. ASSUME NEW a \in Acceptance, CommitAcceptance(a) PROVE Back
    <3>1. pc[a] = "loaded" /\ pc'[a] = "done" /\ seen[a].user # "DISABLED"
      BY <2>2, <2>4 DEF CommitAcceptance, Finish, Transaction
    <3>2. with[a] \in unseen
      BY <1>1, <2>1, <3>1 DEF DisablingSeen
    <3> QED
      BY <3>1, <3>2
  <2>5. ASSUME \A e \in Enabling : ~CommitEnabling(e), \A a \in Acceptance : ~CommitAcceptance(a)
        PROVE  user' \in {user, "DISABLED"}
    <3>1. CASE PassTime \/ UNCHANGED vars
      BY <3>1 DEF PassTime, vars
    <3>2. ASSUME NEW l \in Login,
                 \/ Attempt(l) \/ Verify(l) \/ FailLogin(l) \/ OpenSession(l) \/ ReturnLease(l)
                 \/ EndSession(l)
          PROVE  UNCHANGED user
      BY <3>2 DEF Attempt, Verify, FailLogin, OpenSession, ReturnLease, EndSession
    <3>3. ASSUME NEW t \in Transaction, ReadUser(t) \/ ReadAccount(t) \/ Abort(t)
          PROVE  UNCHANGED user
      BY <3>3 DEF ReadUser, ReadAccount, Abort, GiveUp
    <3>4. ASSUME NEW c \in Change, LoadSession(c) \/ CommitChange(c) PROVE UNCHANGED user
      BY <3>4 DEF LoadSession, CommitChange
    <3>5. ASSUME NEW v \in Invitation,
                 \/ RefuseInvitation(v) \/ ReplaceActive(v) \/ CommitInvitation(v) \/ CloseInvitation(v)
          PROVE  UNCHANGED user
      BY <3>5 DEF RefuseInvitation, ReplaceActive, CommitInvitation, CloseInvitation, GiveUp
    <3>6. ASSUME NEW a \in Acceptance, LoadValid(a) \/ RefuseAcceptance(a) PROVE UNCHANGED user
      BY <3>6 DEF LoadValid, RefuseAcceptance, GiveUp
    <3>7. ASSUME NEW d \in Disabling, FlushDisabling(d) \/ RevokeAllActive(d) \/ CommitDisabling(d)
          PROVE  user' \in {user, "DISABLED"}
      BY <3>7 DEF FlushDisabling, RevokeAllActive, CommitDisabling, Written
    <3> QED
      BY <1>1, <2>5, <3>1, <3>2, <3>3, <3>4, <3>5, <3>6, <3>7 DEF Next, Transaction
  <2> QED
    BY <1>1, <2>3, <2>4, <2>5
<1>2. RequestsInv /\ [Next]_vars => [user = "DISABLED" /\ user' # "DISABLED" => Back]_vars
  BY <1>1
<1> QED
  BY <1>2, RequestsInvariance, PTL DEF Spec, BackOnlyByEnabling

\* Whoever finishes having loaded what it accepts is in CommitAcceptance.
LEMMA AcceptanceEnds ==
  ASSUME RequestsInv, [Next]_vars, NEW a \in Acceptance, pc[a] = "loaded", pc'[a] = "done"
  PROVE  CommitAcceptance(a)
<1> USE DEF rows, history, limiter
<1>1. RequestsTypeOK /\ a \in Transaction
  BY DEF RequestsInv, Transaction
<1>2. ASSUME NEW t \in Transaction, NEW stage, Go(t, stage) \/ End(t, stage)
      PROVE  t = a /\ stage = "done"
  BY <1>1, <1>2 DEF Go, End, RequestsTypeOK
<1>3. pc' # pc
  OBVIOUS
<1>4. ~(PassTime \/ UNCHANGED vars)
  BY <1>3 DEF PassTime, vars
<1>5. a \notin Login \cup Change \cup Invitation \cup Disabling \cup Enabling
  BY Kinds
<1>6. ASSUME NEW l \in Login
      PROVE  ~(Attempt(l) \/ Verify(l) \/ FailLogin(l) \/ OpenSession(l) \/ ReturnLease(l)
               \/ EndSession(l))
  BY <1>2, <1>3, <1>5
     DEF Transaction, Attempt, Verify, FailLogin, OpenSession, ReturnLease, EndSession
<1>7. ASSUME NEW t \in Transaction PROVE ~(ReadUser(t) \/ ReadAccount(t) \/ Abort(t))
  BY <1>2 DEF ReadUser, ReadAccount, Abort, GiveUp
<1>8. ASSUME NEW c \in Change PROVE ~(LoadSession(c) \/ CommitChange(c))
  BY <1>2, <1>5 DEF Transaction, LoadSession, CommitChange, Finish
<1>9. ASSUME NEW v \in Invitation
      PROVE  ~(RefuseInvitation(v) \/ ReplaceActive(v) \/ CommitInvitation(v) \/ CloseInvitation(v))
  BY <1>2, <1>3, <1>5
     DEF Transaction, RefuseInvitation, ReplaceActive, CommitInvitation, CloseInvitation, GiveUp, Finish
<1>10. ASSUME NEW b \in Acceptance
       PROVE  /\ ~(LoadValid(b) \/ RefuseAcceptance(b))
              /\ CommitAcceptance(b) => b = a
  BY <1>2 DEF Transaction, LoadValid, RefuseAcceptance, CommitAcceptance, GiveUp, Finish
<1>11. ASSUME NEW d \in Disabling
       PROVE  ~(FlushDisabling(d) \/ RevokeAllActive(d) \/ CommitDisabling(d))
  BY <1>2, <1>5 DEF Transaction, FlushDisabling, RevokeAllActive, CommitDisabling, Finish
<1>12. ASSUME NEW e \in Enabling PROVE ~CommitEnabling(e)
  BY <1>2, <1>5 DEF Transaction, CommitEnabling, Finish
<1> QED
  BY <1>4, <1>6, <1>7, <1>8, <1>9, <1>10, <1>11, <1>12 DEF Next, Transaction

\* An acceptance that succeeds uses an invitation that was open until then; as a used one stays
\* used, no two succeed with the same, and none with one that was replaced, revoked or closed.
THEOREM InvitationsAreUsedOnce ==
  Spec => [][\A a \in Acceptance : pc[a] = "loaded" /\ pc'[a] = "done" =>
               \E i \in Invitation : i = with[a] /\ invitation[i] = "active"
                                     /\ invitation'[i] = "used"]_vars
<1>1. ASSUME RequestsInv, [Next]_vars, NEW a \in Acceptance, pc[a] = "loaded", pc'[a] = "done"
      PROVE  \E i \in Invitation : i = with[a] /\ invitation[i] = "active" /\ invitation'[i] = "used"
  <2>1. CommitAcceptance(a)
    BY <1>1, AcceptanceEnds
  <2>2. with[a] \in Invitation /\ invitation[with[a]] = "active"
    BY <1>1 DEF RequestsInv, InvitationsHeld
  <2>3. invitation'[with[a]] = "used"
    BY <1>1, <2>1, <2>2 DEF CommitAcceptance, RequestsInv, RequestsTypeOK
  <2> QED
    BY <2>2, <2>3
<1>2. RequestsInv /\ [Next]_vars =>
        [\A a \in Acceptance : pc[a] = "loaded" /\ pc'[a] = "done" =>
           \E i \in Invitation : i = with[a] /\ invitation[i] = "active"
                                 /\ invitation'[i] = "used"]_vars
  BY <1>1
<1> QED
  BY <1>2, RequestsInvariance, PTL DEF Spec
==============================================================================
