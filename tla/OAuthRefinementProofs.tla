----------------------- MODULE OAuthRefinementProofs ------------------------
(***************************************************************************)
(* What no step of OAuthTokenFamily may do, and that every behaviour of it *)
(* is one ConsentedAccess allows.  Both follow from the inductive          *)
(* invariant of OAuthTokenFamilyProofs.                                    *)
(***************************************************************************)
EXTENDS OAuthTokenFamilyProofs

\* What a step does to the families and pairs: it opens a family, renews one, revokes one
\* or leaves all of them as they are.
Opens(c, f, q) ==
  /\ origin[f] = NoCode /\ f \notin revoked /\ (\A g \in Family : origin[g] # c) /\ q \notin Issued
  /\ origin' = [origin EXCEPT ![f] = c] /\ revoked' = revoked
  /\ Issued' = Issued \cup {q} /\ row'[q].family = f /\ ~row'[q].rotated
  /\ \A k \in Issued : row'[k] = row[k] /\ row[k].family # f

Renews(p, q) ==
  /\ p \in Issued /\ ~row[p].rotated /\ FamilyOf(p) \notin revoked /\ q \notin Issued
  /\ UNCHANGED <<origin, revoked>>
  /\ Issued' = Issued \cup {q} /\ row'[q].family = FamilyOf(p) /\ ~row'[q].rotated
  /\ row'[p].rotated /\ row'[p].family = FamilyOf(p)
  /\ \A k \in Issued \ {p} : row'[k] = row[k]

Closes(f) ==
  /\ origin[f] # NoCode /\ UNCHANGED origin /\ revoked' = revoked \cup {f} /\ Issued' = Issued
  /\ \A k \in Pair : row'[k].family = row[k].family /\ row'[k].rotated = row[k].rotated

Stays ==
  /\ UNCHANGED <<origin, revoked>> /\ Issued' = Issued
  /\ \A k \in Pair : row'[k].family = row[k].family /\ row'[k].rotated = row[k].rotated

LEMMA RedemptionOpens ==
  ASSUME IInv, NEW x \in Exchange, NEW f \in Family, NEW q \in Pair, CommitRedemption(x, f, q)
  PROVE  req[x].code \in Code /\ Opens(req[x].code, f, q) /\ UNCHANGED admitted
<1> DEFINE c == req[x].code
           n == NewPair(f, NoPair, req[x].tools, req[x].at, code[c].until)
<1>1. /\ c \in Code /\ code[c].state = "issued" /\ q \notin Issued /\ origin[f] = NoCode
  BY DEF CommitRedemption, IInv, Refers, RequestRefers
<1>2. n.family = f /\ ~n.rotated
  BY DEF NewPair
<1> HIDE DEF n
<1>3. row'[q] = n /\ \A k \in Pair \ {q} : row'[k] = row[k]
  BY DEF CommitRedemption, n, IInv, TypeOK
<1>4. \A g \in Family : origin[g] # c
  BY <1>1, Nulls DEF IInv, Opened
<1>5. f \notin revoked /\ \A k \in Issued : row[k].family # f
  BY <1>1 DEF IInv, Opened, FamilyOf
<1>6. Issued' = Issued \cup {q}
  <2>1. f # NoFamily
    BY Nulls
  <2> QED
    BY <1>2, <1>3, <2>1 DEF Issued
<1> QED
  BY <1>1, <1>2, <1>3, <1>4, <1>5, <1>6 DEF Opens, CommitRedemption, Issued

LEMMA RotationRenews ==
  ASSUME IInv, NEW x \in Exchange, NEW q \in Pair, CommitRotation(x, q)
  PROVE  Renews(req[x].pair, q) /\ UNCHANGED admitted
<1> DEFINE p == req[x].pair
           n == NewPair(FamilyOf(p), p, req[x].tools, req[x].at, row[p].refreshExpires)
           m == [row[p] EXCEPT !.rotated = TRUE, !.rotatedAt = req[x].at,
                               !.tokenLive = FALSE, !.linkLive = FALSE]
<1>1. /\ p \in Issued /\ p \in Pair /\ q \notin Issued /\ p # q /\ ~row[p].rotated
      /\ FamilyOf(p) \notin revoked /\ FamilyOf(p) # NoFamily
  BY DEF CommitRotation, IInv, Refers, RequestRefers, Issued, FamilyOf
<1>2. n.family = FamilyOf(p) /\ ~n.rotated /\ m.rotated /\ m.family = FamilyOf(p)
  BY <1>1 DEF NewPair, IInv, TypeOK, PairRow, FamilyOf
<1>3. row' = [row EXCEPT ![p] = m, ![q] = n]
  BY <1>1 DEF CommitRotation, IInv, TypeOK, PairRow
<1> HIDE DEF n, m
<1>4. row'[q] = n /\ row'[p] = m /\ \A k \in Pair \ {p, q} : row'[k] = row[k]
  BY <1>1, <1>3 DEF IInv, TypeOK
<1>5. Issued' = Issued \cup {q}
  BY <1>1, <1>2, <1>4 DEF Issued
<1> QED
  BY <1>1, <1>2, <1>4, <1>5 DEF Renews, CommitRotation, Issued

LEMMA RevokeCloses ==
  ASSUME IInv, NEW p \in Issued, RevokeFamily(FamilyOf(p)), UNCHANGED origin
  PROVE  FamilyOf(p) \in Family /\ Closes(FamilyOf(p))
<1>1. FamilyOf(p) \in Family /\ origin[FamilyOf(p)] # NoCode
  BY FamilyOfIssued
<1>2. \A k \in Pair : row'[k].family = row[k].family /\ row'[k].rotated = row[k].rotated
  BY DEF RevokeFamily, IInv, TypeOK, PairRow
<1>3. Issued' = Issued
  BY <1>2 DEF Issued
<1> QED
  BY <1>1, <1>2, <1>3 DEF Closes, RevokeFamily

LEMMA GrantsStay ==
  ASSUME IInv, NEW G, UNCHANGED <<origin, revoked>>,
         row' = [k \in Pair |-> [row[k] EXCEPT !.grants = G[k]]]
  PROVE  Stays
<1>1. \A k \in Pair : row'[k].family = row[k].family /\ row'[k].rotated = row[k].rotated
  BY DEF IInv, TypeOK, PairRow
<1> QED
  BY <1>1 DEF Stays, Issued

\* The steps, sorted by what they do to families and to admissions.
StepCases ==
  \/ \E c \in Code, f \in Family, q \in Pair : Opens(c, f, q) /\ UNCHANGED admitted
  \/ \E p \in Pair, q \in Pair : Renews(p, q) /\ UNCHANGED admitted
  \/ \E f \in Family : Closes(f) /\ UNCHANGED admitted
  \/ Stays /\ UNCHANGED admitted
  \/ Stays /\ \E b \in Bearer, p \in Pair : ReadToken(b, p)
  \/ Stays /\ \E b \in Bearer : TouchToken(b)

LEMMA NextSorted ==
  ASSUME IInv, [Next]_vars
  PROVE  StepCases
<1>1. UNCHANGED <<origin, revoked, row>> => Stays
  BY DEF Stays, Issued
<1>2. CASE UNCHANGED vars
  BY <1>1, <1>2 DEF vars, familyVars, handlerVars, StepCases
<1>3. CASE Tick \/ Restart
  BY <1>1, <1>3 DEF Tick, Restart, familyVars, handlerVars, StepCases
<1>4. CASE Administration
  <2>1. ASSUME NEW S \in SUBSET Tool, ReplaceAllowances(S) PROVE StepCases
    <3> DEFINE G == [k \in Pair |-> row[k].grants \cap S]
    <3>1. row' = [k \in Pair |-> [row[k] EXCEPT !.grants = G[k]]]
      BY <2>1 DEF ReplaceAllowances
    <3> QED
      BY <2>1, <3>1, GrantsStay DEF ReplaceAllowances, handlerVars, StepCases
  <2>2. ASSUME NEW p \in Pair, NEW S \in SUBSET Tool, ReplaceTokenGrants(p, S) PROVE StepCases
    <3> DEFINE G == [k \in Pair |-> IF k = p THEN S ELSE row[k].grants]
    <3>1. row' = [k \in Pair |-> [row[k] EXCEPT !.grants = G[k]]]
      BY <2>2 DEF ReplaceTokenGrants, IInv, TypeOK, PairRow
    <3> HIDE DEF G
    <3> QED
      BY <2>2, <3>1, GrantsStay DEF ReplaceTokenGrants, handlerVars, StepCases
  <2> QED
    BY <1>1, <1>4, <2>1, <2>2
    DEF Administration, SaveCredential, RevokeCredential, DisableUser, EnableUser, SetAccount,
        SetGlobalEnabled, Approve, familyVars, handlerVars, StepCases
<1>5. ASSUME NEW x \in Exchange, Redemption(x) PROVE StepCases
  <2>1. ASSUME NEW f \in Family, NEW q \in Pair, CommitRedemption(x, f, q) PROVE StepCases
    BY <2>1, RedemptionOpens DEF StepCases
  <2> QED
    BY <1>1, <1>5, <2>1 DEF Redemption, LoadCode, LockCode, RefuseCode, familyVars, StepCases
<1>6. ASSUME NEW x \in Exchange, Rotation(x) PROVE StepCases
  <2>1. ASSUME NEW q \in Pair, CommitRotation(x, q) PROVE StepCases
    BY <2>1, RotationRenews DEF StepCases, Renews, Issued
  <2>2. CASE DetectReuse(x)
    BY <2>2, RevokeCloses DEF DetectReuse, AtFamilyLock, IInv, Refers, RequestRefers, StepCases
  <2> QED
    BY <1>1, <1>6, <2>1, <2>2 DEF Rotation, LoadRefresh, LockEntry, RefuseRefresh, RecoverRefresh,
       BeginRotation, StoreRecovery, familyVars, StepCases
<1>7. ASSUME NEW x \in Exchange, AbortExchange(x) PROVE StepCases
  BY <1>1, <1>7 DEF AbortExchange, familyVars, StepCases
<1>8. ASSUME NEW v \in Revocation,
             (\E p \in Pair : LoadRevocation(v, p)) \/ CommitRevocation(v) \/ AbortRevocation(v)
      PROVE  StepCases
  <2>1. CASE CommitRevocation(v)
    BY <2>1, RevokeCloses DEF CommitRevocation, IInv, Refers, StepCases
  <2> QED
    BY <1>1, <1>8, <2>1 DEF LoadRevocation, AbortRevocation, familyVars, StepCases
<1>9. ASSUME NEW b \in Bearer,
             (\E p \in Pair : ReadToken(b, p)) \/ ReadLink(b) \/ TouchToken(b)
      PROVE  StepCases
  BY <1>1, <1>9 DEF ReadToken, ReadLink, TouchToken, familyVars, StepCases
<1> QED
  BY <1>2, <1>3, <1>4, <1>5, <1>6, <1>7, <1>8, <1>9 DEF Next

----------------------------------------------------------------------------
(* What no step may do. *)

LEMMA RevokedFamilyStays ==
  ASSUME IInv, [Next]_vars, NEW f \in revoked
  PROVE  f \in revoked' /\ MemberPairs(f)' = MemberPairs(f)
<1>1. \A k \in Issued : k \in Pair
  BY DEF Issued
<1>2. ASSUME NEW c \in Code, NEW g \in Family, NEW q \in Pair, Opens(c, g, q)
      PROVE  f \in revoked' /\ MemberPairs(f)' = MemberPairs(f)
  BY <1>2 DEF Opens, MemberPairs, FamilyOf
<1>3. ASSUME NEW p \in Pair, NEW q \in Pair, Renews(p, q)
      PROVE  f \in revoked' /\ MemberPairs(f)' = MemberPairs(f)
  BY <1>3 DEF Renews, MemberPairs, FamilyOf
<1>4. ASSUME NEW g \in Family, Closes(g)
      PROVE  f \in revoked' /\ MemberPairs(f)' = MemberPairs(f)
  BY <1>1, <1>4 DEF Closes, MemberPairs, FamilyOf
<1>5. ASSUME Stays
      PROVE  f \in revoked' /\ MemberPairs(f)' = MemberPairs(f)
  BY <1>1, <1>5 DEF Stays, MemberPairs, FamilyOf
<1> QED
  BY <1>2, <1>3, <1>4, <1>5, NextSorted DEF StepCases

\* A revoked family stays revoked and gets no further pair: neither a rotation that was
\* waiting for the family row nor a restart brings it back.
THEOREM RevocationStands == Spec => RevocationIsFinal
<1>1. IInv /\ [Next]_vars => [\A f \in revoked : f \in revoked' /\ MemberPairs(f)' = MemberPairs(f)]_vars
  BY RevokedFamilyStays
<1> QED
  BY <1>1, Invariance, PTL DEF Spec, RevocationIsFinal

\* Only DetectReuse and CommitRevocation revoke a family, and each of them one.
LEMMA RevokedBy ==
  ASSUME IInv, [Next]_vars, NEW f \in revoked' \ revoked
  PROVE  Revoking(f) \/ Replaying(f)
<1>1. CASE UNCHANGED vars
  BY <1>1 DEF vars, familyVars
<1>2. CASE Tick \/ Administration \/ Restart
  BY <1>2 DEF Tick, Restart, Administration, SaveCredential, RevokeCredential, DisableUser,
     EnableUser, SetAccount, ReplaceAllowances, SetGlobalEnabled, ReplaceTokenGrants, Approve,
     familyVars
<1>3. ASSUME NEW x \in Exchange, Redemption(x) \/ AbortExchange(x) PROVE FALSE
  BY <1>3 DEF Redemption, LoadCode, LockCode, RefuseCode, CommitRedemption, AbortExchange,
     familyVars
<1>4. ASSUME NEW x \in Exchange, Rotation(x) PROVE Replaying(f)
  <2>1. DetectReuse(x)
    BY <1>4 DEF Rotation, LoadRefresh, LockEntry, RefuseRefresh, RecoverRefresh, BeginRotation,
       CommitRotation, StoreRecovery, familyVars
  <2>2. f = FamilyOf(req[x].pair)
    BY <2>1 DEF DetectReuse, RevokeFamily
  <2>3. req[x].pair \in Pair
    BY <2>1 DEF DetectReuse, AtFamilyLock, IInv, Refers, RequestRefers, Issued
  <2>4. row[req[x].pair].rotatedAt \in Nat /\ now \in Nat /\ Grace \in Nat
    BY <2>3, Durations DEF IInv, TypeOK, PairRow
  <2>5. Grace > 0 => now > row[req[x].pair].rotatedAt + Grace
    BY <2>1, <2>4 DEF DetectReuse, Replayed, InGrace
  <2> QED
    BY <2>1, <2>2, <2>5 DEF DetectReuse, AtFamilyLock, Replayed, Replaying
<1>5. ASSUME NEW v \in Revocation,
             (\E p \in Pair : LoadRevocation(v, p)) \/ CommitRevocation(v) \/ AbortRevocation(v)
      PROVE  Revoking(f)
  BY <1>5 DEF LoadRevocation, CommitRevocation, AbortRevocation, RevokeFamily, Revoking, familyVars
<1>6. ASSUME NEW b \in Bearer,
             (\E p \in Pair : ReadToken(b, p)) \/ ReadLink(b) \/ TouchToken(b)
      PROVE  FALSE
  BY <1>6 DEF ReadToken, ReadLink, TouchToken, familyVars
<1> QED
  BY <1>1, <1>2, <1>3, <1>4, <1>5, <1>6 DEF Next

\* However long the grace is and however its requests, retries and restarts fall: a client
\* that repeats a refresh within the grace is never logged out for it.
THEOREM RetriesAreForgiven == Spec => OnlyReplaysRevoke
<1>1. IInv /\ [Next]_vars => [\A f \in revoked' \ revoked : Revoking(f) \/ Replaying(f)]_vars
  BY RevokedBy
<1> QED
  BY <1>1, Invariance, PTL DEF Spec, OnlyReplaysRevoke

\* The pair a bearer check lets in is in force at that moment.
LEMMA TouchAdmitsCurrent ==
  ASSUME IInv, NEW b \in Bearer, TouchToken(b)
  PROVE  \/ UNCHANGED admitted
         \/ \E p \in Issued : /\ admitted' = [admitted EXCEPT ![b] = p]
                              /\ FamilyOf(p) \notin revoked /\ ~row[p].rotated
<1> DEFINE p == bearer[b].pair
<1>1. p \in Issued
  BY DEF TouchToken, IInv, Refers
<1>2. row[p].tokenLive => FamilyOf(p) \notin revoked /\ ~row[p].rotated
  BY <1>1 DEF IInv, OneBranch, RevokedFamilyIsDead
<1> QED
  BY <1>1, <1>2 DEF TouchToken, StillEnabled

LEMMA AdmissionIsCurrent ==
  ASSUME IInv, [Next]_vars, NEW b \in Bearer, admitted'[b] # admitted[b], admitted'[b] # NoPair
  PROVE  FamilyOf(admitted'[b]) \notin revoked /\ ~row[admitted'[b]].rotated
<1>1. ASSUME NEW d \in Bearer, NEW p \in Pair, ReadToken(d, p) PROVE FALSE
  BY <1>1 DEF ReadToken, IInv, TypeOK
<1>2. ASSUME NEW d \in Bearer, TouchToken(d)
      PROVE  FamilyOf(admitted'[b]) \notin revoked /\ ~row[admitted'[b]].rotated
  BY <1>2, TouchAdmitsCurrent DEF IInv, TypeOK
<1> QED
  BY <1>1, <1>2, NextSorted DEF StepCases

\* A bearer check that began before a revocation or a rotation and ends after it admits
\* nobody (McpBearerAuth.authenticate's final UPDATE).
THEOREM OnlyCurrentIsAdmitted == Spec => AdmitsOnlyCurrent
<1>1. IInv /\ [Next]_vars =>
        [\A b \in Bearer : admitted'[b] # admitted[b] /\ admitted'[b] # NoPair =>
           FamilyOf(admitted'[b]) \notin revoked /\ ~row[admitted'[b]].rotated]_vars
  BY AdmissionIsCurrent
<1> QED
  BY <1>1, Invariance, PTL DEF Spec, AdmitsOnlyCurrent

----------------------------------------------------------------------------
(* The refinement. *)

\* Sole of no pair and of one.
LEMMA SoleIs ==
  /\ Sole({}) = NoPair
  /\ \A p \in Pair : Sole({p}) = p
  BY DEF Sole

\* An unrotated pair of a live family is the one Current names.
LEMMA CurrentIs ==
  ASSUME IInv, NEW p \in Issued, ~row[p].rotated, FamilyOf(p) \notin revoked
  PROVE  Current[FamilyOf(p)] = p
<1>1. CurrentPairs(FamilyOf(p)) = {p}
  BY DEF CurrentPairs, MemberPairs, IInv, OneBranch
<1> QED
  BY <1>1, SoleIs, FamilyOfIssued DEF Current, Issued

\* A family has a pair in force exactly while it is open and not revoked.
LEMMA CurrentWhileOpen ==
  ASSUME IInv, NEW f \in Family
  PROVE  Current[f] # NoPair <=> origin[f] # NoCode /\ f \notin revoked
<1>1. CASE CurrentPairs(f) = {}
  BY <1>1, SoleIs DEF Current, CurrentPairs, MemberPairs, IInv, Opened
<1>2. CASE CurrentPairs(f) # {}
  <2>1. PICK p \in Issued : FamilyOf(p) = f /\ ~row[p].rotated /\ f \notin revoked
    BY <1>2 DEF CurrentPairs, MemberPairs
  <2> QED
    BY <2>1, CurrentIs, FamilyOfIssued, Nulls DEF Issued
<1> QED
  BY <1>1, <1>2

\* When the pairs in force of one family change, so does Current there and nowhere else.
LEMMA CurrentChanges ==
  ASSUME NEW f \in Family, NEW q,
         Sole(CurrentPairs(f)') = q,
         \A g \in Family \ {f} : CurrentPairs(g)' = CurrentPairs(g)
  PROVE  Current' = [Current EXCEPT ![f] = q]
<1>1. \A g \in Family \ {f} : Sole(CurrentPairs(g)') = Sole(CurrentPairs(g))
  OBVIOUS
<1> QED
  BY <1>1 DEF Current

LEMMA OpensMaps ==
  ASSUME NEW c \in Code, NEW f \in Family, NEW q \in Pair, Opens(c, f, q), UNCHANGED admitted
  PROVE  Promise!Open(c, f, q)
<1>1. q \in Issued' /\ ~row'[q].rotated /\ f \notin revoked'
  BY DEF Opens
<1>2. CurrentPairs(f)' = {q}
  BY <1>1 DEF CurrentPairs, MemberPairs, FamilyOf, Opens
<1>3. \A g \in Family \ {f} : CurrentPairs(g)' = CurrentPairs(g)
  BY DEF CurrentPairs, MemberPairs, FamilyOf, Opens
<1>4. Sole(CurrentPairs(f)') = q
  BY <1>2, SoleIs
<1>5. Current' = [Current EXCEPT ![f] = q]
  BY <1>3, <1>4, CurrentChanges
<1> QED
  BY <1>5 DEF Promise!Open, Opens

LEMMA RenewsMaps ==
  ASSUME IInv, NEW p \in Pair, NEW q \in Pair, Renews(p, q), UNCHANGED admitted
  PROVE  Promise!Renew(FamilyOf(p), q) /\ FamilyOf(p) \in Family
<1>1. PICK f \in Family : f = FamilyOf(p) /\ Current[f] = p /\ p # NoPair
  BY CurrentIs, FamilyOfIssued, Nulls DEF Renews
<1>2. \A k \in Issued \ {p} : FamilyOf(k) = f => row[k].rotated
  BY <1>1 DEF Renews, IInv, OneBranch
<1>3. CurrentPairs(f)' = {q}
  BY <1>1, <1>2 DEF CurrentPairs, MemberPairs, FamilyOf, Renews
<1>4. \A g \in Family \ {f} : CurrentPairs(g)' = CurrentPairs(g)
  BY <1>1 DEF CurrentPairs, MemberPairs, FamilyOf, Renews
<1>5. Sole(CurrentPairs(f)') = q
  BY <1>3, SoleIs
<1>6. Current' = [Current EXCEPT ![f] = q]
  BY <1>1, <1>4, <1>5, CurrentChanges
<1> QED
  BY <1>1, <1>6 DEF Promise!Renew, Renews

LEMMA ClosesMaps ==
  ASSUME IInv, NEW f \in Family, Closes(f), UNCHANGED admitted
  PROVE  Promise!Close(f) \/ UNCHANGED Promise!vars
<1>1. \A k \in Issued : k \in Pair
  BY DEF Issued
<1>2. \A g \in Family \ {f} : CurrentPairs(g)' = CurrentPairs(g)
  BY <1>1 DEF CurrentPairs, MemberPairs, FamilyOf, Closes
<1>3. CurrentPairs(f)' = {}
  BY DEF CurrentPairs, Closes
<1>4. Sole(CurrentPairs(f)') = NoPair
  BY <1>3, SoleIs
<1>5. Current' = [Current EXCEPT ![f] = NoPair]
  BY <1>2, <1>4, CurrentChanges
<1>6. CASE f \in revoked
  <2>1. Current[f] = NoPair
    BY <1>6, CurrentWhileOpen
  <2>2. Current' = Current
    BY <1>5, <2>1 DEF Current
  <2> QED
    BY <1>6, <2>2 DEF Promise!vars, Closes
<1>7. CASE f \notin revoked
  BY <1>5, <1>7, CurrentWhileOpen DEF Promise!Close, Closes
<1> QED
  BY <1>6, <1>7

LEMMA StaysMaps ==
  ASSUME Stays
  PROVE  UNCHANGED <<origin, Current, revoked, Issued>>
<1>1. \A k \in Issued : k \in Pair
  BY DEF Issued
<1>2. \A g \in Family : CurrentPairs(g)' = CurrentPairs(g)
  BY <1>1 DEF CurrentPairs, MemberPairs, FamilyOf, Stays
<1>3. \A g \in Family : Sole(CurrentPairs(g)') = Sole(CurrentPairs(g))
  BY <1>2
<1>4. Current' = Current
  BY <1>3 DEF Current
<1> QED
  BY <1>4 DEF Stays

LEMMA StepMaps ==
  ASSUME IInv, [Next]_vars
  PROVE  [Promise!Next]_(Promise!vars)
<1>1. ASSUME NEW b \in Bearer, NEW p \in Pair, Stays, ReadToken(b, p) PROVE Promise!Ask(b)
  BY <1>1, StaysMaps DEF Promise!Ask, ReadToken
<1>2. ASSUME NEW b \in Bearer, Stays, TouchToken(b) PROVE Promise!Next \/ UNCHANGED Promise!vars
  <2>1. CASE UNCHANGED admitted
    BY <1>2, <2>1, StaysMaps DEF Promise!vars
  <2>2. ASSUME NEW p \in Issued, admitted' = [admitted EXCEPT ![b] = p],
               FamilyOf(p) \notin revoked, ~row[p].rotated
        PROVE  Promise!Next
    <3>1. Current[FamilyOf(p)] = p /\ FamilyOf(p) \in Family /\ p # NoPair
      BY <2>2, CurrentIs, FamilyOfIssued, Nulls DEF Issued
    <3>2. Promise!Admit(b, FamilyOf(p))
      BY <1>2, <2>2, <3>1, StaysMaps DEF Promise!Admit
    <3> QED
      BY <3>1, <3>2 DEF Promise!Next
  <2> QED
    BY <1>2, <2>1, <2>2, TouchAdmitsCurrent
<1>3. Stays /\ UNCHANGED admitted => UNCHANGED Promise!vars
  BY StaysMaps DEF Promise!vars
<1> QED
  BY <1>1, <1>2, <1>3, OpensMaps, RenewsMaps, ClosesMaps, NextSorted DEF StepCases, Promise!Next

\* Whatever races, crashes and retries happen, the server does to the user's access only
\* what ConsentedAccess allows.
THEOREM ServerKeepsPromise == Spec => KeepsPromise
<1>1. Init => Promise!Init
  BY DEF Init, Promise!Init, Current, Sole, CurrentPairs, MemberPairs, Issued, Unissued
<1>2. IInv /\ [Next]_vars => [Promise!Next]_(Promise!vars)
  BY StepMaps
<1> QED
  BY <1>1, <1>2, Invariance, PTL DEF Spec, KeepsPromise, Promise!Spec

----------------------------------------------------------------------------
(* What ConsentedAccess promises, and with it the server. *)

\* A family has one pair in force at most, and while it is open only; no pair is in force in
\* two families, and no consent is behind two of them.
OnePairInForce ==
  /\ origin \in [Family -> Code \cup {NoCode}]
  /\ Current \in [Family -> Issued \cup {NoPair}] /\ Issued \subseteq Pair
  /\ \A f, g \in Family : origin[f] = origin[g] /\ origin[f] # NoCode => f = g
  /\ \A f, g \in Family : Current[f] = Current[g] /\ Current[f] # NoPair => f = g
  /\ \A f \in Family : Current[f] # NoPair => origin[f] # NoCode /\ f \notin revoked
  /\ \A f \in Family : f \in revoked => origin[f] # NoCode

\* A pair that is not in force now and has been issued is not in force next; consents stand,
\* ended families stay ended.
NothingReturns ==
  /\ \A f \in Family, p \in Issued : Current[f] # p => Current'[f] # p
  /\ \A f \in Family : origin[f] # NoCode => origin'[f] = origin[f]
  /\ \A f \in Family : f \in revoked => f \in revoked' /\ Current'[f] = NoPair
  /\ Issued \subseteq Issued'

LEMMA PromiseSteps ==
  ASSUME OnePairInForce, [Promise!Next]_(Promise!vars)
  PROVE  OnePairInForce' /\ NothingReturns
<1> DEFINE After == OnePairInForce' /\ NothingReturns
<1> USE DEF OnePairInForce, NothingReturns
<1>1. Issued \subseteq Pair /\ \A p \in Issued : p # NoPair
  BY Nulls
<1>2. CASE UNCHANGED Promise!vars
  <2>1. /\ origin' = origin /\ Current' = Current /\ revoked' = revoked /\ Issued' = Issued
    BY <1>2 DEF Promise!vars
  <2> HIDE DEF Current, Issued
  <2> QED
    BY <1>1, <2>1
<1>3. ASSUME NEW c \in Code, NEW f \in Family, NEW p \in Pair, Promise!Open(c, f, p)
      PROVE  After
  <2>1. /\ origin[f] = NoCode /\ (\A g \in Family : origin[g] # c) /\ p \notin Issued
        /\ origin' = [origin EXCEPT ![f] = c] /\ Current' = [Current EXCEPT ![f] = p]
        /\ Issued' = Issued \cup {p} /\ revoked' = revoked
    BY <1>3 DEF Promise!Open
  <2> HIDE DEF Current, Issued
  <2> QED
    BY <1>1, <2>1, Nulls
<1>4. ASSUME NEW f \in Family, NEW p \in Pair, Promise!Renew(f, p) PROVE After
  <2>1. /\ Current[f] # NoPair /\ p \notin Issued /\ Current' = [Current EXCEPT ![f] = p]
        /\ Issued' = Issued \cup {p} /\ revoked' = revoked /\ origin' = origin
    BY <1>4 DEF Promise!Renew
  <2> HIDE DEF Current, Issued
  <2> QED
    BY <1>1, <2>1, Nulls
<1>5. ASSUME NEW f \in Family, Promise!Close(f) PROVE After
  <2>1. /\ Current[f] # NoPair /\ Current' = [Current EXCEPT ![f] = NoPair]
        /\ revoked' = revoked \cup {f} /\ Issued' = Issued /\ origin' = origin
    BY <1>5 DEF Promise!Close
  <2> HIDE DEF Current, Issued
  <2> QED
    BY <1>1, <2>1, Nulls
<1>6. ASSUME NEW b \in Bearer, Promise!Ask(b) \/ \E f \in Family : Promise!Admit(b, f) PROVE After
  <2>1. origin' = origin /\ Current' = Current /\ revoked' = revoked /\ Issued' = Issued
    BY <1>6 DEF Promise!Ask, Promise!Admit
  <2> HIDE DEF Current, Issued
  <2> QED
    BY <1>1, <2>1
<1> HIDE DEF OnePairInForce, NothingReturns
<1> QED
  BY <1>2, <1>3, <1>4, <1>5, <1>6 DEF Promise!Next

\* For any number of codes, families, pairs and requests: at each time a client has one pair.
THEOREM OnePairIsInForce == Spec => []OnePairInForce
<1>1. Promise!Init => OnePairInForce
  BY DEF Promise!Init, OnePairInForce
<1>2. KeepsPromise => []OnePairInForce
  BY <1>1, PromiseSteps, PTL DEF KeepsPromise, Promise!Spec
<1> QED
  BY <1>2, ServerKeepsPromise, PTL

NeverAgain == [][NothingReturns]_<<origin, Current, revoked, Issued>>

\* A pair that was replaced, or whose family has ended, is never in force again, and a
\* family that has ended stays so, through every retry, race, crash and restart.
THEOREM ReplacedPairsNeverReturn == Spec => NeverAgain
<1>1. OnePairInForce /\ [Promise!Next]_(Promise!vars) =>
        [NothingReturns]_<<origin, Current, revoked, Issued>>
  BY PromiseSteps
<1>2. KeepsPromise /\ []OnePairInForce => NeverAgain
  BY <1>1, PTL DEF KeepsPromise, Promise!Spec, NeverAgain
<1> QED
  BY <1>2, ServerKeepsPromise, OnePairIsInForce, PTL
==============================================================================
