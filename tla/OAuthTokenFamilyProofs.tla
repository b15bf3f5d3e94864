----------------------- MODULE OAuthTokenFamilyProofs -----------------------
(***************************************************************************)
(* The invariants of OAuthTokenFamily hold in every reachable state, for   *)
(* any number of codes, families, pairs, entries and concurrent requests.  *)
(* IInv is inductive; the sections below follow the sections of the module *)
(* and show that each action preserves it.                                 *)
(***************************************************************************)
EXTENDS OAuthTokenFamily, TLAPS

\* Nothing is issued in the initial state.
LEMMA InitHolds == Init => IInv
<1> SUFFICES ASSUME Init PROVE IInv
  OBVIOUS
<1> USE DEF Init
<1>1. TypeOK
  BY Nulls DEF TypeOK, CodeRow, PairRow, Unissued, Request, IdleRequest, Check, IdleCheck
<1>2. Issued = {}
  BY DEF Issued, Unissued
<1>3. Opened /\ Refers /\ Exclusive
  BY <1>2 DEF Opened, Refers, RequestRefers, Exclusive, IdleRequest, IdleCheck
<1>4. EntryServesOne
  BY DEF EntryServesOne, IdleRequest
<1>5. OneBranch /\ RevokedFamilyIsDead /\ CodeOpensOneFamily /\ WithinConsent /\ OneReplacement
  BY <1>2 DEF OneBranch, RevokedFamilyIsDead, CodeOpensOneFamily, WithinConsent, OneReplacement
<1> QED
  BY <1>1, <1>3, <1>4, <1>5 DEF IInv

----------------------------------------------------------------------------
(* Frames: conjuncts that a step cannot disturb. *)

\* What the invariants say of the database depends on nothing else.
LEMMA DatabaseStays ==
  ASSUME IInv, UNCHANGED <<code, familyVars>>
  PROVE  /\ Issued' = Issued /\ (\A k \in Pair : FamilyOf(k)' = FamilyOf(k))
         /\ Opened' /\ OneBranch' /\ RevokedFamilyIsDead' /\ CodeOpensOneFamily'
         /\ WithinConsent'
<1>1. Issued' = Issued /\ (\A k \in Pair : FamilyOf(k)' = FamilyOf(k))
  BY DEF familyVars, Issued, FamilyOf
<1> QED
  BY <1>1 DEF familyVars, IInv, Issued, FamilyOf, Opened, OneBranch, RevokedFamilyIsDead,
              CodeOpensOneFamily, WithinConsent

\* A step that leaves the database, the cache, the /token requests and their replies alone.
LEMMA OthersMove ==
  ASSUME IInv, TypeOK', UNCHANGED <<code, familyVars, cacheVars, req, replies>>,
         \A v \in Revocation : revocation'[v] \in Issued \cup {NoPair},
         \A b \in Bearer : bearer'[b].pc # "idle" => bearer'[b].pair \in Issued
  PROVE  IInv'
<1>1. Issued' = Issued
  BY DatabaseStays
<1>2. Refers'
  BY <1>1 DEF IInv, Refers, RequestRefers, familyVars, FamilyOf
<1>3. Exclusive' /\ OneReplacement'
  BY DEF IInv, Exclusive, OneReplacement, familyVars, FamilyOf
<1>4. EntryServesOne'
  BY <1>1 DEF IInv, EntryServesOne, familyVars, cacheVars
<1> QED
  BY <1>2, <1>3, <1>4, DatabaseStays DEF IInv

\* A /token request moves to r and nothing else happens.
LEMMA RequestMoves ==
  ASSUME IInv, NEW x \in Exchange, NEW r \in Request,
         req' = [req EXCEPT ![x] = r],
         UNCHANGED <<now, userVars, code, familyVars, cacheVars, revocation, bearer, replies, admitted>>,
         RequestRefers(x)',
         \A y \in Exchange \ {x} :
           /\ ~(r.pc = "redeeming" /\ req[y].pc = "redeeming" /\ req[y].code = r.code)
           /\ ~(r.pc = "rotating" /\ req[y].pc = "rotating"
                  /\ FamilyOf(req[y].pair) = FamilyOf(r.pair)),
         r.entry # NoEntry => r.entry = req[x].entry /\ r.pair = req[x].pair
  PROVE  IInv'
<1>1. Issued' = Issued /\ \A k \in Pair : FamilyOf(k)' = FamilyOf(k)
  BY DatabaseStays
<1>2. req' \in [Exchange -> Request] /\ req'[x] = r /\ \A y \in Exchange \ {x} : req'[y] = req[y]
  BY DEF IInv, TypeOK
<1>3. TypeOK'
  BY <1>2 DEF IInv, TypeOK, userVars, familyVars, cacheVars
<1>4. Refers'
  <2>1. \A y \in Exchange : RequestRefers(y)'
    BY <1>1, <1>2 DEF IInv, Refers, RequestRefers, familyVars, FamilyOf
  <2> QED
    BY <1>1, <2>1 DEF IInv, Refers
<1>5. Exclusive'
  <2> SUFFICES ASSUME NEW y \in Exchange, NEW z \in Exchange
               PROVE  /\ req'[y].pc = "redeeming" /\ req'[z].pc = "redeeming"
                           /\ req'[y].code = req'[z].code => y = z
                      /\ req'[y].pc = "rotating" /\ req'[z].pc = "rotating"
                           /\ row'[req'[y].pair].family = row'[req'[z].pair].family => y = z
    BY DEF Exclusive, FamilyOf
  <2> QED
    BY <1>2 DEF IInv, Exclusive, FamilyOf, familyVars
<1>6. EntryServesOne'
  BY <1>1, <1>2 DEF IInv, EntryServesOne, familyVars, cacheVars
<1>7. OneReplacement'
  BY DEF IInv, OneReplacement, familyVars
<1> QED
  BY <1>3, <1>4, <1>5, <1>6, <1>7, DatabaseStays DEF IInv

----------------------------------------------------------------------------
(* Requests that only move. *)

\* An idle or refused request refers to nothing.
LEMMA FinishHolds ==
  ASSUME IInv, NEW x \in Exchange, Finish(x),
         UNCHANGED <<now, userVars, code, familyVars, cacheVars, revocation, bearer, replies, admitted>>
  PROVE  IInv'
<1>1. IdleRequest \in Request /\ IdleRequest.pc = "idle" /\ IdleRequest.entry = NoEntry
  BY DEF IdleRequest, Request
<1>2. RequestRefers(x)'
  BY <1>1 DEF RequestRefers, Finish, IInv, TypeOK
<1> QED
  BY <1>1, <1>2, RequestMoves DEF Finish

LEMMA LoadCodeHolds ==
  ASSUME IInv, NEW x \in Exchange, NEW c \in Code, LoadCode(x, c)
  PROVE  IInv'
<1> DEFINE r == [IdleRequest EXCEPT !.pc = "loaded", !.code = c]
<1>1. r \in Request /\ r.pc = "loaded" /\ r.code = c /\ r.entry = NoEntry
  BY DEF IdleRequest, Request
<1>2. req' = [req EXCEPT ![x] = r]
  BY DEF LoadCode
<1>3. RequestRefers(x)'
  BY <1>1, <1>2 DEF RequestRefers, IInv, TypeOK
<1> QED
  BY <1>1, <1>2, <1>3, RequestMoves DEF LoadCode

LEMMA LockCodeHolds ==
  ASSUME IInv, NEW x \in Exchange, LockCode(x)
  PROVE  IInv'
<1> DEFINE r == [req[x] EXCEPT !.pc = "redeeming", !.at = now,
                               !.tools = code[req[x].code].tools \cap Effective]
<1>1. req[x].code \in Code /\ code[req[x].code].state = "issued"
  BY DEF LockCode, Redeemable, IInv, Refers, RequestRefers
<1>2. /\ r \in Request /\ r.pc = "redeeming" /\ r.code = req[x].code /\ r.entry = req[x].entry
      /\ r.pair = req[x].pair /\ r.tools \subseteq code[req[x].code].tools
  <2>1. req[x] \in Request /\ now \in Nat /\ code[req[x].code].tools \cap Effective \in SUBSET Tool
    BY <1>1 DEF IInv, TypeOK, CodeRow
  <2> QED
    BY <2>1 DEF Request
<1>3. req' = [req EXCEPT ![x] = r]
  BY DEF LockCode, IInv, TypeOK, Request
<1>4. RequestRefers(x)'
  BY <1>1, <1>2, <1>3 DEF RequestRefers, IInv, TypeOK, LockCode
<1>5. \A y \in Exchange \ {x} : ~(req[y].pc = "redeeming" /\ req[y].code = r.code)
  BY <1>2 DEF LockCode, CodeLocked
<1> QED
  BY <1>2, <1>3, <1>4, <1>5, RequestMoves DEF LockCode

LEMMA LockEntryHolds ==
  ASSUME IInv, NEW x \in Exchange, LockEntry(x)
  PROVE  IInv'
<1> DEFINE r == [req[x] EXCEPT !.pc = "entered"]
<1>1. r \in Request /\ r.pc = "entered" /\ r.entry = req[x].entry /\ r.pair = req[x].pair
  BY DEF IInv, TypeOK, Request
<1>2. req' = [req EXCEPT ![x] = r]
  BY DEF LockEntry, IInv, TypeOK, Request
<1>3. Issued' = Issued
  BY DatabaseStays DEF LockEntry
<1>4. RequestRefers(x)'
  BY <1>1, <1>2, <1>3 DEF RequestRefers, IInv, Refers, TypeOK, LockEntry
<1> QED
  BY <1>1, <1>2, <1>4, RequestMoves DEF LockEntry

LEMMA BeginRotationHolds ==
  ASSUME IInv, NEW x \in Exchange, BeginRotation(x)
  PROVE  IInv'
<1> DEFINE p == req[x].pair
           r == [req[x] EXCEPT !.pc = "rotating", !.at = now, !.tools = Selected(p) \cap Effective]
<1>1. /\ p \in Pair /\ p \in Issued /\ req[x].entry \in Entry /\ FamilyOf(p) \notin revoked
      /\ ~row[p].rotated /\ row[p].grants \subseteq approved[FamilyOf(p)]
  BY DEF BeginRotation, AtFamilyLock, Rotatable, Usable, IInv, Refers, RequestRefers, Issued, WithinConsent
<1>2. /\ r \in Request /\ r.pc = "rotating" /\ r.entry = req[x].entry /\ r.pair = p
      /\ r.tools \subseteq row[p].grants
  <2>1. req[x] \in Request /\ now \in Nat /\ Selected(p) \cap Effective \in SUBSET Tool
    BY <1>1 DEF IInv, TypeOK, PairRow, Selected
  <2> QED
    BY <2>1 DEF Request, Selected
<1>3. req' = [req EXCEPT ![x] = r]
  BY DEF BeginRotation, IInv, TypeOK, Request
<1>4. Issued' = Issued /\ UNCHANGED <<row, revoked, approved>>
  BY DatabaseStays DEF BeginRotation, familyVars
<1>5. RequestRefers(x)'
  BY <1>1, <1>2, <1>3, <1>4 DEF RequestRefers, IInv, TypeOK, FamilyOf
<1>6. \A y \in Exchange \ {x} :
        ~(req[y].pc = "rotating" /\ FamilyOf(req[y].pair) = FamilyOf(r.pair))
  BY <1>2 DEF BeginRotation, AtFamilyLock, FamilyLocked
<1> QED
  BY <1>2, <1>3, <1>5, <1>6, RequestMoves DEF BeginRotation

----------------------------------------------------------------------------
(* Administration. *)

\* A change of grants, and of the tools selected in the Dashboard, that keeps WithinConsent.
LEMMA GrantsChange ==
  ASSUME IInv, UNCHANGED <<now, account, enabled, code, origin, revoked, cacheVars, handlerVars>>,
         allowance' \subseteq Tool, approved' \in [Family -> SUBSET Tool],
         \A f \in Family : approved[f] \subseteq approved'[f],
         NEW G \in [Pair -> SUBSET Tool],
         row' = [k \in Pair |-> [row[k] EXCEPT !.grants = G[k]]],
         \A k \in Issued : G[k] \subseteq approved'[FamilyOf(k)]
  PROVE  IInv'
<1>1. \A k \in Pair :
        /\ row'[k] \in PairRow
        /\ row'[k].family = row[k].family /\ row'[k].parent = row[k].parent
        /\ row'[k].refreshLive = row[k].refreshLive /\ row'[k].rotated = row[k].rotated
        /\ row'[k].tokenLive = row[k].tokenLive /\ row'[k].linkLive = row[k].linkLive
        /\ row'[k].accessExpires = row[k].accessExpires
        /\ row'[k].refreshExpires = row[k].refreshExpires /\ row'[k].grants = G[k]
  BY DEF IInv, TypeOK, PairRow
<1>2. Issued' = Issued /\ \A k \in Pair : FamilyOf(k)' = FamilyOf(k)
  BY <1>1 DEF Issued, FamilyOf
<1>3. TypeOK'
  BY <1>1 DEF IInv, TypeOK, cacheVars, handlerVars
<1>4. Opened' /\ CodeOpensOneFamily'
  <2>1. \A k \in Issued : k \in Pair
    BY DEF Issued
  <2>2. \A f \in Family : origin[f] # NoCode =>
          \E k \in Issued' : FamilyOf(k)' = f /\ ~row'[k].rotated
    BY <1>1, <1>2, <2>1 DEF IInv, Opened
  <2> QED
    BY <1>2, <2>1, <2>2 DEF IInv, Opened, CodeOpensOneFamily
<1>5. Refers'
  <2>1. \A k \in Issued : k \in Pair /\ FamilyOf(k) \in Family
    BY DEF Issued, FamilyOf, IInv, TypeOK, PairRow
  <2>2. \A x \in Exchange : RequestRefers(x)'
    BY <1>1, <1>2, <2>1 DEF IInv, Refers, RequestRefers, handlerVars
  <2> QED
    BY <1>2, <2>2 DEF IInv, Refers, handlerVars
<1>6. Exclusive'
  <2>1. \A x \in Exchange : req[x].pc = "rotating" => req[x].pair \in Pair
    BY DEF IInv, Refers, RequestRefers, Issued
  <2> QED
    BY <1>2, <2>1 DEF IInv, Exclusive, handlerVars
<1>7. EntryServesOne'
  <2>1. \A e \in Entry : entryToken[e] # NoPair => row'[entryToken[e]].parent = row[entryToken[e]].parent
    BY <1>1 DEF IInv, TypeOK
  <2>2. (\A k \in Pair : slot[k] \in Entry \cup {NoEntry}) /\ \A x \in Exchange : req[x].entry \in Entry \cup {NoEntry}
    BY DEF IInv, TypeOK, Request
  <2> QED
    BY <1>2, <2>1, <2>2 DEF IInv, EntryServesOne, cacheVars, handlerVars
<1>8. OneBranch' /\ RevokedFamilyIsDead'
  <2>1. \A k \in Issued : k \in Pair
    BY DEF Issued
  <2>2. OneBranch'
    BY <1>1, <1>2, <2>1 DEF IInv, OneBranch
  <2>3. RevokedFamilyIsDead'
    BY <1>1, <1>2, <2>1 DEF IInv, RevokedFamilyIsDead
  <2> QED
    BY <2>2, <2>3
<1>9. WithinConsent'
  BY <1>1, <1>2 DEF IInv, WithinConsent, Issued
<1>10. OneReplacement'
  BY <1>1 DEF IInv, OneReplacement, TypeOK, handlerVars
<1> QED
  BY <1>3, <1>4, <1>5, <1>6, <1>7, <1>8, <1>9, <1>10 DEF IInv

LEMMA ReplaceAllowancesHolds ==
  ASSUME IInv, NEW S \in SUBSET Tool, ReplaceAllowances(S)
  PROVE  IInv'
<1> DEFINE G == [k \in Pair |-> row[k].grants \cap S]
<1>1. G \in [Pair -> SUBSET Tool]
  BY DEF IInv, TypeOK, PairRow
<1>2. row' = [k \in Pair |-> [row[k] EXCEPT !.grants = G[k]]]
  BY DEF ReplaceAllowances
<1>3. \A k \in Issued : G[k] \subseteq approved[FamilyOf(k)]
  BY DEF IInv, WithinConsent, Issued
<1> HIDE DEF G
<1>4. approved' = approved /\ approved \in [Family -> SUBSET Tool] /\ allowance' \subseteq Tool
  BY DEF ReplaceAllowances, IInv, TypeOK
<1> QED
  BY <1>1, <1>2, <1>3, <1>4, GrantsChange DEF ReplaceAllowances

LEMMA ReplaceTokenGrantsHolds ==
  ASSUME IInv, NEW p \in Pair, NEW S \in SUBSET Tool, ReplaceTokenGrants(p, S)
  PROVE  IInv'
<1> DEFINE G == [k \in Pair |-> IF k = p THEN S ELSE row[k].grants]
<1>1. G \in [Pair -> SUBSET Tool]
  BY DEF IInv, TypeOK, PairRow
<1>2. row' = [k \in Pair |-> [row[k] EXCEPT !.grants = G[k]]]
  BY DEF ReplaceTokenGrants, IInv, TypeOK, PairRow
<1>3. /\ approved' \in [Family -> SUBSET Tool]
      /\ \A f \in Family : approved'[f] = IF f = FamilyOf(p) THEN approved[f] \cup S ELSE approved[f]
  BY DEF ReplaceTokenGrants, IInv, TypeOK
<1>4. \A k \in Issued : G[k] \subseteq approved'[FamilyOf(k)]
  BY <1>3 DEF IInv, TypeOK, PairRow, WithinConsent, Issued, FamilyOf
<1> HIDE DEF G
<1>5. \A f \in Family : approved[f] \subseteq approved'[f]
  BY <1>3
<1> QED
  BY <1>1, <1>2, <1>3, <1>4, <1>5, GrantsChange DEF ReplaceTokenGrants, userVars, IInv, TypeOK

LEMMA ApproveHolds ==
  ASSUME IInv, NEW c \in Code, NEW S \in SUBSET Tool, NEW d \in GrantTTL, Approve(c, S, d)
  PROVE  IInv'
<1>1. /\ code' \in [Code -> CodeRow] /\ code[c].state = "none"
      /\ \A b \in Code \ {c} : code'[b] = code[b]
  BY Durations DEF Approve, IInv, TypeOK, CodeRow
<1>2. Issued' = Issued /\ \A k \in Pair : FamilyOf(k)' = FamilyOf(k)
  BY DEF Approve, familyVars, Issued, FamilyOf
<1>3. TypeOK'
  BY <1>1 DEF Approve, IInv, TypeOK, userVars, familyVars, cacheVars, handlerVars
<1>4. \A f \in Family : origin[f] # NoCode => origin[f] \in Code \ {c}
  BY <1>1 DEF IInv, TypeOK, Opened
<1>5. Opened'
  BY <1>1, <1>2, <1>4 DEF Approve, familyVars, IInv, Opened, FamilyOf
<1>6. Refers'
  <2>1. \A x \in Exchange : RequestRefers(x)'
    BY <1>1, <1>2 DEF Approve, familyVars, handlerVars, IInv, Refers, RequestRefers, FamilyOf
  <2> QED
    BY <1>2, <2>1 DEF Approve, handlerVars, IInv, Refers
<1>7. Exclusive' /\ OneReplacement'
  BY DEF Approve, familyVars, handlerVars, IInv, Exclusive, OneReplacement, FamilyOf
<1>8. EntryServesOne'
  BY <1>2 DEF Approve, familyVars, handlerVars, cacheVars, IInv, EntryServesOne
<1>9. OneBranch' /\ RevokedFamilyIsDead' /\ CodeOpensOneFamily'
  BY DEF Approve, familyVars, IInv, OneBranch, RevokedFamilyIsDead, CodeOpensOneFamily, Issued, FamilyOf
<1>10. WithinConsent'
  <2>1. \A p \in Issued : FamilyOf(p) \in Family /\ origin[FamilyOf(p)] # NoCode
    BY DEF Issued, FamilyOf, IInv, TypeOK, PairRow, Opened
  <2> QED
    BY <1>1, <1>2, <1>4, <2>1 DEF Approve, familyVars, IInv, WithinConsent, FamilyOf
<1> QED
  BY <1>3, <1>5, <1>6, <1>7, <1>8, <1>9, <1>10 DEF IInv

\* Approve, and what changes the user, a setting or a grant.
LEMMA AdministrationHolds == IInv /\ Administration => IInv'
<1> SUFFICES ASSUME IInv, Administration PROVE IInv'
  OBVIOUS
<1>1. CASE SaveCredential \/ RevokeCredential \/ DisableUser \/ EnableUser
  <2>1. TypeOK' /\ UNCHANGED <<code, familyVars, cacheVars, handlerVars>>
    BY <1>1 DEF SaveCredential, RevokeCredential, DisableUser, EnableUser, SetAccount, IInv, TypeOK,
                familyVars, cacheVars, handlerVars
  <2> QED
    BY <2>1, OthersMove DEF handlerVars, IInv, Refers, TypeOK
<1>2. CASE \E t \in Tool : SetGlobalEnabled(t)
  <2>1. TypeOK' /\ UNCHANGED <<code, familyVars, cacheVars, handlerVars>>
    BY <1>2 DEF SetGlobalEnabled, IInv, TypeOK, familyVars, cacheVars, handlerVars
  <2> QED
    BY <2>1, OthersMove DEF handlerVars, IInv, Refers, TypeOK
<1> QED
  BY <1>1, <1>2, ReplaceAllowancesHolds, ReplaceTokenGrantsHolds, ApproveHolds DEF Administration

LEMMA TickHolds == IInv /\ Tick => IInv'
<1> SUFFICES ASSUME IInv, Tick PROVE IInv'
  OBVIOUS
<1>1. TypeOK' /\ UNCHANGED <<code, familyVars, cacheVars, handlerVars>>
  BY DEF Tick, IInv, TypeOK, userVars, familyVars, cacheVars, handlerVars
<1> QED
  BY <1>1, OthersMove DEF handlerVars, IInv, Refers, TypeOK

----------------------------------------------------------------------------
(* Issuing: a redemption and a rotation each insert one pair. *)

\* The inserted rows are well typed and expire within the lifetime of the family.
LEMMA NewPairTyped ==
  ASSUME NEW f \in Family, NEW parent \in Pair \cup {NoPair}, NEW tools \in SUBSET Tool,
         NEW at \in Nat, NEW until \in Nat
  PROVE  LET n == NewPair(f, parent, tools, at, until) IN
         /\ n \in PairRow /\ n.family = f /\ n.parent = parent /\ n.grants = tools
         /\ ~n.rotated /\ n.refreshLive /\ n.refreshExpires = until /\ n.accessExpires <= until
<1>1. MinOf(at + AccessTTL, until) \in Nat /\ MinOf(at + AccessTTL, until) <= until
  BY Durations DEF MinOf
<1> QED
  BY <1>1 DEF NewPair, PairRow

LEMMA CommitRedemptionHolds ==
  ASSUME IInv, NEW x \in Exchange, NEW f \in Family, NEW q \in Pair, CommitRedemption(x, f, q)
  PROVE  IInv'
<1> DEFINE c == req[x].code
           n == NewPair(f, NoPair, req[x].tools, req[x].at, code[c].until)
<1>1. /\ c \in Code /\ code[c].state = "issued" /\ q \notin Issued /\ origin[f] = NoCode
      /\ req[x].tools \subseteq code[c].tools /\ c # NoCode
  BY Nulls DEF CommitRedemption, IInv, Refers, RequestRefers
<1>2. /\ n \in PairRow /\ n.family = f /\ n.parent = NoPair /\ n.grants = req[x].tools
      /\ ~n.rotated /\ n.refreshExpires = code[c].until /\ n.accessExpires <= code[c].until
  <2>1. req[x].tools \in SUBSET Tool /\ req[x].at \in Nat /\ code[c].until \in Nat
    BY <1>1 DEF IInv, TypeOK, Request, CodeRow
  <2>2. \A T \in SUBSET Tool, a \in Nat, u \in Nat :
          LET k == NewPair(f, NoPair, T, a, u) IN
          /\ k \in PairRow /\ k.family = f /\ k.parent = NoPair /\ k.grants = T
          /\ ~k.rotated /\ k.refreshExpires = u /\ k.accessExpires <= u
    <3> TAKE T \in SUBSET Tool, a \in Nat, u \in Nat
    <3>1. NoPair \in Pair \cup {NoPair}
      OBVIOUS
    <3> QED
      BY ONLY <3>1, NewPairTyped, f \in Family, T \in SUBSET Tool, a \in Nat, u \in Nat
  <2> HIDE DEF c
  <2> QED
    BY <2>1, <2>2
<1> HIDE DEF n
<1>3. row' = [row EXCEPT ![q] = n]
  BY DEF CommitRedemption, n
<1>4. row' \in [Pair -> PairRow] /\ row'[q] = n /\ \A k \in Pair \ {q} : row'[k] = row[k]
  BY <1>2, <1>3 DEF IInv, TypeOK
<1>5. /\ code' \in [Code -> CodeRow] /\ code'[c].state = "consumed"
      /\ code'[c].tools = code[c].tools /\ code'[c].until = code[c].until
      /\ \A b \in Code \ {c} : code'[b] = code[b]
  BY <1>1 DEF CommitRedemption, IInv, TypeOK, CodeRow
<1>6. /\ origin' \in [Family -> Code \cup {NoCode}] /\ origin'[f] = c
      /\ approved' \in [Family -> SUBSET Tool] /\ approved'[f] = code[c].tools
      /\ \A g \in Family \ {f} : origin'[g] = origin[g] /\ approved'[g] = approved[g]
  BY <1>1 DEF CommitRedemption, IInv, TypeOK, CodeRow
<1>7. /\ req' \in [Exchange -> Request] /\ req'[x] = IdleRequest
      /\ \A y \in Exchange \ {x} : req'[y] = req[y]
  BY DEF CommitRedemption, Finish, IInv, TypeOK, Request, IdleRequest
<1>8. IdleRequest.pc = "idle" /\ IdleRequest.entry = NoEntry
  BY DEF IdleRequest
<1>9. /\ Issued' = Issued \cup {q}
      /\ \A k \in Issued : k \in Pair /\ k # q /\ row'[k] = row[k] /\ FamilyOf(k) \in Family
           /\ FamilyOf(k) # f /\ FamilyOf(k)' = FamilyOf(k)
      /\ FamilyOf(q)' = f
  <2>1. f # NoFamily
    BY Nulls
  <2>2. \A k \in Issued : FamilyOf(k) \in Family /\ FamilyOf(k) # f
    BY <1>1 DEF Issued, FamilyOf, IInv, TypeOK, PairRow, Opened
  <2> QED
    BY <1>1, <1>2, <1>4, <2>1, <2>2 DEF Issued, FamilyOf
<1>10. UNCHANGED <<now, userVars, revoked, cacheVars, revocation, bearer, admitted>>
  BY DEF CommitRedemption
<1>11. TypeOK'
  BY <1>4, <1>5, <1>6, <1>7, <1>10 DEF CommitRedemption, IInv, TypeOK, userVars, cacheVars
<1>12. \A g \in Family : origin[g] # c
  BY <1>1 DEF IInv, Opened
<1>13. Opened'
  <2>1. \A g \in Family : origin'[g] # NoCode => code'[origin'[g]].state = "consumed"
    BY <1>1, <1>5, <1>6, <1>12 DEF IInv, Opened, TypeOK
  <2>2. (\A k \in Issued' : origin'[FamilyOf(k)'] # NoCode) /\ \A g \in revoked : origin'[g] # NoCode
    BY <1>1, <1>6, <1>9 DEF IInv, Opened, TypeOK
  <2>3. \A g \in Family : origin'[g] # NoCode =>
          \E k \in Issued' : FamilyOf(k)' = g /\ ~row'[k].rotated
    BY <1>2, <1>4, <1>6, <1>9 DEF IInv, Opened
  <2> QED
    BY <1>10, <2>1, <2>2, <2>3 DEF Opened
<1>14. Refers'
  <2>1. ASSUME NEW y \in Exchange PROVE RequestRefers(y)'
    <3>1. CASE y = x
      BY <1>7, <1>8, <3>1 DEF RequestRefers
    <3>2. CASE y # x
      <4>1. RequestRefers(y) /\ req'[y] = req[y] /\ (req[y].pc = "redeeming" => req[y].code # c)
        BY <1>7, <3>2 DEF IInv, Refers, Exclusive, CommitRedemption
      <4> QED
        BY <1>5, <1>6, <1>9, <1>10, <4>1 DEF RequestRefers
    <3> QED
      BY <3>1, <3>2
  <2>2. \A r \in replies' : r[2] \in Issued'
    BY <1>9 DEF CommitRedemption, IInv, Refers
  <2> QED
    BY <1>9, <1>10, <2>1, <2>2 DEF IInv, Refers
<1>15. Exclusive'
  <2>1. \A y \in Exchange \ {x} : req'[y] = req[y] /\
          (req[y].pc = "rotating" => req[y].pair \in Issued)
    BY <1>7 DEF IInv, Refers, RequestRefers
  <2> QED
    BY <1>7, <1>8, <1>9, <2>1 DEF IInv, Exclusive
<1>16. EntryServesOne'
  <2>1. \A e \in Entry : entryToken[e] # NoPair =>
          entryToken[e] \in Issued' /\ row'[entryToken[e]] = row[entryToken[e]]
    BY <1>9 DEF IInv, EntryServesOne
  <2>2. (\A k \in Pair : slot[k] \in Entry \cup {NoEntry})
        /\ \A y \in Exchange : req[y].entry \in Entry \cup {NoEntry}
    BY DEF IInv, TypeOK, Request
  <2> QED
    BY <1>7, <1>8, <1>10, <2>1, <2>2 DEF IInv, EntryServesOne, cacheVars
<1>17. OneBranch'
  BY <1>2, <1>4, <1>9 DEF IInv, OneBranch
<1>18. RevokedFamilyIsDead'
  <2>1. f \notin revoked
    BY <1>1 DEF IInv, Opened
  <2> QED
    BY <1>9, <1>10, <2>1 DEF IInv, RevokedFamilyIsDead
<1>19. CodeOpensOneFamily'
  BY <1>6, <1>12 DEF IInv, CodeOpensOneFamily
<1>20. WithinConsent'
  <2>1. \A k \in Issued : origin[FamilyOf(k)] \in Code \ {c}
    BY <1>9, <1>12 DEF IInv, Opened, TypeOK
  <2> QED
    BY <1>1, <1>2, <1>4, <1>5, <1>6, <1>9, <2>1 DEF IInv, WithinConsent
<1>21. OneReplacement'
  BY <1>9 DEF CommitRedemption, IInv, OneReplacement, Refers
<1> QED
  BY <1>11, <1>13, <1>14, <1>15, <1>16, <1>17, <1>18, <1>19, <1>20, <1>21 DEF IInv

LEMMA CommitRotationHolds ==
  ASSUME IInv, NEW x \in Exchange, NEW q \in Pair, CommitRotation(x, q)
  PROVE  IInv'
<1> DEFINE p == req[x].pair
           f == FamilyOf(p)
           n == NewPair(f, p, req[x].tools, req[x].at, row[p].refreshExpires)
           m == [row[p] EXCEPT !.rotated = TRUE, !.rotatedAt = req[x].at,
                               !.tokenLive = FALSE, !.linkLive = FALSE]
<1>1. /\ req[x].pc = "rotating" /\ q \notin Issued /\ p \in Issued /\ p \in Pair /\ p # q /\ f \in Family
      /\ ~row[p].rotated /\ f \notin revoked /\ req[x].entry \in Entry
      /\ req[x].tools \subseteq approved[f]
  BY DEF CommitRotation, IInv, Refers, RequestRefers, Issued, TypeOK, PairRow, FamilyOf
<1>2. /\ n \in PairRow /\ n.family = f /\ n.parent = p /\ n.grants = req[x].tools
      /\ ~n.rotated /\ n.refreshExpires = row[p].refreshExpires /\ n.accessExpires <= n.refreshExpires
  <2>1. req[x].tools \in SUBSET Tool /\ req[x].at \in Nat /\ row[p].refreshExpires \in Nat
    BY <1>1 DEF IInv, TypeOK, Request, PairRow
  <2> HIDE DEF p, f
  <2> QED
    BY <1>1, <2>1, NewPairTyped
<1>3. /\ m \in PairRow /\ m.rotated /\ ~m.tokenLive /\ ~m.linkLive
      /\ m.family = f /\ m.parent = row[p].parent /\ m.grants = row[p].grants
      /\ m.refreshExpires = row[p].refreshExpires /\ m.accessExpires = row[p].accessExpires
  <2>1. row[p] \in PairRow /\ req[x].at \in Nat
    BY <1>1 DEF IInv, TypeOK, Request
  <2> QED
    BY <2>1 DEF PairRow, FamilyOf
<1>4. row' = [row EXCEPT ![p] = m, ![q] = n]
  BY <1>1 DEF CommitRotation, IInv, TypeOK, PairRow
<1> HIDE DEF n, m
<1>5. /\ row' \in [Pair -> PairRow] /\ row'[q] = n /\ row'[p] = m
      /\ \A k \in Pair \ {p, q} : row'[k] = row[k]
  BY <1>1, <1>2, <1>3, <1>4 DEF IInv, TypeOK
<1>6. /\ req' \in [Exchange -> Request]
      /\ req'[x].pc = "storing" /\ req'[x].result = q
      /\ req'[x].pair = p /\ req'[x].entry = req[x].entry
      /\ \A y \in Exchange \ {x} : req'[y] = req[y]
  <2>1. req[x] \in Request
    BY DEF IInv, TypeOK
  <2>2. req' = [req EXCEPT ![x] = [req[x] EXCEPT !.pc = "storing", !.result = q]]
    BY DEF CommitRotation, IInv, TypeOK, Request
  <2> QED
    BY <2>1, <2>2 DEF IInv, TypeOK, Request
<1>7. /\ Issued' = Issued \cup {q}
      /\ \A k \in Issued : k \in Pair /\ k # q /\ FamilyOf(k)' = FamilyOf(k)
           /\ row'[k].parent = row[k].parent
      /\ FamilyOf(q)' = f
  <2>1. f # NoFamily
    BY <1>1, Nulls
  <2> QED
    BY <1>1, <1>2, <1>3, <1>5, <2>1 DEF Issued, FamilyOf
<1>8. UNCHANGED <<now, userVars, code, origin, revoked, approved, cacheVars, revocation, bearer,
                  replies, admitted>>
  BY DEF CommitRotation
<1>9. TypeOK'
  BY <1>5, <1>6, <1>8 DEF IInv, TypeOK, userVars, cacheVars
<1>10. Opened'
  <2>1. \A g \in Family : origin[g] # NoCode =>
          \E k \in Issued' : FamilyOf(k)' = g /\ ~row'[k].rotated
    <3>1. \A k \in Issued : ~row[k].rotated /\ FamilyOf(k) # f => ~row'[k].rotated
      BY <1>5, <1>7
    <3> QED
      BY <1>2, <1>5, <1>7, <3>1 DEF IInv, Opened
  <2> QED
    BY <1>1, <1>7, <1>8, <2>1 DEF IInv, Opened
<1>11. Refers'
  <2>1. ASSUME NEW y \in Exchange PROVE RequestRefers(y)'
    <3>1. CASE y = x
      BY <1>1, <1>2, <1>5, <1>6, <1>7, <3>1 DEF RequestRefers
    <3>2. CASE y # x
      <4>1. RequestRefers(y) /\ req'[y] = req[y]
        BY <1>6, <3>2 DEF IInv, Refers
      <4>2. req[y].pc = "rotating" => FamilyOf(req[y].pair) # f /\ req[y].pair # p
        BY <1>1, <3>2 DEF IInv, Exclusive
      <4> QED
        BY <1>5, <1>7, <1>8, <4>1, <4>2 DEF RequestRefers
    <3> QED
      BY <3>1, <3>2
  <2> QED
    BY <1>7, <1>8, <2>1 DEF IInv, Refers
<1>12. Exclusive'
  <2>1. \A y \in Exchange \ {x} : req'[y] = req[y] /\
          (req[y].pc = "rotating" => req[y].pair \in Issued)
    BY <1>6 DEF IInv, Refers, RequestRefers
  <2> QED
    BY <1>6, <1>7, <2>1 DEF IInv, Exclusive
<1>13. EntryServesOne'
  <2>1. \A e \in Entry : entryToken[e] # NoPair =>
          entryToken[e] \in Issued' /\ row'[entryToken[e]].parent = row[entryToken[e]].parent
    BY <1>7 DEF IInv, EntryServesOne
  <2>2. (\A k \in Pair : slot[k] \in Entry \cup {NoEntry})
        /\ \A y \in Exchange : req[y].entry \in Entry \cup {NoEntry}
                /\ req'[y].entry = req[y].entry /\ req'[y].pair = req[y].pair
    BY <1>6 DEF IInv, TypeOK, Request
  <2> QED
    BY <1>8, <2>1, <2>2 DEF IInv, EntryServesOne, cacheVars
<1>14. OneBranch'
  <2>1. \A k \in Issued \ {p} : FamilyOf(k) = f => row'[k] = row[k] /\ row[k].rotated
    BY <1>1, <1>5, <1>7 DEF IInv, OneBranch
  <2> QED
    BY <1>1, <1>2, <1>3, <1>5, <1>7, <2>1 DEF IInv, OneBranch
<1>15. RevokedFamilyIsDead'
  BY <1>1, <1>5, <1>7, <1>8 DEF IInv, RevokedFamilyIsDead
<1>16. CodeOpensOneFamily'
  BY <1>8 DEF IInv, CodeOpensOneFamily
<1>17. WithinConsent'
  BY <1>1, <1>2, <1>3, <1>5, <1>7, <1>8 DEF IInv, WithinConsent
<1>18. OneReplacement'
  BY <1>7, <1>8 DEF IInv, OneReplacement, Refers
<1> QED
  BY <1>9, <1>10, <1>11, <1>12, <1>13, <1>14, <1>15, <1>16, <1>17, <1>18 DEF IInv

----------------------------------------------------------------------------
(* The recovery cache. *)

\* The sweep and the eviction only remove entries.
LEMMA KeptAreCached ==
  ASSUME NEW p \in Pair, NEW kept \in Kept(p)
  PROVE  kept \subseteq Cached
<1> DEFINE swept == {k \in Cached : ~Expired(k)}
<1>1. kept = swept \/ \E k \in swept : kept = swept \ {k}
  BY DEF Kept
<1> QED
  BY <1>1

LEMMA LoadRefreshHolds ==
  ASSUME IInv, NEW x \in Exchange, NEW p \in Pair, LoadRefresh(x, p)
  PROVE  IInv'
<1>1. PICK kept \in Kept(p), e \in Entry :
        /\ IF p \in kept THEN e = slot[p] ELSE FreeEntry(e, kept)
        /\ slot' = [k \in Pair |->
                      IF k \in kept THEN slot[k]
                      ELSE IF k = p /\ Cardinality(kept) < CacheMax THEN e ELSE NoEntry]
        /\ entryToken' = IF p \in kept THEN entryToken ELSE NewEntry(e)
        /\ req' = [req EXCEPT ![x] = [IdleRequest EXCEPT !.pc = "waiting", !.pair = p, !.entry = e]]
  BY DEF LoadRefresh
<1> DEFINE r == [IdleRequest EXCEPT !.pc = "waiting", !.pair = p, !.entry = e]
<1>2. r \in Request /\ r.pc = "waiting" /\ r.pair = p /\ r.entry = e
  BY DEF IdleRequest, Request
<1> HIDE DEF r
<1>3. req' \in [Exchange -> Request] /\ req'[x] = r /\ \A y \in Exchange \ {x} : req'[y] = req[y]
  BY <1>1, <1>2 DEF r, IInv, TypeOK
<1>4. kept \subseteq Pair /\ \A k \in kept : slot[k] \in Entry
  BY KeptAreCached DEF Cached, IInv, TypeOK
<1>5. slot' \in [Pair -> Entry \cup {NoEntry}]
  BY <1>1, <1>4
<1>6. \A k \in Pair : slot'[k] # NoEntry => (k \in kept /\ slot'[k] = slot[k]) \/ (k = p /\ slot'[k] = e)
  BY <1>1
<1>7. (\A k \in kept : slot[k] = e => k = p) /\ \A y \in Exchange : req[y].entry = e => req[y].pair = p
  <2>1. e # NoEntry
    BY Nulls
  <2> QED
    BY <1>1, <1>4, <2>1 DEF FreeEntry, IInv, EntryServesOne
<1>8. /\ entryToken' \in [Entry -> Pair \cup {NoPair}]
      /\ \A d \in Entry \ {e} : entryToken'[d] = entryToken[d]
      /\ entryToken'[e] # NoPair => p \in kept /\ slot[p] = e /\ entryToken'[e] = entryToken[e]
  BY <1>1 DEF NewEntry, IInv, TypeOK
<1>9. UNCHANGED <<now, userVars, code, familyVars, revocation, bearer, replies, admitted>>
  BY DEF LoadRefresh
<1>10. Issued' = Issued /\ UNCHANGED row /\ (\A k \in Pair : FamilyOf(k)' = FamilyOf(k))
  BY <1>9, DatabaseStays DEF familyVars
<1>11. TypeOK'
  BY <1>3, <1>5, <1>8, <1>9 DEF IInv, TypeOK, userVars, familyVars
<1>12. Refers'
  <2>1. p \in Issued
    BY DEF LoadRefresh, Held, IInv, Refers
  <2>2. \A y \in Exchange : RequestRefers(y)'
    BY <1>2, <1>3, <1>9, <1>10, <2>1 DEF IInv, Refers, RequestRefers, familyVars, FamilyOf
  <2> QED
    BY <1>9, <1>10, <2>2 DEF IInv, Refers
<1>13. Exclusive'
  BY <1>2, <1>3, <1>10 DEF IInv, Exclusive, FamilyOf
<1>14. EntryServesOne'
  <2>1. \A d \in Entry : entryToken'[d] # NoPair => entryToken'[d] \in Issued'
    BY <1>8, <1>10 DEF IInv, EntryServesOne
  <2>2. \A j, k \in Pair : slot'[j] # NoEntry /\ slot'[j] = slot'[k] => j = k
    BY <1>4, <1>6, <1>7 DEF IInv, EntryServesOne
  <2>3. \A k \in Pair, y \in Exchange :
          slot'[k] # NoEntry /\ slot'[k] = req'[y].entry => req'[y].pair = k
    BY <1>2, <1>3, <1>4, <1>6, <1>7 DEF IInv, EntryServesOne
  <2>4. \A y, z \in Exchange :
          req'[y].entry # NoEntry /\ req'[y].entry = req'[z].entry => req'[y].pair = req'[z].pair
    BY <1>2, <1>3, <1>7 DEF IInv, EntryServesOne
  <2>5. \A k \in Pair : slot'[k] # NoEntry /\ entryToken'[slot'[k]] # NoPair =>
          row'[entryToken'[slot'[k]]].parent = k
    BY <1>4, <1>6, <1>7, <1>8, <1>10 DEF IInv, EntryServesOne
  <2>6. \A y \in Exchange : req'[y].entry # NoEntry /\ entryToken'[req'[y].entry] # NoPair =>
          row'[entryToken'[req'[y].entry]].parent = req'[y].pair
    <3>1. \A y \in Exchange : req[y].entry \in Entry \cup {NoEntry}
      BY DEF IInv, TypeOK, Request
    <3>2. entryToken'[e] # NoPair => row'[entryToken'[e]].parent = p
      BY <1>8, <1>10, Nulls DEF IInv, EntryServesOne
    <3> QED
      BY <1>2, <1>3, <1>7, <1>8, <1>10, <3>1, <3>2 DEF IInv, EntryServesOne
  <2> QED
    BY <2>1, <2>2, <2>3, <2>4, <2>5, <2>6 DEF EntryServesOne
<1>15. OneReplacement'
  BY <1>9 DEF IInv, OneReplacement, familyVars
<1> QED
  BY <1>9, <1>11, <1>12, <1>13, <1>14, <1>15, DatabaseStays DEF IInv

\* A request ends with a reply: the pair its refresh token was rotated into.
LEMMA ReplyHolds ==
  ASSUME IInv, NEW x \in Exchange, Finish(x), NEW e \in Entry, NEW q \in Pair,
         req[x].entry = e, q \in Issued, row[q].parent = req[x].pair, req[x].pair \in Pair,
         entryToken' = [entryToken EXCEPT ![e] = q],
         replies' = replies \cup {<<req[x].pair, q>>},
         UNCHANGED <<now, userVars, code, familyVars, slot, revocation, bearer, admitted>>
  PROVE  IInv'
<1>1. /\ req' \in [Exchange -> Request] /\ req'[x] = IdleRequest
      /\ \A y \in Exchange \ {x} : req'[y] = req[y]
  BY DEF Finish, IInv, TypeOK, Request, IdleRequest
<1>2. IdleRequest.pc = "idle" /\ IdleRequest.entry = NoEntry
  BY DEF IdleRequest
<1>3. Issued' = Issued /\ UNCHANGED row /\ (\A k \in Pair : FamilyOf(k)' = FamilyOf(k))
  BY DatabaseStays DEF familyVars
<1>4. /\ entryToken' \in [Entry -> Pair \cup {NoPair}] /\ entryToken'[e] = q
      /\ \A d \in Entry \ {e} : entryToken'[d] = entryToken[d]
  BY DEF IInv, TypeOK
<1>5. TypeOK'
  BY <1>1, <1>4 DEF IInv, TypeOK, userVars, familyVars
<1>6. Refers'
  <2>1. \A y \in Exchange : RequestRefers(y)'
    BY <1>1, <1>2, <1>3 DEF IInv, Refers, RequestRefers, familyVars, FamilyOf
  <2> QED
    BY <1>3, <2>1 DEF IInv, Refers
<1>7. Exclusive'
  BY <1>1, <1>2, <1>3 DEF IInv, Exclusive, FamilyOf
<1>8. EntryServesOne'
  <2>1. (\A k \in Pair : slot[k] \in Entry \cup {NoEntry})
        /\ \A y \in Exchange : req[y].entry \in Entry \cup {NoEntry}
    BY DEF IInv, TypeOK, Request
  <2>2. e # NoEntry
    BY Nulls
  <2> QED
    BY <1>1, <1>2, <1>3, <1>4, <2>1, <2>2 DEF IInv, EntryServesOne
<1>9. OneReplacement'
  BY <1>3 DEF IInv, OneReplacement
<1> QED
  BY <1>5, <1>6, <1>7, <1>8, <1>9, DatabaseStays DEF IInv

LEMMA RecoverRefreshHolds ==
  ASSUME IInv, NEW x \in Exchange, RecoverRefresh(x)
  PROVE  IInv'
<1> DEFINE e == req[x].entry
           q == entryToken[e]
<1>1. req[x].pair \in Issued /\ req[x].pair \in Pair /\ e \in Entry /\ e # NoEntry
  BY Nulls DEF RecoverRefresh, AtFamilyLock, IInv, Refers, RequestRefers, Issued
<1>2. q \in Issued /\ q \in Pair /\ row[q].parent = req[x].pair
  BY <1>1 DEF RecoverRefresh, Recoverable, IInv, EntryServesOne, Issued
<1>3. entryToken' = [entryToken EXCEPT ![e] = q]
  BY <1>1 DEF RecoverRefresh, cacheVars, IInv, TypeOK
<1>4. /\ Finish(x) /\ replies' = replies \cup {<<req[x].pair, q>>}
      /\ UNCHANGED <<now, userVars, code, familyVars, slot, revocation, bearer, admitted>>
  BY DEF RecoverRefresh, cacheVars
<1> HIDE DEF q
<1> QED
  BY <1>1, <1>2, <1>3, <1>4, ReplyHolds

LEMMA StoreRecoveryHolds ==
  ASSUME IInv, NEW x \in Exchange, StoreRecovery(x)
  PROVE  IInv'
<1>1. /\ req[x].pair \in Pair /\ req[x].entry \in Entry
      /\ req[x].result \in Issued /\ req[x].result \in Pair /\ row[req[x].result].parent = req[x].pair
  BY DEF StoreRecovery, IInv, Refers, RequestRefers, Issued
<1> QED
  BY <1>1, ReplyHolds DEF StoreRecovery

----------------------------------------------------------------------------
(* Revocation. *)

\* RevokeFamily(f) with no rotation of f under way; requests stay or end.
LEMMA RevokeFamilyHolds ==
  ASSUME IInv, NEW f \in Family, origin[f] # NoCode, ~FamilyLocked(f), RevokeFamily(f),
         req' \in [Exchange -> Request],
         \A x \in Exchange : req'[x] = req[x] \/ req'[x] = IdleRequest,
         revocation' \in [Revocation -> Pair \cup {NoPair}],
         \A v \in Revocation : revocation'[v] = revocation[v] \/ revocation'[v] = NoPair,
         UNCHANGED <<now, userVars, code, origin, approved, cacheVars, bearer, replies, admitted>>
  PROVE  IInv'
<1>1. \A k \in Pair :
        /\ row'[k] \in PairRow
        /\ row'[k].family = row[k].family /\ row'[k].parent = row[k].parent
        /\ row'[k].rotated = row[k].rotated /\ row'[k].grants = row[k].grants
        /\ row'[k].accessExpires = row[k].accessExpires
        /\ row'[k].refreshExpires = row[k].refreshExpires
        /\ IF row[k].family = f
             THEN ~row'[k].refreshLive /\ ~row'[k].tokenLive /\ ~row'[k].linkLive
             ELSE row'[k] = row[k]
  <2> TAKE k \in Pair
  <2>1. /\ row[k] \in PairRow
        /\ row'[k] = IF row[k].family = f
             THEN [row[k] EXCEPT !.refreshLive = FALSE, !.tokenLive = FALSE, !.linkLive = FALSE]
             ELSE row[k]
    BY DEF RevokeFamily, IInv, TypeOK
  <2>2. CASE row[k].family = f
    BY <2>1, <2>2 DEF PairRow
  <2>3. CASE row[k].family # f
    BY <2>1, <2>3
  <2> QED
    BY <2>2, <2>3
<1>2. Issued' = Issued /\ (\A k \in Pair : FamilyOf(k)' = FamilyOf(k))
  BY <1>1 DEF Issued, FamilyOf
<1>3. revoked' = revoked \cup {f}
  BY DEF RevokeFamily
<1>4. IdleRequest.pc = "idle" /\ IdleRequest.entry = NoEntry
  BY DEF IdleRequest
<1>5. TypeOK'
  <2>1. row' \in [Pair -> PairRow]
    BY <1>1 DEF RevokeFamily
  <2> QED
    BY <1>3, <2>1 DEF IInv, TypeOK, userVars, cacheVars
<1>6. Opened' /\ CodeOpensOneFamily'
  <2>1. \A k \in Issued : k \in Pair
    BY DEF Issued
  <2>2. \A g \in Family : origin[g] # NoCode =>
          \E k \in Issued' : FamilyOf(k)' = g /\ ~row'[k].rotated
    BY <1>1, <1>2, <2>1 DEF IInv, Opened
  <2> QED
    BY <1>2, <1>3, <2>1, <2>2 DEF IInv, Opened, CodeOpensOneFamily
<1>7. Refers'
  <2>1. ASSUME NEW x \in Exchange PROVE RequestRefers(x)'
    <3>1. CASE req'[x] = IdleRequest
      BY <1>4, <3>1 DEF RequestRefers
    <3>2. CASE req'[x] = req[x]
      <4>1. RequestRefers(x) /\ (req[x].pc = "rotating" => FamilyOf(req[x].pair) # f)
        BY DEF IInv, Refers, FamilyLocked
      <4>2. \A k \in Issued : k \in Pair
        BY DEF Issued
      <4> QED
        BY <1>1, <1>2, <1>3, <3>2, <4>1, <4>2 DEF RequestRefers
    <3> QED
      BY <3>1, <3>2
  <2> QED
    BY <1>2, <2>1 DEF IInv, Refers
<1>8. Exclusive'
  <2>1. \A x \in Exchange : req[x].pc = "rotating" => req[x].pair \in Pair
    BY DEF IInv, Refers, RequestRefers, Issued
  <2> QED
    BY <1>2, <1>4, <2>1 DEF IInv, Exclusive
<1>9. EntryServesOne'
  <2>1. \A e \in Entry : entryToken[e] # NoPair => row'[entryToken[e]].parent = row[entryToken[e]].parent
    BY <1>1 DEF IInv, TypeOK
  <2>2. (\A k \in Pair : slot[k] \in Entry \cup {NoEntry})
        /\ \A x \in Exchange : req[x].entry \in Entry \cup {NoEntry}
    BY DEF IInv, TypeOK, Request
  <2> QED
    BY <1>2, <1>4, <2>1, <2>2 DEF IInv, EntryServesOne, cacheVars
<1>10. OneBranch'
  <2>1. \A k \in Issued : k \in Pair
    BY DEF Issued
  <2>2. \A k \in Pair : row'[k].tokenLive \/ row'[k].linkLive => row[k].tokenLive \/ row[k].linkLive
    BY <1>1
  <2> QED
    BY <1>1, <1>2, <2>1, <2>2 DEF IInv, OneBranch
<1>11. RevokedFamilyIsDead'
  BY <1>1, <1>2, <1>3 DEF IInv, RevokedFamilyIsDead, Issued, FamilyOf
<1>12. WithinConsent'
  BY <1>1, <1>2 DEF IInv, WithinConsent, Issued
<1>13. OneReplacement'
  BY <1>1 DEF IInv, OneReplacement, TypeOK
<1> QED
  BY <1>5, <1>6, <1>7, <1>8, <1>9, <1>10, <1>11, <1>12, <1>13 DEF IInv

\* The family of an issued pair was opened with a code.
LEMMA FamilyOfIssued ==
  ASSUME IInv, NEW p \in Issued
  PROVE  FamilyOf(p) \in Family /\ origin[FamilyOf(p)] # NoCode
  BY DEF IInv, TypeOK, PairRow, Opened, Issued, FamilyOf

LEMMA DetectReuseHolds ==
  ASSUME IInv, NEW x \in Exchange, DetectReuse(x)
  PROVE  IInv'
<1>1. req[x].pair \in Issued
  BY DEF DetectReuse, AtFamilyLock, IInv, Refers, RequestRefers
<1>2. req' \in [Exchange -> Request] /\ \A y \in Exchange : req'[y] = req[y] \/ req'[y] = IdleRequest
  BY DEF DetectReuse, Finish, IInv, TypeOK, Request, IdleRequest
<1>3. FamilyOf(req[x].pair) \in Family /\ origin[FamilyOf(req[x].pair)] # NoCode
  BY <1>1, FamilyOfIssued
<1> QED
  BY <1>2, <1>3, RevokeFamilyHolds DEF DetectReuse, AtFamilyLock, IInv, TypeOK

LEMMA CommitRevocationHolds ==
  ASSUME IInv, NEW v \in Revocation, CommitRevocation(v)
  PROVE  IInv'
<1>1. revocation[v] \in Issued
  BY DEF CommitRevocation, IInv, Refers
<1>2. /\ revocation' \in [Revocation -> Pair \cup {NoPair}]
      /\ \A w \in Revocation : revocation'[w] = revocation[w] \/ revocation'[w] = NoPair
  BY DEF CommitRevocation, IInv, TypeOK
<1>3. FamilyOf(revocation[v]) \in Family /\ origin[FamilyOf(revocation[v])] # NoCode
  BY <1>1, FamilyOfIssued
<1> QED
  BY <1>2, <1>3, RevokeFamilyHolds DEF CommitRevocation, IInv, TypeOK

\* A revocation is asked for, or dropped before it commits.
LEMMA RevocationMoves ==
  ASSUME IInv, NEW v \in Revocation,
         (\E p \in Pair : LoadRevocation(v, p)) \/ AbortRevocation(v)
  PROVE  IInv'
<1>1. PICK p \in Issued \cup {NoPair} :
        /\ revocation' = [revocation EXCEPT ![v] = p]
        /\ UNCHANGED <<now, userVars, code, familyVars, cacheVars, req, bearer, replies, admitted>>
  BY DEF LoadRevocation, AbortRevocation, Held, IInv, Refers
<1>2. p \in Pair \cup {NoPair}
  BY DEF Issued
<1>3. TypeOK'
  BY <1>1, <1>2 DEF IInv, TypeOK, userVars, familyVars, cacheVars
<1>4. \A w \in Revocation : revocation'[w] \in Issued \cup {NoPair}
  BY <1>1 DEF IInv, TypeOK, Refers
<1> QED
  BY <1>1, <1>3, <1>4, OthersMove DEF IInv, Refers

----------------------------------------------------------------------------
(* Bearer authentication and restart. *)

LEMMA BearerHolds ==
  ASSUME IInv, NEW b \in Bearer,
         (\E p \in Pair : ReadToken(b, p)) \/ ReadLink(b) \/ TouchToken(b)
  PROVE  IInv'
<1>1. UNCHANGED <<now, userVars, code, familyVars, cacheVars, req, revocation, replies>>
  BY DEF ReadToken, ReadLink, TouchToken
<1>2. \A r \in replies : r[2] \in Issued /\ r[2] \in Pair
  BY DEF IInv, Refers, Issued
<1>3. PICK s \in Check :
        bearer' = [bearer EXCEPT ![b] = s] /\ (s.pc # "idle" => s.pair \in Issued)
  <2>1. ASSUME NEW p \in Pair, ReadToken(b, p)
        PROVE  /\ [pc |-> "read", pair |-> p] \in Check /\ p \in Issued
               /\ bearer' = [bearer EXCEPT ![b] = [pc |-> "read", pair |-> p]]
    BY <1>2, <2>1 DEF ReadToken, Held, Check
  <2>2. CASE ReadLink(b)
    <3>1. bearer[b] \in Check /\ bearer[b].pair \in Issued
      BY <2>2 DEF ReadLink, IInv, TypeOK, Refers
    <3> DEFINE s == IF LinkIntact(bearer[b].pair) THEN [bearer[b] EXCEPT !.pc = "linked"] ELSE IdleCheck
    <3>2. s \in Check /\ (s.pc # "idle" => s.pair \in Issued)
      BY <3>1 DEF Check, IdleCheck
    <3>3. bearer' = [bearer EXCEPT ![b] = s]
      BY <2>2 DEF ReadLink, IInv, TypeOK
    <3> QED
      BY <3>2, <3>3
  <2>3. CASE TouchToken(b)
    <3>1. IdleCheck \in Check /\ IdleCheck.pc = "idle"
      BY DEF IdleCheck, Check
    <3> QED
      BY <2>3, <3>1 DEF TouchToken
  <2> QED
    BY <2>1, <2>2, <2>3
<1>4. bearer' \in [Bearer -> Check] /\ \A d \in Bearer : bearer'[d] = IF d = b THEN s ELSE bearer[d]
  BY <1>3 DEF IInv, TypeOK
<1>5. admitted' \in [Bearer -> Pair \cup {NoPair}]
  BY DEF ReadToken, ReadLink, TouchToken, IInv, TypeOK, Check
<1>6. TypeOK'
  BY <1>1, <1>4, <1>5 DEF IInv, TypeOK, userVars, familyVars, cacheVars
<1>7. \A d \in Bearer : bearer'[d].pc # "idle" => bearer'[d].pair \in Issued
  BY <1>3, <1>4 DEF IInv, Refers
<1> QED
  BY <1>1, <1>6, <1>7, OthersMove DEF IInv, Refers, TypeOK

LEMMA RestartHolds == IInv /\ Restart => IInv'
<1> SUFFICES ASSUME IInv, Restart PROVE IInv'
  OBVIOUS
<1>1. IdleRequest \in Request /\ IdleRequest.pc = "idle" /\ IdleRequest.entry = NoEntry
  BY DEF IdleRequest, Request
<1>2. IdleCheck \in Check /\ IdleCheck.pc = "idle"
  BY DEF IdleCheck, Check
<1>3. UNCHANGED <<now, userVars, code, familyVars, replies, admitted>>
  BY DEF Restart
<1>4. Issued' = Issued
  BY <1>3, DatabaseStays
<1>5. TypeOK'
  BY <1>1, <1>2 DEF Restart, IInv, TypeOK, userVars, familyVars
<1>6. Refers'
  BY <1>1, <1>2, <1>3, <1>4 DEF Restart, IInv, Refers, RequestRefers
<1>7. Exclusive' /\ EntryServesOne'
  BY <1>1 DEF Restart, Exclusive, EntryServesOne
<1>8. OneReplacement'
  BY <1>3 DEF IInv, OneReplacement, familyVars
<1> QED
  BY <1>3, <1>5, <1>6, <1>7, <1>8, DatabaseStays DEF IInv

----------------------------------------------------------------------------
(* The theorems. *)

\* Each action preserves the inductive invariant.
LEMMA NextHolds == IInv /\ Next => IInv'
<1> SUFFICES ASSUME IInv, Next PROVE IInv'
  OBVIOUS
<1>1. ASSUME NEW x \in Exchange, Redemption(x) PROVE IInv'
  <2>1. CASE RefuseCode(x)
    BY <2>1, FinishHolds DEF RefuseCode
  <2> QED
    BY <1>1, <2>1, LoadCodeHolds, LockCodeHolds, CommitRedemptionHolds DEF Redemption
<1>2. ASSUME NEW x \in Exchange, Rotation(x) PROVE IInv'
  <2>1. CASE RefuseRefresh(x)
    BY <2>1, FinishHolds DEF RefuseRefresh
  <2> QED
    BY <1>2, <2>1, LoadRefreshHolds, LockEntryHolds, RecoverRefreshHolds, DetectReuseHolds,
       BeginRotationHolds, CommitRotationHolds, StoreRecoveryHolds DEF Rotation
<1>3. ASSUME NEW x \in Exchange, AbortExchange(x) PROVE IInv'
  BY <1>3, FinishHolds DEF AbortExchange
<1> QED
  BY <1>1, <1>2, <1>3, TickHolds, AdministrationHolds, CommitRevocationHolds, RevocationMoves,
     BearerHolds, RestartHolds DEF Next

\* A step in which nothing happens.
LEMMA StutterHolds == IInv /\ UNCHANGED vars => IInv'
<1> SUFFICES ASSUME IInv, UNCHANGED vars PROVE IInv'
  OBVIOUS
<1>1. UNCHANGED <<code, familyVars, cacheVars, req, replies>> /\ UNCHANGED <<revocation, bearer>>
  BY DEF vars, handlerVars
<1>2. TypeOK'
  BY DEF IInv, TypeOK, vars, userVars, familyVars, cacheVars, handlerVars
<1> QED
  BY <1>1, <1>2, OthersMove DEF IInv, Refers

\* Every reachable state satisfies the inductive invariant: the handlers of
\* oauth_service.py, oauth_revocation.py and mcp_bearer.py, interleaved in any way.
THEOREM Invariance == Spec => []IInv
<1>1. Init => IInv
  BY InitHolds
<1>2. IInv /\ [Next]_vars => IInv'
  BY NextHolds, StutterHolds
<1> QED
  BY <1>1, <1>2, PTL DEF Spec

\* Every variable keeps its type.
THEOREM TypeCorrect == Spec => []TypeOK
  BY Invariance, PTL DEF IInv

\* Rotation never branches a family, whatever refreshes are presented at once
\* (_exchange_refresh_token_locked under lock_oauth_family).
THEOREM RotationNeverBranches == Spec => []OneBranch
  BY Invariance, PTL DEF IInv

\* No refresh that races a revocation leaves a live token in the revoked family
\* (revoke_oauth_family).
THEOREM RevocationKills == Spec => []RevokedFamilyIsDead
  BY Invariance, PTL DEF IInv

\* However many requests present a code, one family comes of it (exchange_authorization_code).
THEOREM CodeIsSingleUse == Spec => []CodeOpensOneFamily
  BY Invariance, PTL DEF IInv

\* No refresh reaches beyond the tools and the lifetime the user agreed to (_issue_token_pair).
THEOREM ConsentBoundsAccess == Spec => []WithinConsent
  BY Invariance, PTL DEF IInv

\* A retry is only ever answered with the pair its refresh token was rotated into, for any
\* cache size (_refresh_recovery_entry).
THEOREM RetriesAgree == Spec => []OneReplacement
  BY Invariance, PTL DEF IInv

=============================================================================
