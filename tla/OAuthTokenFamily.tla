-------------------------- MODULE OAuthTokenFamily --------------------------
(***************************************************************************)
(* The token side of the MCP OAuth authorization server: authorization     *)
(* codes, token families, refresh rotation with a reuse grace and an       *)
(* in-memory recovery cache, family revocation, and bearer authentication  *)
(* of the access tokens (application/oauth_service.py,                     *)
(* application/oauth_revocation.py, application/mcp_token_service.py,      *)
(* auth/mcp_bearer.py).                                                    *)
(*                                                                         *)
(* One user and one client.  Every PostgreSQL transaction runs at READ     *)
(* COMMITTED; a transaction that holds a row lock across reads is two      *)
(* actions, the first taking the lock and reading, the second writing and  *)
(* committing, so that every other transaction may commit in between.      *)
(* A Pair is what one call of _issue_token_pair inserts: the McpToken row, *)
(* its OAuthAccessToken link and the OAuthRefreshToken row.                *)
(***************************************************************************)
EXTENDS Naturals, FiniteSets

CONSTANTS
  Code,          \* authorization code records
  Family,        \* OAuthTokenFamily ids
  Pair,          \* access and refresh token pairs
  Tool,          \* tool names of the registry
  Entry,         \* _RefreshRecoveryEntry objects
  Exchange,      \* concurrent POST /token requests
  Revocation,    \* concurrent POST /revoke and Dashboard revocations
  Bearer,        \* concurrent bearer authentications of /mcp requests
  NoCode, NoFamily, NoPair, NoEntry,
  CodeTTL,       \* oauth_authorization_code_ttl_seconds
  AccessTTL,     \* oauth_access_token_ttl_seconds
  GrantTTL,      \* oauth_grant_ttl_options_days
  Grace,         \* oauth_refresh_token_reuse_grace_seconds
  CacheMax,      \* _REFRESH_RECOVERY_CACHE_MAX_ENTRIES
  MaxNow,        \* bound on the clock
  Admin          \* the kinds of administration that happen in an instance

ASSUME Nulls ==
  /\ NoCode \notin Code /\ NoFamily \notin Family
  /\ NoPair \notin Pair /\ NoEntry \notin Entry
ASSUME Durations ==
  /\ CodeTTL \in Nat \ {0} /\ AccessTTL \in Nat \ {0} /\ Grace \in Nat
  /\ GrantTTL \subseteq Nat \ {0} /\ MaxNow \in Nat /\ CacheMax \in Nat
ASSUME Administrators == Admin \subseteq {"account", "allowance", "setting", "grant"}

VARIABLES
  now,           \* the clock every handler reads
  account,       \* the user: "ready", "unlinked" (no credential) or "disabled"
  allowance,     \* UserToolAllowance rows
  enabled,       \* ToolSetting rows with enabled = TRUE
  code,          \* OAuthAuthorizationCode rows
  origin,        \* the code each family was opened with (history)
  revoked,       \* families with revoked_at set
  row,           \* the three rows of each pair
  approved,      \* tools the user ever selected for the family (history)
  slot,          \* _refresh_recovery_entries: refresh token -> entry
  entryToken,    \* the pair an entry holds
  req,           \* the /token requests in flight
  revocation,    \* the pair each revocation in flight is about
  bearer,        \* the bearer checks in flight
  replies,       \* <<presented, returned>> of the /token responses (history)
  admitted       \* the pair each bearer check last accepted (history)

userVars    == <<account, allowance, enabled>>
familyVars  == <<origin, revoked, row, approved>>
cacheVars   == <<slot, entryToken>>
handlerVars == <<req, revocation, bearer, replies, admitted>>
vars == <<now, userVars, code, familyVars, cacheVars, handlerVars>>

----------------------------------------------------------------------------
(* Types. *)

CodeRow == [state : {"none", "issued", "consumed"}, tools : SUBSET Tool,
            expires : Nat, until : Nat]

PairRow == [family : Family \cup {NoFamily}, parent : Pair \cup {NoPair},
            refreshLive : BOOLEAN, rotated : BOOLEAN, rotatedAt : Nat,
            tokenLive : BOOLEAN, linkLive : BOOLEAN, grants : SUBSET Tool,
            accessExpires : Nat, refreshExpires : Nat]

Request == [pc : {"idle", "loaded", "redeeming", "waiting", "entered",
                  "rotating", "storing"},
            code : Code \cup {NoCode}, pair : Pair \cup {NoPair},
            entry : Entry \cup {NoEntry}, tools : SUBSET Tool, at : Nat,
            result : Pair \cup {NoPair}]

Check == [pc : {"idle", "read", "linked"}, pair : Pair \cup {NoPair}]

TypeOK ==
  /\ now \in Nat
  /\ account \in {"ready", "unlinked", "disabled"}
  /\ allowance \subseteq Tool /\ enabled \subseteq Tool
  /\ code \in [Code -> CodeRow]
  /\ origin \in [Family -> Code \cup {NoCode}]
  /\ revoked \subseteq Family
  /\ row \in [Pair -> PairRow]
  /\ approved \in [Family -> SUBSET Tool]
  /\ slot \in [Pair -> Entry \cup {NoEntry}]
  /\ entryToken \in [Entry -> Pair \cup {NoPair}]
  /\ req \in [Exchange -> Request]
  /\ revocation \in [Revocation -> Pair \cup {NoPair}]
  /\ bearer \in [Bearer -> Check]
  /\ replies \subseteq (Pair \cup {NoPair}) \X Pair
  /\ admitted \in [Bearer -> Pair \cup {NoPair}]

Unissued == [family |-> NoFamily, parent |-> NoPair, refreshLive |-> FALSE,
             rotated |-> FALSE, rotatedAt |-> 0, tokenLive |-> FALSE,
             linkLive |-> FALSE, grants |-> {}, accessExpires |-> 0,
             refreshExpires |-> 0]

IdleRequest == [pc |-> "idle", code |-> NoCode, pair |-> NoPair,
                entry |-> NoEntry, tools |-> {}, at |-> 0, result |-> NoPair]

IdleCheck == [pc |-> "idle", pair |-> NoPair]

Init ==
  /\ now = 0
  /\ account = "ready"
  /\ allowance = Tool /\ enabled = Tool
  /\ code = [c \in Code |-> [state |-> "none", tools |-> {}, expires |-> 0, until |-> 0]]
  /\ origin = [f \in Family |-> NoCode]
  /\ revoked = {}
  /\ row = [p \in Pair |-> Unissued]
  /\ approved = [f \in Family |-> {}]
  /\ slot = [p \in Pair |-> NoEntry]
  /\ entryToken = [e \in Entry |-> NoPair]
  /\ req = [x \in Exchange |-> IdleRequest]
  /\ revocation = [v \in Revocation |-> NoPair]
  /\ bearer = [b \in Bearer |-> IdleCheck]
  /\ replies = {}
  /\ admitted = [b \in Bearer |-> NoPair]

----------------------------------------------------------------------------
(* What the handlers read. *)

MinOf(a, b) == IF a <= b THEN a ELSE b

Issued == {p \in Pair : row[p].family # NoFamily}
FamilyOf(p) == row[p].family

\* _effective_tool_names: allowances joined with the enabled settings.
Effective == allowance \cap enabled

\* FAULT: with_for_update dropped from the code's SELECT.
CodeNeverLocked(c) == FALSE

\* The code row is locked by the transaction of a redemption under way.
CodeLocked(c) == \E x \in Exchange : req[x].pc = "redeeming" /\ req[x].code = c

\* FAULT: rotations lock only the refresh row, as before migration 20260908_0011.
FamilyNeverLocked(f) == FALSE

\* lock_oauth_family: the family row is locked by a rotation under way.
FamilyLocked(f) ==
  \E x \in Exchange : req[x].pc = "rotating" /\ FamilyOf(req[x].pair) = f

\* entry.lock.locked()
EntryLocked(e) ==
  \E x \in Exchange : req[x].pc \in {"entered", "rotating", "storing"} /\ req[x].entry = e

Finish(x) == req' = [req EXCEPT ![x] = IdleRequest]

\* The pairs some client holds; a pair whose response was lost is never presented.
Held == {r[2] : r \in replies}

----------------------------------------------------------------------------
(* Administration and the passing of time. *)

Tick ==
  /\ now < MaxNow
  /\ now' = now + 1
  /\ UNCHANGED <<userVars, code, familyVars, cacheVars, handlerVars>>

SetAccount(from, to) ==
  /\ account \in from
  /\ account' = to
  /\ UNCHANGED <<now, allowance, enabled, code, familyVars, cacheVars, handlerVars>>

SaveCredential   == SetAccount({"unlinked"}, "ready")
RevokeCredential == SetAccount({"ready"}, "unlinked")
DisableUser      == SetAccount({"ready", "unlinked"}, "disabled")
EnableUser       == SetAccount({"disabled"}, "unlinked")

\* replace_user_allowances also deletes the grants the new allowance lacks.
ReplaceAllowances(S) ==
  /\ S # allowance
  /\ allowance' = S
  /\ row' = [p \in Pair |-> [row[p] EXCEPT !.grants = @ \cap S]]
  /\ UNCHANGED <<now, account, enabled, code, origin, revoked, approved, cacheVars, handlerVars>>

SetGlobalEnabled(t) ==
  /\ enabled' = IF t \in enabled THEN enabled \ {t} ELSE enabled \cup {t}
  /\ UNCHANGED <<now, account, allowance, code, familyVars, cacheVars, handlerVars>>

\* The user edits the grants of a token of theirs in the Dashboard.  That the token is not
\* revoked is checked earlier and without a lock: it may be by the time of the commit.
ReplaceTokenGrants(p, S) ==
  /\ p \in Issued
  /\ S \subseteq allowance /\ S # row[p].grants
  /\ row' = [row EXCEPT ![p].grants = S]
  /\ approved' = [approved EXCEPT ![FamilyOf(p)] = @ \cup S]
  /\ UNCHANGED <<now, userVars, code, origin, revoked, cacheVars, handlerVars>>

\* resolve_consent, approving: the code carries the tools and lifetime selected.
Approve(c, S, d) ==
  /\ code[c].state = "none"
  /\ account = "ready"
  /\ S # {} /\ S \subseteq Effective
  /\ code' = [code EXCEPT ![c] = [state |-> "issued", tools |-> S,
                                  expires |-> now + CodeTTL, until |-> now + d]]
  /\ UNCHANGED <<now, userVars, familyVars, cacheVars, handlerVars>>

----------------------------------------------------------------------------
(* Issuing. *)

\* The rows _issue_token_pair inserts.
NewPair(f, parent, tools, at, until) ==
  [family |-> f, parent |-> parent, refreshLive |-> TRUE, rotated |-> FALSE,
   rotatedAt |-> 0, tokenLive |-> TRUE, linkLive |-> TRUE, grants |-> tools,
   accessExpires |-> MinOf(at + AccessTTL, until), refreshExpires |-> until]

\* Its checks: _require_authorizable_user, a tool left, and time left.
Issuable(tools, until) ==
  account = "ready" /\ tools \cap Effective # {} /\ now < until

----------------------------------------------------------------------------
(* POST /token, grant_type=authorization_code. *)

\* load_authorization_code reads without a lock; the SDK handler checks the expiry.
LoadCode(x, c) ==
  /\ req[x].pc = "idle"
  /\ code[c].state = "issued" /\ now < code[c].expires
  /\ req' = [req EXCEPT ![x] = [IdleRequest EXCEPT !.pc = "loaded", !.code = c]]
  /\ UNCHANGED <<now, userVars, code, familyVars, cacheVars, revocation, bearer, replies, admitted>>

\* exchange_authorization_code checks again once it holds the row.
Redeemable(c) ==
  /\ code[c].state = "issued" /\ now < code[c].expires
  /\ Issuable(code[c].tools, code[c].until)

LockCode(x) ==
  LET c == req[x].code IN
  /\ req[x].pc = "loaded" /\ ~CodeLocked(c)
  /\ Redeemable(c)
  /\ req' = [req EXCEPT ![x].pc = "redeeming", ![x].at = now,
                        ![x].tools = code[c].tools \cap Effective]
  /\ UNCHANGED <<now, userVars, code, familyVars, cacheVars, revocation, bearer, replies, admitted>>

RefuseCode(x) ==
  LET c == req[x].code IN
  /\ req[x].pc = "loaded" /\ ~CodeLocked(c)
  /\ ~Redeemable(c)
  /\ Finish(x)
  /\ UNCHANGED <<now, userVars, code, familyVars, cacheVars, revocation, bearer, replies, admitted>>

\* Commit: the code is consumed, a family opened and its first pair inserted.  Every code that
\* resolve_consent issues has a refresh_expires_at; one without it, from before there was that
\* column, would last for the configured time from now instead.
CommitRedemption(x, f, q) ==
  LET c == req[x].code IN
  /\ req[x].pc = "redeeming"
  /\ origin[f] = NoCode /\ q \notin Issued
  /\ code' = [code EXCEPT ![c].state = "consumed"]
  /\ origin' = [origin EXCEPT ![f] = c]
  /\ approved' = [approved EXCEPT ![f] = code[c].tools]
  /\ row' = [row EXCEPT ![q] = NewPair(f, NoPair, req[x].tools, req[x].at, code[c].until)]
  /\ replies' = replies \cup {<<NoPair, q>>}
  /\ Finish(x)
  /\ UNCHANGED <<now, userVars, revoked, cacheVars, revocation, bearer, admitted>>

----------------------------------------------------------------------------
(* POST /token, grant_type=refresh_token. *)

\* FAULT: the last moment of the window is taken for a replay.
InGraceButLast(p) == Grace > 0 /\ now < row[p].rotatedAt + Grace

\* Still inside the window in which a duplicate is answered from the cache.
InGrace(p) == Grace > 0 /\ now <= row[p].rotatedAt + Grace

Cached == {p \in Pair : slot[p] # NoEntry}

\* The sweep of _refresh_recovery_entry: entries past expires_at and unlocked.
Expired(p) ==
  /\ entryToken[slot[p]] # NoPair
  /\ row[p].rotatedAt + Grace < now
  /\ ~EntryLocked(slot[p])

\* FAULT: an entry taken over from another refresh token keeps its pair.
TakenOverEntry(e) == entryToken

\* _RefreshRecoveryEntry(): a new entry holds nothing.
NewEntry(e) == [entryToken EXCEPT ![e] = NoPair]

\* An identity for a new entry: the cache keeps no such entry and no request refers to one.
FreeEntry(e, kept) ==
  /\ \A k \in kept : slot[k] # e
  /\ \A x \in Exchange : req[x].entry # e

\* The entries left after the sweep and, for a refresh token that has none in a full cache,
\* after the removal of one unlocked entry.  The code removes the least recently used one.
Kept(p) ==
  LET swept     == {k \in Cached : ~Expired(k)}
      evictable == {k \in swept : ~EntryLocked(slot[k])}
  IN  IF p \in swept \/ Cardinality(swept) < CacheMax \/ evictable = {}
      THEN {swept}
      ELSE {swept \ {k} : k \in evictable}

\* load_refresh_token (no lock; the SDK handler checks the expiry), then the entry.
\* A cache still full gives the request an entry of its own that nobody else finds.
LoadRefresh(x, p) ==
  /\ req[x].pc = "idle"
  /\ p \in Held
  /\ FamilyOf(p) \notin revoked /\ now < row[p].refreshExpires
  /\ \E kept \in Kept(p) : \E e \in Entry :
       /\ IF p \in kept THEN e = slot[p] ELSE FreeEntry(e, kept)
       /\ slot' = [k \in Pair |->
                     IF k \in kept THEN slot[k]
                     ELSE IF k = p /\ Cardinality(kept) < CacheMax THEN e ELSE NoEntry]
       /\ entryToken' = IF p \in kept THEN entryToken ELSE NewEntry(e)
       /\ req' = [req EXCEPT ![x] = [IdleRequest EXCEPT !.pc = "waiting", !.pair = p, !.entry = e]]
  /\ UNCHANGED <<now, userVars, code, familyVars, revocation, bearer, replies, admitted>>

\* async with recovery.lock
LockEntry(x) ==
  /\ req[x].pc = "waiting" /\ ~EntryLocked(req[x].entry)
  /\ req' = [req EXCEPT ![x].pc = "entered"]
  /\ UNCHANGED <<now, userVars, code, familyVars, cacheVars, revocation, bearer, replies, admitted>>

\* FAULT: the checks made by load_refresh_token are not made again under the locks.
UsableWhenLoaded(p) == now < row[p].refreshExpires

\* What _exchange_refresh_token_locked finds once it holds the family and refresh rows.
Usable(p) ==
  /\ FamilyOf(p) \notin revoked
  /\ row[p].refreshLive /\ now < row[p].refreshExpires

\* FAULT: a request for every tool the user may use now.
AllAllowed(p) == allowance

\* selected_tool_names: the grants of the previous token.
Selected(p) == row[p].grants

\* FAULT: rotated_at is not looked at under the lock.
RotatableAgain(p) == Usable(p) /\ Issuable(Selected(p), row[p].refreshExpires)

Rotatable(p) ==
  Usable(p) /\ ~row[p].rotated /\ Issuable(Selected(p), row[p].refreshExpires)

Recoverable(p, e) ==
  /\ Usable(p) /\ row[p].rotated /\ InGrace(p)
  /\ account = "ready" /\ entryToken[e] # NoPair

Replayed(p) == Usable(p) /\ row[p].rotated /\ ~InGrace(p)

\* revoke_oauth_family: the family, its refresh rows, tokens and links.
RevokeFamily(f) ==
  /\ revoked' = revoked \cup {f}
  /\ row' = [p \in Pair |->
       IF row[p].family = f
       THEN [row[p] EXCEPT !.refreshLive = FALSE, !.tokenLive = FALSE, !.linkLive = FALSE]
       ELSE row[p]]

\* FAULT: the inner function takes the entry's lock, which is not reentrant, once more.
AtSecondEntryLock(x) ==
  /\ req[x].pc = "entered" /\ ~FamilyLocked(FamilyOf(req[x].pair))
  /\ ~EntryLocked(req[x].entry)

AtFamilyLock(x) == req[x].pc = "entered" /\ ~FamilyLocked(FamilyOf(req[x].pair))

RefuseRefresh(x) ==
  LET p == req[x].pair IN
  /\ AtFamilyLock(x)
  /\ ~Rotatable(p) /\ ~Recoverable(p, req[x].entry) /\ ~Replayed(p)
  /\ Finish(x)
  /\ UNCHANGED <<now, userVars, code, familyVars, cacheVars, revocation, bearer, replies, admitted>>

RecoverRefresh(x) ==
  LET p == req[x].pair IN
  /\ AtFamilyLock(x)
  /\ Recoverable(p, req[x].entry)
  /\ replies' = replies \cup {<<p, entryToken[req[x].entry]>>}
  /\ Finish(x)
  /\ UNCHANGED <<now, userVars, code, familyVars, cacheVars, revocation, bearer, admitted>>

DetectReuse(x) ==
  LET p == req[x].pair IN
  /\ AtFamilyLock(x)
  /\ Replayed(p)
  /\ RevokeFamily(FamilyOf(p))
  /\ Finish(x)
  /\ UNCHANGED <<now, userVars, code, origin, approved, cacheVars, revocation, bearer, replies, admitted>>

BeginRotation(x) ==
  LET p == req[x].pair IN
  /\ AtFamilyLock(x)
  /\ Rotatable(p)
  /\ req' = [req EXCEPT ![x].pc = "rotating", ![x].at = now,
                        ![x].tools = Selected(p) \cap Effective]
  /\ UNCHANGED <<now, userVars, code, familyVars, cacheVars, revocation, bearer, replies, admitted>>

\* Commit: the old refresh row is rotated, its token revoked, the new pair inserted.
CommitRotation(x, q) ==
  LET p == req[x].pair IN
  /\ req[x].pc = "rotating"
  /\ q \notin Issued
  /\ row' = [row EXCEPT
       ![p].rotated = TRUE, ![p].rotatedAt = req[x].at,
       ![p].tokenLive = FALSE, ![p].linkLive = FALSE,
       ![q] = NewPair(FamilyOf(p), p, req[x].tools, req[x].at, row[p].refreshExpires)]
  /\ req' = [req EXCEPT ![x].pc = "storing", ![x].result = q]
  /\ UNCHANGED <<now, userVars, code, origin, revoked, approved, cacheVars, revocation, bearer,
                 replies, admitted>>

\* recovery.token is assigned only after the commit.
StoreRecovery(x) ==
  /\ req[x].pc = "storing"
  /\ entryToken' = [entryToken EXCEPT ![req[x].entry] = req[x].result]
  /\ replies' = replies \cup {<<req[x].pair, req[x].result>>}
  /\ Finish(x)
  /\ UNCHANGED <<now, userVars, code, familyVars, slot, revocation, bearer, admitted>>

\* A request fails or is cancelled: its transaction rolls back and its locks go.
AbortExchange(x) ==
  /\ req[x].pc # "idle"
  /\ Finish(x)
  /\ UNCHANGED <<now, userVars, code, familyVars, cacheVars, revocation, bearer, replies, admitted>>

----------------------------------------------------------------------------
(* Revocation. *)

\* load_access_token: an access token that still authenticates.
AccessLoadable(p) ==
  /\ row[p].tokenLive /\ now < row[p].accessExpires
  /\ row[p].linkLive /\ row[p].refreshLive /\ FamilyOf(p) \notin revoked

\* load_refresh_token: any refresh token, rotated or not, of a live family.
RefreshLoadable(p) == FamilyOf(p) \notin revoked

\* McpTokenService._revoke refuses only a record that is already revoked.
DashboardRevocable(p) == row[p].tokenLive

\* POST /revoke with either token, or the Dashboard; the reads take no lock.
LoadRevocation(v, p) ==
  /\ revocation[v] = NoPair
  /\ \/ p \in Held /\ (AccessLoadable(p) \/ RefreshLoadable(p))
     \/ p \in Issued /\ DashboardRevocable(p)
  /\ revocation' = [revocation EXCEPT ![v] = p]
  /\ UNCHANGED <<now, userVars, code, familyVars, cacheVars, req, bearer, replies, admitted>>

\* FAULT: the token is checked again under the lock and the revocation left for later.
CommitRevocationOfLive(v) ==
  LET f == FamilyOf(revocation[v]) IN
  /\ revocation[v] # NoPair
  /\ ~FamilyLocked(f) /\ row[revocation[v]].tokenLive
  /\ RevokeFamily(f)
  /\ revocation' = [revocation EXCEPT ![v] = NoPair]
  /\ UNCHANGED <<now, userVars, code, origin, approved, cacheVars, req, bearer, replies, admitted>>

\* revoke_token and _revoke: both go through revoke_oauth_family.
CommitRevocation(v) ==
  LET f == FamilyOf(revocation[v]) IN
  /\ revocation[v] # NoPair
  /\ ~FamilyLocked(f)
  /\ RevokeFamily(f)
  /\ revocation' = [revocation EXCEPT ![v] = NoPair]
  /\ UNCHANGED <<now, userVars, code, origin, approved, cacheVars, req, bearer, replies, admitted>>

AbortRevocation(v) ==
  /\ revocation[v] # NoPair
  /\ revocation' = [revocation EXCEPT ![v] = NoPair]
  /\ UNCHANGED <<now, userVars, code, familyVars, cacheVars, req, bearer, replies, admitted>>

----------------------------------------------------------------------------
(* Bearer authentication of an /mcp request: three reads or writes, each   *)
(* with a snapshot of its own.                                             *)

\* _active on the McpToken row and its user.
ReadToken(b, p) ==
  /\ bearer[b].pc = "idle" /\ p \in Held
  /\ row[p].tokenLive /\ account # "disabled" /\ now < row[p].accessExpires
  /\ bearer' = [bearer EXCEPT ![b] = [pc |-> "read", pair |-> p]]
  /\ admitted' = [admitted EXCEPT ![b] = NoPair]
  /\ UNCHANGED <<now, userVars, code, familyVars, cacheVars, req, revocation, replies>>

\* The OAuthAccessToken, OAuthRefreshToken and OAuthTokenFamily rows.
LinkIntact(p) == row[p].linkLive /\ row[p].refreshLive /\ FamilyOf(p) \notin revoked

ReadLink(b) ==
  /\ bearer[b].pc = "read"
  /\ bearer' = [bearer EXCEPT ![b] =
       IF LinkIntact(bearer[b].pair) THEN [@ EXCEPT !.pc = "linked"] ELSE IdleCheck]
  /\ UNCHANGED <<now, userVars, code, familyVars, cacheVars, req, revocation, replies, admitted>>

\* FAULT: an unconditional flush of last_used_at.
EnabledWhenRead(p) == TRUE

\* UPDATE mcp_tokens ... WHERE enabled AND revoked_at IS NULL RETURNING id.
StillEnabled(p) == row[p].tokenLive

TouchToken(b) ==
  LET p == bearer[b].pair IN
  /\ bearer[b].pc = "linked"
  /\ admitted' = IF StillEnabled(p) THEN [admitted EXCEPT ![b] = p] ELSE admitted
  /\ bearer' = [bearer EXCEPT ![b] = IdleCheck]
  /\ UNCHANGED <<now, userVars, code, familyVars, cacheVars, req, revocation, replies>>

----------------------------------------------------------------------------
\* The process restarts: requests in flight and the recovery cache are lost, the rows stay.
Restart ==
  /\ slot' = [p \in Pair |-> NoEntry]
  /\ entryToken' = [e \in Entry |-> NoPair]
  /\ req' = [x \in Exchange |-> IdleRequest]
  /\ revocation' = [v \in Revocation |-> NoPair]
  /\ bearer' = [b \in Bearer |-> IdleCheck]
  /\ UNCHANGED <<now, userVars, code, familyVars, replies, admitted>>

Administration ==
  \/ /\ "account" \in Admin
     /\ SaveCredential \/ RevokeCredential \/ DisableUser \/ EnableUser
  \/ "allowance" \in Admin /\ \E S \in SUBSET Tool : ReplaceAllowances(S)
  \/ "setting" \in Admin /\ \E t \in Tool : SetGlobalEnabled(t)
  \/ "grant" \in Admin /\ \E p \in Pair, S \in SUBSET Tool : ReplaceTokenGrants(p, S)
  \/ \E c \in Code, S \in SUBSET Tool, d \in GrantTTL : Approve(c, S, d)

Redemption(x) ==
  \/ \E c \in Code : LoadCode(x, c)
  \/ LockCode(x) \/ RefuseCode(x)
  \/ \E f \in Family, q \in Pair : CommitRedemption(x, f, q)

Rotation(x) ==
  \/ \E p \in Pair : LoadRefresh(x, p)
  \/ LockEntry(x)
  \/ RefuseRefresh(x) \/ RecoverRefresh(x) \/ DetectReuse(x) \/ BeginRotation(x)
  \/ \E q \in Pair : CommitRotation(x, q)
  \/ StoreRecovery(x)

Next ==
  \/ Tick
  \/ Administration
  \/ \E x \in Exchange : Redemption(x) \/ Rotation(x) \/ AbortExchange(x)
  \/ \E v \in Revocation :
       (\E p \in Pair : LoadRevocation(v, p)) \/ CommitRevocation(v) \/ AbortRevocation(v)
  \/ \E b \in Bearer : (\E p \in Pair : ReadToken(b, p)) \/ ReadLink(b) \/ TouchToken(b)
  \/ Restart

Spec == Init /\ [][Next]_vars

----------------------------------------------------------------------------
(* Safety. *)

MemberPairs(f) == {p \in Issued : FamilyOf(p) = f}

\* Rotation never branches a family: at most one refresh token of a family is unrotated,
\* and a pair whose access token works is that one.
OneBranch ==
  \A p, q \in Issued : FamilyOf(p) = FamilyOf(q) =>
    /\ ~row[p].rotated /\ ~row[q].rotated => p = q
    /\ row[p].tokenLive \/ row[p].linkLive => ~row[p].rotated

\* Once a family is revoked nothing of it works, a replacement committed by a
\* refresh that raced the revocation included.
RevokedFamilyIsDead ==
  \A p \in Issued : FamilyOf(p) \in revoked =>
    ~row[p].refreshLive /\ ~row[p].tokenLive /\ ~row[p].linkLive

\* An authorization code opens at most one family, however many requests present it.
CodeOpensOneFamily ==
  \A f, g \in Family : origin[f] # NoCode /\ origin[f] = origin[g] => f = g

\* Refreshing never extends the lifetime chosen at consent nor adds a tool the user did not
\* choose, at consent or for that token in the Dashboard.
WithinConsent ==
  \A p \in Issued :
    /\ row[p].grants \subseteq approved[FamilyOf(p)]
    /\ row[p].refreshExpires = code[origin[FamilyOf(p)]].until
    /\ row[p].accessExpires <= row[p].refreshExpires

\* Everyone who presents one refresh token and gets an answer gets the same pair, the one
\* that token was rotated into, through retries, evictions and restarts.
OneReplacement ==
  \A r \in replies : r[1] # NoPair => row[r[2]].parent = r[1]

\* A bearer check that started before a revocation or a rotation and ends after it does
\* not let the token in.
AdmitsOnlyCurrent ==
  [][\A b \in Bearer : admitted'[b] # admitted[b] /\ admitted'[b] # NoPair =>
       FamilyOf(admitted'[b]) \notin revoked /\ ~row[admitted'[b]].rotated]_vars

\* A revoked family stays revoked and gets no further pair.
RevocationIsFinal ==
  [][\A f \in revoked : f \in revoked' /\ MemberPairs(f)' = MemberPairs(f)]_vars

\* A revocation of the family, or a rotated token of it presented after its grace.
Revoking(f) == \E v \in Revocation : revocation[v] # NoPair /\ FamilyOf(revocation[v]) = f

Replaying(f) ==
  \E x \in Exchange :
    /\ req[x].pc = "entered" /\ FamilyOf(req[x].pair) = f /\ row[req[x].pair].rotated
    /\ Grace > 0 => now > row[req[x].pair].rotatedAt + Grace

\* A client whose answer was lost, evicted or is still on its way, and which asks again in
\* time, never loses its session by it: a family is revoked only by a revocation under way
\* or by a rotated token presented after its grace.
OnlyReplaysRevoke ==
  [][\A f \in revoked' \ revoked : Revoking(f) \/ Replaying(f)]_vars

----------------------------------------------------------------------------
(* The inductive invariant: what the handlers rely on between two of their actions, and the *)
(* invariants above.                                                                        *)

\* Every family with pairs was opened with a code, which is consumed; only such a family is
\* ever revoked, and it always has a pair that is not rotated.
Opened ==
  /\ \A p \in Issued : origin[FamilyOf(p)] # NoCode
  /\ \A f \in revoked : origin[f] # NoCode
  /\ \A f \in Family : origin[f] # NoCode => code[origin[f]].state = "consumed"
  /\ \A f \in Family : origin[f] # NoCode => \E p \in Issued : FamilyOf(p) = f /\ ~row[p].rotated

\* What a /token request refers to in each of its stages.
RequestRefers(x) ==
  /\ req[x].pc = "loaded" => req[x].code \in Code
  /\ req[x].pc = "redeeming" =>
       /\ req[x].code \in Code /\ code[req[x].code].state = "issued"
       /\ req[x].tools \subseteq code[req[x].code].tools
  /\ req[x].pc \in {"waiting", "entered", "rotating", "storing"} =>
       req[x].pair \in Issued /\ req[x].entry \in Entry
  /\ req[x].pc = "rotating" =>
       /\ ~row[req[x].pair].rotated /\ FamilyOf(req[x].pair) \notin revoked
       /\ req[x].tools \subseteq approved[FamilyOf(req[x].pair)]
  /\ req[x].pc = "storing" =>
       req[x].result \in Issued /\ row[req[x].result].parent = req[x].pair

\* Nobody refers to a pair that was never inserted.
Refers ==
  /\ \A x \in Exchange : RequestRefers(x)
  /\ \A v \in Revocation : revocation[v] # NoPair => revocation[v] \in Issued
  /\ \A b \in Bearer : bearer[b].pc # "idle" => bearer[b].pair \in Issued
  /\ \A r \in replies : r[2] \in Issued

\* The row locks exclude: one redemption per code and one rotation per family at a time.
Exclusive ==
  \A x, y \in Exchange :
    /\ req[x].pc = "redeeming" /\ req[y].pc = "redeeming" /\ req[x].code = req[y].code => x = y
    /\ req[x].pc = "rotating" /\ req[y].pc = "rotating"
         /\ FamilyOf(req[x].pair) = FamilyOf(req[y].pair) => x = y

\* An entry serves one refresh token, in the cache and in the requests that hold it, and
\* what it holds is that token's replacement.
EntryServesOne ==
  /\ \A e \in Entry : entryToken[e] # NoPair => entryToken[e] \in Issued
  /\ \A p, k \in Pair : slot[p] # NoEntry /\ slot[p] = slot[k] => p = k
  /\ \A p \in Pair, x \in Exchange :
       slot[p] # NoEntry /\ slot[p] = req[x].entry => req[x].pair = p
  /\ \A x, y \in Exchange :
       req[x].entry # NoEntry /\ req[x].entry = req[y].entry => req[x].pair = req[y].pair
  /\ \A p \in Pair :
       slot[p] # NoEntry /\ entryToken[slot[p]] # NoPair => row[entryToken[slot[p]]].parent = p
  /\ \A x \in Exchange :
       req[x].entry # NoEntry /\ entryToken[req[x].entry] # NoPair =>
         row[entryToken[req[x].entry]].parent = req[x].pair

\* Everything above at once; each step of Next preserves it.
IInv ==
  /\ TypeOK /\ Opened /\ Refers /\ Exclusive /\ EntryServesOne
  /\ OneBranch /\ RevokedFamilyIsDead /\ CodeOpensOneFamily /\ WithinConsent /\ OneReplacement

----------------------------------------------------------------------------
(* The promise of ConsentedAccess, kept by the rows of the database. *)

\* The pair in force: the unrotated one of a family that is not revoked.
CurrentPairs(f) == {p \in MemberPairs(f) : f \notin revoked /\ ~row[p].rotated}

Sole(S) == IF S = {} THEN NoPair ELSE CHOOSE p \in S : TRUE

Current == [f \in Family |-> Sole(CurrentPairs(f))]

Promise == INSTANCE ConsentedAccess
             WITH opened <- origin, current <- Current, closed <- revoked, used <- Issued

\* Every run of the server, its races, crashes and retries included, is one ConsentedAccess
\* allows.
KeepsPromise == Promise!Spec

----------------------------------------------------------------------------
(* Liveness.  PostgreSQL grants row locks and asyncio.Lock its waiters in the order they     *)
(* asked, so a request that keeps asking gets its turn (SF); a request that holds what it    *)
(* needs goes on (WF).  Clients, administrators, the clock and failures promise nothing.     *)

\* Pair bounds the instance; once it is used up, a request that needs a new pair fails.
OutOfPairs == Issued = Pair

FairExchange(x) ==
  /\ SF_vars(LockCode(x) \/ RefuseCode(x))
  /\ WF_vars(\E f \in Family, q \in Pair : CommitRedemption(x, f, q))
  /\ SF_vars(LockEntry(x))
  /\ SF_vars(RefuseRefresh(x) \/ RecoverRefresh(x) \/ DetectReuse(x) \/ BeginRotation(x))
  /\ WF_vars(\E q \in Pair : CommitRotation(x, q))
  /\ WF_vars(StoreRecovery(x))
  /\ WF_vars(OutOfPairs /\ req[x].pc \in {"redeeming", "rotating"} /\ AbortExchange(x))

FairSpec ==
  /\ Spec
  /\ \A x \in Exchange : FairExchange(x)
  /\ \A v \in Revocation : SF_vars(CommitRevocation(v))

\* No order of entry lock, family lock and code lock leaves a /token request waiting forever.
EveryExchangeEnds ==
  \A x \in Exchange : req[x].pc # "idle" ~> req[x].pc = "idle"

\* A revocation is not starved by a client that keeps refreshing.
EveryRevocationEnds ==
  \A v \in Revocation : revocation[v] # NoPair ~> revocation[v] = NoPair

\* "Dashboard token-grant tightening must also survive rotation": a pair never holds a tool
\* that the pair it replaces does not hold when it is replaced.
RotationOnlyNarrows ==
  [][\A q \in Issued' \ Issued : row'[q].parent # NoPair =>
       row'[q].grants \subseteq row[row'[q].parent].grants]_vars
=============================================================================
