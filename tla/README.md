# Verification of forgejo-mcp

forgejo-mcp is a web service that lets an MCP client (an assistant) work in a
Forgejo instance on behalf of a user. It is an OAuth authorization server for
its MCP clients, an OAuth client of Forgejo, an MCP server whose tools call the
Forgejo API, and a Dashboard in which administrators and users decide which
tools a token may call. All of it is one asyncio process over a PostgreSQL
database, so the hard part is what happens between two `await`s: other
requests run, other transactions commit, the request is cancelled, the process
stops.

This directory holds TLA+ models of that behaviour, TLC configurations that
check them on small instances, and proofs, checked by TLAPS, of the properties
that matter most for every value of the constants. Paths below are relative to
`src/src/forgejo_mcp/` unless they start with `docs/` or `tests/`.

    tlc -workers 2 -config OAuthRotation.cfg MCOAuthTokenFamily
    tlapm OAuthTokenFamilyProofs.tla

## 1. The system

Shared state is the database; two pieces of state live in memory: the refresh
recovery cache of `OAuthService` and the counter of `InvocationCoordinator`
(the rate limiters also keep theirs in memory). Sessions run at PostgreSQL's
default READ COMMITTED: each statement has a snapshot of its own, and only
`FOR UPDATE`, upserts and conditional `UPDATE`s order two transactions.

| Component | State | Operations | What is hard | What makes it correct |
|---|---|---|---|---|
| OAuth token families (`application/oauth_service.py`, `oauth_revocation.py`, `api/oauth.py`) | `OAuthAuthorizationCode`, `OAuthTokenFamily`, `OAuthRefreshToken`, `OAuthAccessToken`, `McpToken`; recovery cache | redeem a code, refresh, recover a lost answer, detect replay, revoke | refreshes race each other, retries, revocation and administration; the answer may be lost after the commit; the cache is bounded and lost at restart | one live branch per family, one replacement per refresh token, revocation wins every race, never more than was consented |
| OAuth clients and consent requests (`application/oauth_service.py`) | `OAuthClient`, `OAuthAuthorizationRequest` | register, authorize, show, approve, deny, clean up | expiry against approval, two tabs | a request is answered once |
| MCP bearer authentication (`auth/mcp_bearer.py`) | reads the rows above, writes `last_used_at` | authenticate | several snapshots | admits only the token in force |
| MCP token service (`application/mcp_token_service.py`) | `McpToken` | create, revoke | Dashboard against OAuth rotation | a revoked token stays revoked |
| Tool permissions (`application/tool_permission_service.py`, `authorization/tools.py`) | `ToolSetting`, `UserToolAllowance`, `McpTokenToolGrant` | set, replace, decide | a decision is six reads | a decision rests on one state of the permissions |
| MCP server and tool invocations (`mcp/server.py`, `application/tool_invocation_service.py`) | `ToolInvocation` rows, the calls in flight | gate, admit, decide, record, execute, complete | cancellation and failure at any `await` | nothing happens at Forgejo without a committed row |
| Shutdown coordination (`application/runtime.py`, `main.py`) | `_accepting`, `_active`, a condition | begin, enter, leave, wait | check-then-admit, lost wake-up, time-out | a completed drain is complete, and every drain ends |
| Users and accounts (`application/user_service.py`) | `User`, `Account`, `Session` | create, update, disable, enable, invite | disabling against everything else | a disabled user has no access |
| Forgejo credentials (`application/forgejo_credential_service.py`) | `ForgejoCredential`, at most one active per user | verify, save, revoke, decrypt | verified over the network, saved later | the active credential is of the expected Forgejo user |
| Forgejo account linking (`application/forgejo_oauth_service.py`) | `ForgejoOAuthRequest`, the upstream tokens | start, complete, refresh | network between consuming the flow and saving | a code is presented once, refreshes of a credential are serialized |
| Forgejo OAuth configuration and instance (`application/forgejo_oauth_config_service.py`, `forgejo_instance_service.py`) | one row each | save, resolve | two administrators at once; flows pending while it changes | a credential is used only with the configuration it came from |
| Invitations, login, sessions, bootstrap (`application/invitation_service.py`, `auth_service.py`, `bootstrap_service.py`) | `Invitation`, `Account`, `Session` | invite, accept, log in and out | accept against disable, login against disable | an invitation is used once |
| Rate limiters (`auth/rate_limit.py`, `auth/oauth_rate_limit.py`) | sliding windows in memory | check, reserve, refund | key eviction, concurrent attempts | no key gets more than its limit in a window |
| Forgejo client (`forgejo/client.py`, `forgejo/models.py`) | none of its own; a call's request, its attempts and what was read of the answer | one HTTP request per operation, some of two | retries, answers lost after the effect, pages, bodies that never end or expand | a change is sent once, what is said of it is true, nothing that arrived is cut unflagged |
| Tool registry and dispatch (`tools/registry.py`, `mcp/server.py`, `application/forgejo_tool_service.py`) | fifty constants | name to method to request | one wrong line | a tool does what its entry says |
| Redaction, logging, metrics, ciphers, configuration, frontend | constants and formatting | | | |

How they interact: an MCP client obtains tokens from the token families after
the user consented in the Dashboard; every `/mcp` request passes bearer
authentication, the shutdown gate and the rate limiter; a `tools/call` asks
tool permissions for a decision, commits an invocation row, takes the user's
credential (refreshing the upstream token if needed) and calls Forgejo.
Administration changes users, permissions, credentials and configuration under
all of this, in transactions of its own.

## 2. Modules

| Module | What it is |
|---|---|
| `OAuthTokenFamily` | the token side of the authorization server: codes, families, rotation, recovery cache, revocation, bearer checks |
| `ConsentedAccess` | the abstract promise of the above, with no requests, locks, clock or cache |
| `MCOAuthTokenFamily` | symmetry for TLC; used by the five `OAuth*.cfg` |
| `OAuthTokenFamilyProofs` | type correctness and the safety invariants, proved |
| `OAuthRefinementProofs` | the action properties and the refinement of `ConsentedAccess`, proved |
| `ToolCall` | a tool call from the HTTP gate to its audit row, with administration, cancellation, drain and restart |
| `AuditLedger` | the abstract promise of the invocation audit |
| `MCToolCall` | symmetry for TLC; used by `ToolAudit.cfg` and `ToolDrain.cfg` |
| `ToolCallProofs` | the safety properties of `ToolCall` and the refinement of `AuditLedger`, proved |
| `ForgejoLink` | the upstream side: link flows, saving, refreshing and using the Forgejo credential of one user under administration |
| `MCForgejoLink` | symmetry for TLC; used by `ForgejoLinking.cfg`, `ForgejoRefreshing.cfg` and `ForgejoDisabling.cfg` |
| `ForgejoLinkProofs` | all of its safety properties, proved |
| `ForgejoClient` | one tool call at the HTTP client: arguments, requests, retries, bounded body, reply, next page |
| `SingleWrite` | the abstract promise of the above about changes at Forgejo |
| `ToolCatalogue` | the fifty tools: registry, dispatch, and the requests of each operation of the client |
| `MCForgejoClient` | `ForgejoClient` with that catalogue; used by `ForgejoClient.cfg` |
| `ForgejoClientProofs` | all of its safety properties and the refinement of `SingleWrite`, proved |
| `LoginLimiter` | `LoginRateLimiter` for one key |
| `Accounts` | one Dashboard user: logins, sessions, passwords, invitations, disabling and enabling; uses `LoginLimiter` |
| `MCAccounts` | symmetry for TLC; used by `Accounts.cfg` |
| `AccountsProofs` | what an invitation, a password change and a disabling end stays ended, proved |
| `LoginLimiterProofs` | the limit on guesses and the types of `Accounts`, proved |
| `DataLemmas` | least elements, an induction over the naturals, sequences built or shortened; used by the proofs |

Operators marked `FAULT` are plausible bugs (a dropped lock, a skipped check, a
missing notification). Nothing uses them; each is swapped in for a definition to
see that the property named in `PROJECT.json` notices.

### 2.1 OAuthTokenFamily

State against code. `code` are the rows of `OAuthAuthorizationCode`; `revoked`
the families with `revoked_at`; `row[p]` the three rows `_issue_token_pair`
inserts together (refresh token, MCP token with its grants, link between them);
`slot` and `entryToken` the recovery cache and what its entries hold;
`account`, `allowance`, `enabled` what administration decides; `req`,
`revocation`, `bearer` the requests in flight. `origin`, `approved`, `replies`
and `admitted` are history.

A transaction that holds a row lock across reads is two actions: one takes the
lock and reads, one writes and commits; everything else may happen in between.
So redemption is `LoadCode` (the SDK's `load_authorization_code`, no lock),
`LockCode` or `RefuseCode`, `CommitRedemption`. A refresh is `LoadRefresh` (the
unlocked read, and finding or making a cache entry with its sweep and
eviction), `LockEntry`, then at the family lock exactly one of `BeginRotation`,
`RecoverRefresh`, `DetectReuse`, `RefuseRefresh`, and for a rotation
`CommitRotation` and `StoreRecovery`. `AbortExchange` is a failure or a
cancellation at any `await`, `Restart` loses everything in memory. A bearer
check is `ReadToken`, `ReadLink`, `TouchToken`, the last being the conditional
`UPDATE ... RETURNING` that decides.

Abstractions. One user and one client. Scopes, resource, PKCE, client mismatch
and hashing are left out: they refuse a request before it reads anything the
properties are about. The three reads of a bearer check's link, refresh row and
family are one action: the rows only ever go from live to dead, and the later
`UPDATE` is what admits. The code evicts the least recently used unlocked
entry; the model any unlocked one. Static tokens (no family) are not in this
module. A client presents only pairs whose response it received. Every code has the
`refresh_expires_at` that `resolve_consent` gives it: for a code from before that
column, `exchange_authorization_code` counts from now instead (`oauth_service.py:445`),
and there is no consented lifetime to keep to. `ReplaceTokenGrants`, here and in
`ToolCall`, may find its token revoked by the time it commits: the code looks before
it reads the allowances, and takes no lock.

### 2.2 ToolCall

State against code. `ok` is the set of the six conditions of `authorize_tool`
that hold in the database; `pc`, `step`, `seen` a call and what the reads of
`decision()` found; `audit` its `ToolInvocation.status`; `sent` and `effect` the
Forgejo side; `accepting`, `active`, `shutdown` the coordinator and the
lifespan. `since` is history.

`decision()` begins with `_sync_registry`, an upsert with `DO UPDATE` of every
settings row: it locks those rows until `record_decision` commits, and every
change of settings, allowances and grants starts with the same upsert. So
`SyncRegistry` takes a lock, `Read` makes the six reads one at a time, and
`RecordPending` or `RecordDenied` commits. Users, tokens and credentials are
not behind that lock and change between the reads. `Connect` is
`_connection`, which reads the credential again. `Land` is external: Forgejo
carries out a request any time after it was sent, also when the call has given
up. `Fail` stands for invalid arguments, policy refusals, time-outs and unusable
answers. The blocks under the coordinator's condition contain no `await` but the
lock itself, which is never held across one, so each is one action.

Cancellation is split by what the code does at each place. A call cancelled
while it executes goes to the `except asyncio.CancelledError` branch, whose
shielded commit is itself under a cancelled scope, so it may or may not be
seen through (`CancelSettling`); a commit of `complete_success` that is
cancelled may or may not have happened. The end of the lifespan cancels
whatever a timed-out drain left behind, with the same actions.

Abstractions. One tool and one token, shared by the calls; the passing of
`expires_at` is `RevokeToken` (neither comes back). Tools that make several
requests to Forgejo make one here. Bearer authentication and the rate limiter
in front of `Arrive` are not composed with it. A call of an unknown tool is
recorded as denied in the code and is not modelled. `list_tools` makes the same
decisions, registry sync and locks included, and rolls all of it back: it delays
others and leaves nothing.

### 2.3 ForgejoLink

State against code, for one user. `live`, `user` and `assigned` are the
Dashboard sessions, `User.status` and the normalized Forgejo username;
`instance` and `config` the two settings rows (`config.stored` is FALSE while
`resolve()` still falls back to the environment); `flow` and `cred` the rows of
`ForgejoOAuthRequest` and `ForgejoCredential`; `link` and `use` the requests in
flight with what each has read. `issued` is the Forgejo side of a refresh token;
`redeemed`, `lost` and `delivered` are history.

| Actions | Code |
|---|---|
| `BeginStart`, `CommitStart` | `start`: settings read, earlier attempts deleted, one inserted |
| `BeginCallback`, `LockFlow`, `CommitConsumed`, `ExchangeCode`, `BeginVerify` | `callback_session` and `complete` up to `save` |
| `BeginPat` | `PUT` of a personal access token |
| `Verified`, `LockSettings`, `Store` | `verify` after its request, the recheck under locks, the commit of `save` |
| `ReadInstance`, `ReadPat`, `HoldSettings`, `HoldCredential`, `TakeFresh`, `PresentRefresh`, `RotateUpstream`, `StoreRefreshed`, `SendRequest` | `_connection`, `decrypted_token_for_user`, `access_token`, the tool's request |
| `DisableUser`, `EnableUser`, `UpdateUser`, `Revoke`, `SignOut`, `ConfigureInstance`, `SaveConfig` | administration, each at its commit |
| `AbortLink`, `AbortUse` | every early return, failure and cancellation, and a crash |

Locks follow the code: `FOR UPDATE` on the flow until it is consumed, `FOR
SHARE` on the instance and, if there is one, the configuration row, `FOR UPDATE`
on the credential through the refresh. Writers wait for them; readers do not.
`ExchangeCode` and `RotateUpstream` are Forgejo's and external; it may rotate a
token it rotated before, and its answer may be lost after it did.

Abstractions. A principal is its username: the comparison of numeric user ids
only refuses more. The lookup of the active credential and its replacement are
one action, since the partial unique index turns a race between them into a
Conflict, which is `AbortLink`. What `complete()` reads in separate statements
before the flow is read at once: it is compared with the flow under the lock,
and revisions never return. Session objects keep what they loaded
(`expire_on_commit` is off), so `verify` asks the instance read at the start.
Disabling and renaming look the credential up before they write; here both
happen at the commit, which gives them more to clear than the code has. A
personal access token is not bound to an instance in the code and
`TokenStaysHome` says nothing of it. The configuration is enabled at the start.

### 2.4 ForgejoClient and ToolCatalogue

`ToolCatalogue` is data. It is translated three times over, from three places
that have to agree: the registry's entries (name, risk, shape of the result),
the arms of `_execute_tool` (name to service method, and what is made of its
answer) and the methods of `ForgejoClient` (method, statuses expected, bound on
the body, what becomes of it). `Dispatched`, an ASSUME that TLC evaluates, says
that they fit: every tool is dispatched, to an operation there is, with the
shape its output schema announces. A service method bears the name of the client
method it delegates to. `check_instance` is the one caller that is no tool; the
check of a credential calls `get_current_user` like the first tool does.

`ForgejoClient` runs one caller's operation. `pc`, `step`, `attempt` say where
it is; `status` and `body` what arrived; `sent`, `pending`, `effect` are the
requests that change something, and what Forgejo did with them; `query` and
`reply` the page asked for and the result, with what Forgejo has and what it sent.

| Actions | Code |
|---|---|
| `RefuseArguments`, `AcceptArguments` | `_validate_page` and the other checks before a request |
| `Send`, `FailToConnect`, `LoseConnection`, `FailOtherwise`, `BackOff`, `Wake` | the loop of `_request`: what is retried, and for which methods |
| `ReadChunk`, `RejectBody`, `FinishBody` | `_bounded_response` |
| `Fail` | redirects and statuses that are not expected |
| `Unusable`, `NextRequest`, `Succeed` | the rest of the operation: bound of its own, parsing, a second request, the result |
| `FollowPage` | external: the caller reads the next page while `has_more` says so |
| `Respond`, `Land` | external: Forgejo |

Forgejo may answer anything at any time, and may carry out a request long after
the call gave it up; it answers success only after the effect and 3xx or 4xx only
without it. What it lists does not change while pages are read. It may send less than
it has, and `reply` keeps apart what it has (`listed`), what it sent of that
(`served`) and what the caller got (`returned`):

- On a page it puts no more than a maximum of its own, `ServedMax`, whatever `limit` it is
  sent. A page cut by that maximum is shorter than `limit`, and
  `has_more = len(items) == limit` is then false although there is more
  (`client.py:424`; `list_action_runs` goes by `total_count` and is not affected,
  unless the field is missing).
- The files and reviews of a pull request and the statuses of a commit are
  asked for without page or limit (`client.py:1003`, `:1054`, `:1198`). If
  Forgejo sends its first page, the rest is missing and `truncated` is false, as it is
  `len > 100` of what arrived; the `total_count` of the statuses is passed on
  (`:2492`) but not compared. `ListReplies` lets Forgejo hold back any part.
- A job log is accepted with 206, and a part is then returned like the whole (`:1339`).

So in these three cases a result without a flag need not be all that Forgejo
has. No document of the repository promises that it is, so there is no run
that refutes it; `CutsAreFlagged` says what does hold: what was sent is returned or
flagged, and where the client asks for everything (`AsksForAll`: the pages one after the
other with a limit Forgejo keeps to, one file, the archive of a run) the result is
everything.

Abstractions. Sizes are small numbers, the bounds ordered as in the code. An
argument is right or refused; a body parses or is unusable. 500 stands for every
status without a rule, 502 for 503 and 504. The time before a retry, `Retry-After` and the metrics are left
out. `commit_changes` returns at most 100 of the files of its answer without a flag; a
receipt is not a listing, and `CutsAreFlagged` does not count it.

### 2.5 Accounts and LoginLimiter

State against code, for one user with its account. `user`, `account`, `password`,
`mustChange` are the columns of the two rows; `session` and `invitation` the
rows of each login and invitation; `lock` the row locks; `pc`, `seen`, `with`,
`closing` each request and what it read, or has updated and not committed.
`racing`, `unseen` and `tries` are history.

A request is one transaction at READ COMMITTED, started by reading the user's row and then the
account's (`selectinload` is a second statement). SQLAlchemy writes the columns
that differ from what was read: `Dirty` and `Written` model that, since it decides which
row is locked and whose status survives when two requests overlap.

| Actions | Code |
|---|---|
| `Attempt`, `Verify`, `FailLogin`, `OpenSession`, `ReturnLease` | `login` of `api/auth.py` and of `AuthService`, around `LoginRateLimiter` |
| `EndSession` | logout, revocation of a session, expiry |
| `LoadSession`, `CommitChange` | `get_current_session` and `change_password` |
| `ReadUser`, `ReplaceActive` or `RefuseInvitation`, `CommitInvitation` | `create_invitation` |
| `CloseInvitation` | `revoke_invitation`, expiry |
| `LoadValid`, `ReadUser`, `ReadAccount`, `CommitAcceptance` or `RefuseAcceptance` | `accept` |
| `ReadUser`, `ReadAccount`, `FlushDisabling`, `RevokeAllActive`, `CommitDisabling` | `disable_user` |
| `ReadUser`, `ReadAccount`, `CommitEnabling` | `enable_user` |
| `Abort` | a lost connection, or a deadlock that PostgreSQL breaks: `accept` locks the invitation first and the user next, `disable_user` the other way round |
| `Reserve`, `Charge`, `Refund`, `Tick` | `check`, `failure`, `success`, the clock |

Abstractions. A password is named by the request that set it. The credential and
the tokens that `disable_user` deals with are in `ForgejoLink` and
`OAuthTokenFamily`. `context` only reads. The administrator's own account has no
user. The limiter's cap on keys is left out: a key beyond it is refused. A place
in the limiter expires in the model when it is a window old, as in `_prune_login_events`.

What the model shows and the code's documents do not say: a login that verified
its password before a disabling or a change of the password inserts its session
afterwards. The session of the first is unusable while the user is disabled and usable
once it is enabled; docs/admin-guide.md:155 has "Disabling a user revokes active
local sessions", and :45 "revokes every other active session". `racing` is the
exact extent of the second. An invitation created while a disabling is past
`revoke_all_active` stays active, and an acceptance that read the user before
the disabling committed makes the user active again afterwards: `unseen`. And a second
`disable_user` of a disabled user writes no status, so an enabling between its
read and its commit prevails although both report success.

## 3. Runs

| Run | Instance | Question |
|---|---|---|
| `rotation` | 2 codes, 2 families, 3 pairs, 2 token requests, 1 revocation, cache of 1 entry, clock to 2, grace 1 | do families branch, does revocation win, is a code single use, do retries agree, what ends a family |
| `consent` | 1 code, 2 pairs, 2 tools, every kind of administration, two lifetimes, one of them shorter than that of an access token | does refreshing ever exceed consent |
| `bearer` | 3 pairs, 1 token request, 1 revocation, 1 bearer check, no grace, users disabled and enabled | does a check let a dead token in; does the server implement `ConsentedAccess` |
| `progress` | 2 token requests, 1 revocation, 2 pairs, fairness, no symmetry | does anyone wait forever |
| `narrowing` | as `consent`, grants edited only, short access tokens | the first finding below |
| `audit` | 2 calls; user, credential, setting and grant change; drain and restart | authorization, drain, audit refinement |
| `drain` | 2 calls; token and allowance change; fairness, no symmetry | does a drain always end |
| `linking` | 2 links, 2 flows, 2 credentials, 2 usernames; user, name, configuration and session change | is a code presented once; is a configuration that was superseded ever stored under |
| `refreshing` | 1 link, 2 calls, 1 flow, 2 credentials, 2 rotations; instance moves, credential revoked or replaced | are refreshes serialized; where do tokens go |
| `disabling` | 1 link, 2 usernames | the second finding below |
| `client` | each of the fifty tools and the instance check; 1 retry, bounds 0 to 3, lists of up to 3, limits of 1 to 3 of which Forgejo keeps to 1 and 2, up to 3 pages | is a change ever sent twice or misreported; is anything cut without a flag; does a call end |
| `accounts` | 2 logins, 1 password change, 2 invitations, 2 acceptances, 1 disabling, 1 enabling, two of them under way at once; 2 attempts in a window of 1 tick | what do an invitation, a password change and a disabling leave behind |

Why these bounds. The races of the token family are between two requests for one
pair, or a request and a revocation: two requests and a revocation show each of
them, and a third pair lets a replacement be replaced. A cache of one entry is
full with the first token, so the eviction, the full-and-locked case and the
entry nobody else finds occur at once; a clock of three instants has a moment
before, in and after the grace window. Two families show that a revocation or a
cache entry does not reach across. Two tools are needed for a grant to be a
proper part of an allowance; the other OAuth runs do not look at tools and have
one. Two calls are one that drains and one that arrives late, or one that holds
the settings lock and one that waits; `audit` and `drain` share out the six
conditions because each is read on its own. In `linking` two
callbacks compete for a flow and two saves for the active credential, and calls
are absent because they write nothing a link reads; in `refreshing` one link is
enough to replace a credential while two calls want it, and two rotations are
what it takes to store them in the wrong order. In `client` one retry is an
attempt that may be repeated and one that may not, a bound of 3 is passed by one
chunk, by the sum of two, and by a decoder that gets one byte too many, and lists
of 3 on pages of 1 or 2 end on a full page and on a short one, and a limit of 3 is more
than Forgejo's maximum; an archive has up to one file too many and one byte too many. In `accounts` (`Overlap`) each pair of
transactions is interleaved in every way, in every state a sequence of the
others can lead to. The proofs lift what
they cover to all sizes. The bounds in guards are `MaxNow` (clock) and the finite `Pair`,
`Family`, `Code` and `Entry`; each call of `ToolCall` is made once; `MaxRev`
(saves of the configuration), `MaxGen` (rotations of a credential) and the finite
`Flow` and `Cred` bound `ForgejoLink`; `PageMax` is the code's, `ListedMax` and
`ChunkMax` bound Forgejo in `ForgejoClient`; `Overlap` bounds `Accounts`, where a
request that gives up may be made again.
Symmetry is used in runs without liveness only, on identities nobody compares.

What the properties say:

- `OneBranch`, `OneReplacement`: two refreshes of one token, retries, evictions
  and restarts never produce two live successors, and everyone who gets an answer
  gets the same one.
- `RevokedFamilyIsDead`, `RevocationIsFinal`: a rotation that was under way when
  its family is revoked leaves nothing alive, and nothing is added later.
- `OnlyReplaysRevoke`: a family is revoked by a revocation that is under way, or because a
  rotated token was presented after its grace. A lost answer, an evicted
  entry, a restart or a duplicate that arrives while the first is rotating
  may cost a refusal, never the session.
- `CodeOpensOneFamily`: two redemptions of a code that both passed the unlocked
  check open one family.
- `WithinConsent`: grants come from what the user selected; expiry never exceeds
  the lifetime chosen.
- `AdmitsOnlyCurrent`: at the moment a bearer check admits, the pair is in force,
  although what it read earlier may be stale. Only the token is checked at that
  moment: a user disabled in between is caught by the next request.
- `KeepsPromise`: all of it together is a run of `ConsentedAccess`.
- `EveryExchangeEnds`, `EveryRevocationEnds`: no deadlock between entry lock, code
  lock and family lock, and no starvation by a client that refreshes in a loop.
- `AuthorizedFromTheStart`: for a call that took effect, each condition held at
  some time between its arrival and its decision. This is as much as separate
  snapshots can give, and what docs/security/security-audit-2026-08-31.md:128
  calls start-time authorization.
- `PermissionsHoldTogether`: setting, allowance and grant hold at one time, the
  commit of the decision, thanks to the lock `_sync_registry` takes.
- `NothingAfterDrain`: a drain that reports completion leaves no call under way
  and admits none, although the gate was looked at earlier.
- `FailClosed`: the rows are truthful as `AuditLedger` defines it. Note what it
  allows, because the code does: an effect behind a row that says failed (the
  request landed after the call gave up) and a row that stays pending forever.
- `CodePresentedOnce`: two callbacks of a flow that both passed the unlocked
  check present its code once.
- `StoredUnderCurrentSettings`: at the commit of a link the configuration
  revision and the instance are those its flow was started under, once a
  configuration row exists.
- `RefreshSerialized`: while a refresh waits for Forgejo, the credential cannot be
  revoked, replaced, or refreshed by another call.
- `LatestKept`: the refresh token kept is behind Forgejo's only if an answer
  failed after Forgejo rotated; no order of calls makes it so.
- `TokenStaysHome`: an OAuth token goes only to the instance that issued it, however
  the instance changes between the reads of a call.
- `DrainEnds`: the wake-up of the waiter is never lost.
- `WritesOnce`: a call is a run of `SingleWrite`: at most one request that changes
  something, never sent again; success is reported only after its effect, invalid
  or not found only if there is and will be none.
  docs/tools/v1-tool-catalog.md:107 promises that writes are not retried.
- `ReadToolsOnlyRead`: from the registry through two dispatches to the requests, a
  tool that `list_tools` advertises with `readOnlyHint` changes nothing.
- `CutsAreFlagged`: without `has_more`, `truncated` or `files_truncated`, what Forgejo sent
  was returned, and of what the client asks for whole (2.4) nothing is missing: pages
  that end on an exact fit, archives that end on the last byte.
- `BodyBounded`: compressed or not, a body never exceeds its bound by more than a
  byte or a chunk.
- `CallEnds`: a call ends although no time-out applies to an answer that keeps coming.
- `InvitationsFinal`: an invitation that is used, replaced, revoked or disabled with its
  user is never used (again), with all of these under way at once.
- `BackOnlyByEnabling`: a disabled user comes back by `enable_user` alone, but for the
  invitation described above.
- `OldPasswordSessionsEnd`: a session opened with an earlier password is closed, but for the one
  that changed it and logins that had verified it.
- `GuessesWithinLimit`: in a window no more attempts than allowed fail or are under
  way, however logins overlap and refunds come late.

`IInv` in six of the runs is the inductive invariant of section 5; `rotation` and `refreshing`
check the types as a conjunct of it. Each passing property
has a mutant in `PROJECT.json` that breaks it.

## 4. Fairness

`OAuthTokenFamily!FairSpec`: PostgreSQL queues waiters for a row lock and
`asyncio.Lock` is FIFO, so an action that waits for a lock is enabled again and
again and gets its turn: strong fairness. A request that holds what it needs
continues: weak fairness of its commit. `OutOfPairs` makes a request that needs
a pair fail once the instance has none left; it belongs to the bound, not to the
code. Nothing is assumed of clients, administrators, the clock or failures.

`ToolCall!FairSpec`: strong fairness of `SyncRegistry` (row locks again), weak
fairness of a call that can proceed (each request to Forgejo has time-outs, so
`awaiting` always ends) and of the waiter of the drain. The time-out of the
drain, cancellation and restart are not relied on.

`ForgejoClient!FairSpec`: weak fairness of the client, which is one coroutine,
and of its connection, since each wait of it has a time-out (`client.py:179`). Which
answer ends the wait is left open; that a body ends follows from its bound.

## 5. Proofs

All proof modules assume only the ASSUMEs of the models: the null values
are outside their sets and the durations are naturals; the set of calls is finite;
requests of different kinds are different (`Kinds` of `Accounts`).

`OAuthTokenFamilyProofs`: `Invariance == Spec => []IInv`. None of the safety
invariants is inductive alone. `OneBranch` needs to know that a request between
lock and commit still faces an unrotated pair of a live family
(`RequestRefers`) and is alone there (`Exclusive`); `OneReplacement` needs that
an entry serves one refresh token, also when it was evicted and requests still
hold it (`EntryServesOne`); `WithinConsent` needs that the tools a request read
were approved; `RevokedFamilyIsDead` needs that no rotation holds the family
lock. `IInv` is their conjunction, checked by TLC first, and each action has a
lemma; frames (`DatabaseStays`, `OthersMove`, `RequestMoves`) carry the parts an
action cannot touch. From it follow `TypeCorrect`, `RotationNeverBranches`,
`RevocationKills`, `CodeIsSingleUse`, `ConsentBoundsAccess`, `RetriesAgree`.

`OAuthRefinementProofs`: every step is sorted into what it does to the families
(opens, renews, closes or stays); each sort maps to one action of
`ConsentedAccess` or a stutter (`ServerKeepsPromise`). What that promise amounts to is
proved of it alone and holds of the server by the refinement: one pair in force per family
(`OnePairIsInForce`), and none that was replaced or ended returns (`ReplacedPairsNeverReturn`). The same sorting proves
`RevocationStands`; that nothing else revokes a family is `RetriesAreForgiven`; the final conditional update proves `OnlyCurrentIsAdmitted`.

`ToolCallProofs`: `CallInvariance == Spec => []IInv`, with `CountExact` (the
counter is the number of calls inside, which needs facts on cardinalities),
`ReadsHold` (at most one decision holds the settings lock, and what it read of
the permissions holds still) and `RowMatchesStage`. From it `EffectsAuthorized`,
`DrainIsComplete`, `PermissionsStand` and `AuditIsFailClosed`. Through `AuditLedger`
follow `EffectsHaveRows` and `SettledRowsStand`.

`ForgejoClientProofs`: `ClientImplementsSingleWrite == Spec => WritesOnce`, for any
catalogue that keeps `Plans`: an operation that changes something makes one
request and expects a 2xx. `RequestMatchesStage` says what has been sent and
what became of it at each stage; a change is never in backoff, since it has no
retries. Each action is then a step of `SingleWrite` or a stutter. From that alone follow
`CallsAreOnceAndTrue` and `ChangesAreNotRepeated`, which speak of the time after the call too.

`ClientInvariance == Spec => []IInv` adds `ClientInv`, for any bounds, lists, chunks,
pages and archives. `CutsAreAlwaysFlagged` is not inductive: that the last page
brings the rest needs `PagesCounted`, by which the pages before it were full ones, and
so nothing of the listing lies between what was returned and the page asked for. A list is cut
at its hundredth record or not at all (`RepliesRight`); for an archive, `UnpackRight` goes through the
running sum of the sizes, which is a recursive function (`SumToIsSum`, by
induction), to the file at which nothing remains: without the flag there is no
file behind it and no byte left. `BodiesBounded` rests on the decoder being asked for one
byte more than is left, and on the next chunk being read only within the bound (`RoomLeft`).
The types of `attempt` and `query` need `RoomLeft` too.

`ReadToolsOnlyReadAlways` is about this program's catalogue: it assumes `Plan = PlanOf`
and `Harmless = ReadOnly`, the values the run gives them. The tools advertised as
read-only are found among the eight parts of the registry, their arms among those of
the dispatch, and the requests of these operations have safe methods. That each
tool has an arm and each arm an operation is `Dispatched`, the ASSUME that TLC
evaluates; that a caller without unsafe methods changes nothing is
`RequestMatchesStage`.

`ForgejoLinkProofs`: `LinkInvariance == Spec => []IInv`. `CodePresentedOnce` needs
that whoever is between the lock on a flow and the exchange is alone with it, also
against a new start that deletes the flow, and that a flow whose code was presented
is never pending again (`CodesHeld`). `TokenStaysHome`, `RefreshSerialized` and
`LatestKept` rest on `CallsHold`: a call that holds a credential holds it alone, active and
as read, because every writer of it waits (`ActiveFree`), and one that carries a token
away took its URL where the credential was compared; and on `RowsFresh`: a row that is
inserted was never sent anywhere. `SettingsHeld` keeps what a save compared under shared locks
until it commits; `LinksStoreUnderCurrentSettings` assumes `Stored = TRUE`, for the
reason given under Findings. `LinksStoreUnderLockedSettings` assumes nothing: no link gets
there without an instance row to lock, so the instance is the one of the moment, and
the configuration is the latest if a row of it was locked. The four parts are preserved separately, each with frames
for the actions that cannot touch it.

`AccountsProofs`: `RequestsInvariance == Spec => []RequestsInv`, for any number of requests and
any `Overlap`. `InvitationsHeld`: an acceptance, or an update that closes
invitations, has the rows of the open invitations it is about to write locked. That is
`InvitationsAreFinal`, and `InvitationsAreUsedOnce`: only an acceptance that uses an invitation
open until then succeeds. `DisablingSeen`: when a disabling has looked, every open invitation is
locked by it or was committed since; so whoever accepts with what it read before
the disabling committed has one of the latter (`DisabledUsersStayOut`).
`PasswordsKnown`: a login between the check and the insert has verified the present
password or is in `racing` (`OldSessionsEnd`).

`LoginLimiterProofs`: `AccountInvariance == Spec => []IInv`, which adds the limiter, for any
number of logins, attempts and any window; `AccountTypes` and `GuessesAreLimited` follow. The
limit is about `tries`, a history nobody in the code keeps; `check()` compares the number of `events`.
`TriesCounted` says that the attempts of the window are the events `check()` would keep, in
their order. Each operation has a lemma that it stays so (`CountedAppend`, `CountedOrphaned`,
`CountedWithout`, `CountedOlder`). Two of them need more: pruning from the front until the first
event that is recent enough keeps every recent one only because ages never increase
towards the end, which is a part of `TriesCounted`; and a refund takes the same event from
both, also when it has already expired, only because a login has one event at most
(`LeasesHeld`), which in turn needs that a login that is idle has none.
`Pruned` describes the result of pruning without the minimum that defines it, and there is
one such result (`RecentIsPruned`, `PrunedIsRecent`).

`DataLemmas` has what both need of data. An induction is made there by a least
counterexample (`LeastElement`, from the well-foundedness of the naturals), over a set
instead of an operator (`UpTo`). `MinIsLeast` is what the library's `Min` is.

What is proved of safety is every property the passing runs check. Only model-checked: the liveness
properties (`EveryExchangeEnds`, `EveryRevocationEnds`, `DrainEnds`, `CallEnds`), as
this prover does not reason about fairness and ENABLED; `Dispatched`; and the violations below.

## 6. Findings

`narrowing`: a refresh reads the old token's grants (`oauth_service.py:582`)
without locking them; `replace_token_grants` takes no lock a refresh takes. A
Dashboard edit that commits between that read and the refresh's commit changes
only the old token, which the same commit revokes, and the replacement carries
the grants from before the edit. tests/integration/test_oauth_tool_selection.py:179
says "Dashboard token-grant tightening must also survive rotation" and
docs/security/forgejo-oauth.md:171-172 says refresh can only retain or narrow.
`WithinConsent` still holds: the tool was one the user had chosen before.

`disabling`: `save` looks at the user's status and Forgejo username in `verify`,
before its request to Forgejo (`forgejo_credential_service.py:154`), and not
again. A disable or a rename that commits during that request finds no active
credential to clear; the save then inserts one. docs/security/forgejo-oauth.md:146
says that disabling the user or changing its Forgejo username "clears both local
access and refresh secrets". What remains is unusable while the user is disabled
and is there again when the user is enabled.

Not a run of its own: `resolve(lock=True)` takes a shared lock on the configuration row
(`forgejo_oauth_config_service.py:128`), under the comment "Share read locks
between users; configuration writes remain exclusive." While the configuration
still comes from the environment there is no row, so nothing is locked, and the first
Dashboard save can commit between the recheck of a link and its commit. With `Stored = FALSE`
in `ForgejoLinking.cfg`, `StoredUnderCurrentSettings` shows it.

## 7. What is not modelled

- OAuth client registration and the pending consent request: `Approve` of
  `OAuthTokenFamily` is its outcome. Creation of static MCP tokens.
- Bootstrap of the first administrator, which runs before anything else.
- `MultiScopeRateLimiter` and the caps on keys: each call reads and writes under one
  lock with no `await`, so nothing interleaves in it.
- The composition of bearer authentication and the rate limiter with `ToolCall`; what
  a check admits and what a decision needs are properties of their own modules.
- JSON schemas, the fields of requests and answers, redaction, logging and metrics,
  cryptographic primitives (taken as ideal), validation of settings, migrations, the
  frontend and deployment scripts. They hold no state that changes, or only format it.
- That nobody waits forever for a database row outside the token family and the
  decision: PostgreSQL breaks a deadlock and the request fails, which every model has.
- Disabling leaves OAuth tokens and families in place. They cannot be used while the
  user is disabled, and can again when it is enabled and has linked Forgejo again;
  the documents promise no more.
