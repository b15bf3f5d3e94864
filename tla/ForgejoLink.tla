----------------------------- MODULE ForgejoLink -----------------------------
(***************************************************************************)
(* The Forgejo credential of one user: the link flows that obtain one by   *)
(* OAuth, personal access tokens saved in the Dashboard, refreshing the    *)
(* upstream tokens before a tool request, and the administration of the    *)
(* user, the instance and the OAuth configuration at the same time         *)
(* (application/forgejo_oauth_service.py, forgejo_credential_service.py,   *)
(* forgejo_oauth_config_service.py, forgejo_instance_service.py).          *)
(*                                                                         *)
(* Requests to Forgejo separate the actions of a handler, and so do row    *)
(* locks held across reads.  Handlers keep nothing in memory between two   *)
(* requests, so a crash is the abort of all that are under way.            *)
(***************************************************************************)
EXTENDS Naturals, FiniteSets

CONSTANTS
  Session,     \* Dashboard sessions of the user, signed in at the start
  Flow,        \* ForgejoOAuthRequest rows
  Cred,        \* ForgejoCredential rows
  Link,        \* requests that start a flow, complete one or save a PAT
  Use,         \* tool calls that need the credential
  Url,         \* base URLs of the Forgejo instance
  Client,      \* OAuth client ids registered there
  Name,        \* Forgejo usernames, normalized
  None,
  FirstUrl, FirstClient, FirstName,   \* the settings at the start
  Stored,      \* TRUE if the configuration was saved in the Dashboard before
  MaxRev,      \* bound on saves of the configuration
  MaxGen,      \* bound on upstream rotations of one credential
  Admin        \* the kinds of administration that happen in an instance

ASSUME Constants ==
  /\ None \notin Flow \cup Cred \cup Session
  /\ FirstUrl \in Url /\ FirstClient \in Client /\ FirstName \in Name
  /\ Stored \in BOOLEAN /\ MaxRev \in Nat /\ MaxGen \in Nat
  /\ Admin \subseteq {"user", "name", "config", "instance", "credential", "session"}

VARIABLES
  live,        \* sessions not revoked
  user,        \* User.status
  assigned,    \* User.normalized_forgejo_username
  instance,    \* ForgejoInstance.base_url
  config,      \* the configuration resolve() finds; stored when there is a row of it
  flow,        \* ForgejoOAuthRequest rows
  cred,        \* ForgejoCredential rows
  link,        \* the requests that link in flight
  use,         \* the tool calls in flight
  issued,      \* the latest refresh token Forgejo issued for each credential
  redeemed,    \* how often the code of each flow was presented to Forgejo (history)
  lost,        \* credentials of which an upstream rotation was not stored (history)
  delivered    \* <<credential, URL>> of every request that carried a token (history)

settings == <<instance, config>>
rows     == <<live, user, assigned, flow, cred>>
history  == <<redeemed, lost, delivered>>
vars == <<rows, settings, link, use, issued, history>>

----------------------------------------------------------------------------

FlowRow == [state : {"none", "pending", "consumed", "lapsed", "gone"},
            session : Session \cup {None}, url : Url, client : Client, rev : 0..MaxRev]

CredRow == [state : {"none", "active", "revoked"}, kind : {"pat", "oauth"}, owner : Name,
            url : Url, client : Client, gen : 0..MaxGen, fresh : BOOLEAN]

Linking == [pc : {"idle", "starting", "bound", "consuming", "exchanging", "exchanged",
                  "verifying", "verified", "settled"},
            session : Session \cup {None}, flow : Flow \cup {None}, doomed : SUBSET Flow,
            url : Url, client : Client, rev : 0..MaxRev,
            expected : Name, principal : Name, locked : BOOLEAN]

Using == [pc : {"idle", "connected", "waiting", "holding", "refreshing", "answered", "sending"},
          cred : Cred \cup {None}, url : Url, client : Client, gen : 0..MaxGen, locked : BOOLEAN]

TypeOK ==
  /\ live \subseteq Session
  /\ user \in {"active", "disabled"} /\ assigned \in Name
  /\ instance \in Url
  /\ config \in [stored : BOOLEAN, enabled : BOOLEAN, client : Client, rev : 0..MaxRev]
  /\ flow \in [Flow -> FlowRow] /\ cred \in [Cred -> CredRow]
  /\ link \in [Link -> Linking] /\ use \in [Use -> Using]
  /\ issued \in [Cred -> 0..MaxGen]
  /\ redeemed \in [Flow -> Nat] /\ lost \subseteq Cred /\ delivered \subseteq Cred \X Url

IdleLink == [pc |-> "idle", session |-> None, flow |-> None, doomed |-> {}, url |-> FirstUrl,
             client |-> FirstClient, rev |-> 0, expected |-> FirstName,
             principal |-> FirstName, locked |-> FALSE]

IdleUse == [pc |-> "idle", cred |-> None, url |-> FirstUrl, client |-> FirstClient,
            gen |-> 0, locked |-> FALSE]

Init ==
  /\ live = Session /\ user = "active" /\ assigned = FirstName
  /\ instance = FirstUrl
  /\ config = [stored |-> Stored, enabled |-> TRUE, client |-> FirstClient, rev |-> 0]
  /\ flow = [f \in Flow |-> [state |-> "none", session |-> None, url |-> FirstUrl,
                             client |-> FirstClient, rev |-> 0]]
  /\ cred = [c \in Cred |-> [state |-> "none", kind |-> "pat", owner |-> FirstName,
                             url |-> FirstUrl, client |-> FirstClient, gen |-> 0,
                             fresh |-> TRUE]]
  /\ link = [l \in Link |-> IdleLink] /\ use = [u \in Use |-> IdleUse]
  /\ issued = [c \in Cred |-> 0]
  /\ redeemed = [f \in Flow |-> 0] /\ lost = {} /\ delivered = {}

----------------------------------------------------------------------------
(* Locks and lookups. *)

Active == {c \in Cred : cred[c].state = "active"}

\* FOR UPDATE on the flow by complete(), or its deletion by start(), not yet committed.
FlowLocked(f) ==
  \E l \in Link : \/ link[l].pc = "consuming" /\ link[l].flow = f
                  \/ link[l].pc = "starting" /\ f \in link[l].doomed

\* access_token() selects the credential FOR UPDATE and keeps it through the refresh.
CredLocked(c) ==
  \E u \in Use : use[u].pc \in {"holding", "refreshing", "answered"} /\ use[u].cred = c

\* FOR SHARE on the instance by a save that is to commit and by access_token().
InstanceShared ==
  \/ \E l \in Link : link[l].pc = "settled"
  \/ \E u \in Use : use[u].pc \in {"waiting", "holding", "refreshing", "answered"}

\* The same of the configuration, if there was a row of it to lock.
ConfigShared ==
  \/ \E l \in Link : link[l].pc = "settled" /\ link[l].locked
  \/ \E u \in Use : use[u].pc \in {"waiting", "holding", "refreshing", "answered"} /\ use[u].locked

\* FAULT: RecordStatus.DISABLED is written where CredentialStatus.REVOKED belongs.
ActiveDisabled ==
  [c \in Cred |-> IF c \in Active THEN [cred[c] EXCEPT !.state = "disabled"] ELSE cred[c]]

\* _revoke_secret on the active credential, if there is one: its tokens are cleared.
ActiveRevoked ==
  [c \in Cred |-> IF c \in Active
                  THEN [cred[c] EXCEPT !.state = "revoked", !.gen = 0, !.fresh = TRUE]
                  ELSE cred[c]]

\* Writing to the active credential waits until no refresh holds it.
ActiveFree == \A c \in Active : ~CredLocked(c)

EndLink(l) == link' = [link EXCEPT ![l] = IdleLink]
EndUse(u)  == use' = [use EXCEPT ![u] = IdleUse]

----------------------------------------------------------------------------
(* Administration.  disable_user, update_user and revoke look the active   *)
(* credential up before they write; one that is stored in between is left  *)
(* alone, as if it had been stored after them.                             *)

DisableUser ==
  /\ user = "active" /\ ActiveFree
  /\ user' = "disabled" /\ live' = {} /\ cred' = ActiveRevoked
  /\ UNCHANGED <<assigned, flow, settings, link, use, issued, history>>

EnableUser ==
  /\ user = "disabled"
  /\ user' = "active"
  /\ UNCHANGED <<live, assigned, flow, cred, settings, link, use, issued, history>>

\* update_user with another Forgejo username.
UpdateUser(n) ==
  /\ n # assigned /\ ActiveFree
  /\ assigned' = n /\ cred' = ActiveRevoked
  /\ UNCHANGED <<live, user, flow, settings, link, use, issued, history>>

Revoke ==
  /\ Active # {} /\ ActiveFree
  /\ cred' = ActiveRevoked
  /\ UNCHANGED <<live, user, assigned, flow, settings, link, use, issued, history>>

SignOut(s) ==
  /\ s \in live
  /\ live' = live \ {s}
  /\ UNCHANGED <<user, assigned, flow, cred, settings, link, use, issued, history>>

\* ForgejoInstanceService.configure, once the new URL has answered.
ConfigureInstance(w) ==
  /\ w # instance /\ ~InstanceShared
  /\ instance' = w
  /\ UNCHANGED <<rows, config, link, use, issued, history>>

\* ForgejoOAuthConfigService.save: every save has a revision of its own.
SaveConfig(enabled, k) ==
  /\ config.rev < MaxRev /\ ~ConfigShared
  /\ config' = [stored |-> TRUE, enabled |-> enabled, client |-> k, rev |-> config.rev + 1]
  /\ UNCHANGED <<rows, instance, link, use, issued, history>>

Administration ==
  \/ "user" \in Admin /\ (DisableUser \/ EnableUser)
  \/ "name" \in Admin /\ \E n \in Name : UpdateUser(n)
  \/ "credential" \in Admin /\ Revoke
  \/ "session" \in Admin /\ \E s \in Session : SignOut(s)
  \/ "instance" \in Admin /\ \E w \in Url : ConfigureInstance(w)
  \/ "config" \in Admin /\ \E e \in BOOLEAN, k \in Client : SaveConfig(e, k)

----------------------------------------------------------------------------
(* POST /api/me/credential/oauth/start *)

\* require_session
SessionUsable(s) == s \in live /\ user = "active"

\* The settings are read and the session's earlier attempts deleted, with the expired ones.
BeginStart(l, s) ==
  LET doomed == {f \in Flow : \/ flow[f].session = s /\ flow[f].state \in {"pending", "consumed"}
                              \/ flow[f].state = "lapsed"}
  IN
  /\ link[l].pc = "idle" /\ SessionUsable(s) /\ config.enabled
  /\ \A f \in doomed : ~FlowLocked(f)
  /\ link' = [link EXCEPT ![l] = [IdleLink EXCEPT
       !.pc = "starting", !.session = s, !.doomed = doomed,
       !.url = instance, !.client = config.client, !.rev = config.rev]]
  /\ UNCHANGED <<rows, settings, use, issued, history>>

CommitStart(l, f) ==
  /\ link[l].pc = "starting" /\ flow[f].state = "none"
  /\ flow' = [g \in Flow |->
       IF g = f THEN [state |-> "pending", session |-> link[l].session, url |-> link[l].url,
                      client |-> link[l].client, rev |-> link[l].rev]
       ELSE IF g \in link[l].doomed THEN [flow[g] EXCEPT !.state = "gone"]
       ELSE flow[g]]
  /\ EndLink(l)
  /\ UNCHANGED <<live, user, assigned, cred, settings, use, issued, history>>

\* Ten minutes pass.
Lapse(f) ==
  /\ flow[f].state = "pending"
  /\ flow' = [flow EXCEPT ![f].state = "lapsed"]
  /\ UNCHANGED <<live, user, assigned, cred, settings, link, use, issued, history>>

----------------------------------------------------------------------------
(* GET /api/me/credential/oauth/callback *)

\* callback_session, and the session and the settings that complete() reads before the flow.
\* What was read separately is compared with the flow later, and revisions never return.
BeginCallback(l, f) ==
  /\ link[l].pc = "idle"
  /\ flow[f].state = "pending" /\ SessionUsable(flow[f].session) /\ config.enabled
  /\ link' = [link EXCEPT ![l] = [IdleLink EXCEPT
       !.pc = "bound", !.session = flow[f].session, !.flow = f,
       !.url = instance, !.client = config.client, !.rev = config.rev]]
  /\ UNCHANGED <<rows, settings, use, issued, history>>

\* The flow is unused and was started under the settings read.
Bound(l) ==
  LET r == flow[link[l].flow] IN
  /\ r.state = "pending"
  /\ r.url = link[l].url /\ r.client = link[l].client /\ r.rev = link[l].rev

\* FAULT: the flow is selected without FOR UPDATE.
LockFlowUnlocked(l) ==
  /\ link[l].pc = "bound"
  /\ Bound(l)
  /\ link' = [link EXCEPT ![l].pc = "consuming"]
  /\ UNCHANGED <<rows, settings, use, issued, history>>

\* SELECT ... FOR UPDATE by the hash of the state.
LockFlow(l) ==
  /\ link[l].pc = "bound" /\ ~FlowLocked(link[l].flow)
  /\ Bound(l)
  /\ link' = [link EXCEPT ![l].pc = "consuming"]
  /\ UNCHANGED <<rows, settings, use, issued, history>>

\* "Consume once before network IO. Never retry a potentially redeemed code."
CommitConsumed(l) ==
  /\ link[l].pc = "consuming"
  /\ flow' = [flow EXCEPT ![link[l].flow].state = "consumed"]
  /\ link' = [link EXCEPT ![l].pc = "exchanging"]
  /\ UNCHANGED <<live, user, assigned, cred, settings, use, issued, history>>

\* The code goes to Forgejo, which answers with the tokens of whoever approved there.
ExchangeCode(l, n) ==
  /\ link[l].pc = "exchanging"
  /\ redeemed' = [redeemed EXCEPT ![link[l].flow] = @ + 1]
  /\ link' = [link EXCEPT ![l].pc = "exchanged", ![l].principal = n]
  /\ UNCHANGED <<rows, settings, use, issued, lost, delivered>>

\* The session again, the user afresh, and verify() up to its request to Forgejo.
BeginVerify(l) ==
  /\ link[l].pc = "exchanged" /\ SessionUsable(link[l].session)
  /\ link' = [link EXCEPT ![l].pc = "verifying", ![l].expected = assigned]
  /\ UNCHANGED <<rows, settings, use, issued, history>>

\* PUT /api/me/credential with a PAT of the Forgejo user n.
BeginPat(l, s, n) ==
  /\ link[l].pc = "idle" /\ SessionUsable(s)
  /\ link' = [link EXCEPT ![l] = [IdleLink EXCEPT
       !.pc = "verifying", !.session = s, !.url = instance,
       !.expected = assigned, !.principal = n]]
  /\ UNCHANGED <<rows, settings, use, issued, history>>

\* Forgejo names the principal, which must be the one expected when verify() began.
Verified(l) ==
  /\ link[l].pc = "verifying" /\ link[l].principal = link[l].expected
  /\ link' = [link EXCEPT ![l].pc = "verified"]
  /\ UNCHANGED <<rows, settings, use, issued, history>>

\* FAULT: the settings are locked and not compared.
SettledWithoutComparing(l) == config.enabled

\* Nothing changed since the flow was bound.
SettingsUnchanged(l) ==
  /\ config.enabled /\ config.client = link[l].client /\ config.rev = link[l].rev
  /\ instance = link[l].url

\* resolve(lock=True) and FOR SHARE on the instance; no row, no lock.
LockSettings(l) ==
  /\ link[l].pc = "verified" /\ link[l].flow # None
  /\ SettingsUnchanged(l)
  /\ link' = [link EXCEPT ![l].pc = "settled", ![l].locked = config.stored]
  /\ UNCHANGED <<rows, settings, use, issued, history>>

\* The active credential is revoked and the new one inserted, under a unique index.
Store(l, c) ==
  LET oauth == link[l].flow # None IN
  /\ link[l].pc = IF oauth THEN "settled" ELSE "verified"
  /\ cred[c].state = "none" /\ ActiveFree
  /\ cred' = [ActiveRevoked EXCEPT ![c] =
       [state |-> "active", kind |-> IF oauth THEN "oauth" ELSE "pat",
        owner |-> link[l].principal, url |-> link[l].url, client |-> link[l].client,
        gen |-> 0, fresh |-> TRUE]]
  /\ EndLink(l)
  /\ UNCHANGED <<live, user, assigned, flow, settings, use, issued, history>>

\* A check fails, the user denies, Forgejo does not answer, two saves collide on the unique
\* index, or the request is cancelled: the transaction rolls back.
AbortLink(l) ==
  /\ link[l].pc # "idle"
  /\ EndLink(l)
  /\ UNCHANGED <<rows, settings, use, issued, history>>

----------------------------------------------------------------------------
(* A tool call takes the credential: ForgejoToolService._connection,       *)
(* decrypted_token_for_user and access_token.                              *)

ReadInstance(u) ==
  /\ use[u].pc = "idle"
  /\ use' = [use EXCEPT ![u] = [IdleUse EXCEPT !.pc = "connected", !.url = instance]]
  /\ UNCHANGED <<rows, settings, link, issued, history>>

\* A PAT needs nothing else.
ReadPat(u) ==
  /\ use[u].pc = "connected"
  /\ \E c \in Active : cred[c].kind = "pat"
                       /\ use' = [use EXCEPT ![u].pc = "sending", ![u].cred = c]
  /\ UNCHANGED <<rows, settings, link, issued, history>>

\* configuration(lock=True), for an OAuth credential: the instance is read again.
HoldSettings(u) ==
  /\ use[u].pc = "connected"
  /\ \E c \in Active : cred[c].kind = "oauth"
  /\ config.enabled
  /\ use' = [use EXCEPT ![u].pc = "waiting", ![u].url = instance,
                        ![u].client = config.client, ![u].locked = config.stored]
  /\ UNCHANGED <<rows, settings, link, issued, history>>

\* FAULT: the client id alone is compared.
UsableAnywhere(u, c) == cred[c].kind = "oauth" /\ cred[c].client = use[u].client

\* The credential is of the instance and the client that are configured.
UsableHere(u, c) ==
  /\ cred[c].kind = "oauth"
  /\ cred[c].url = use[u].url /\ cred[c].client = use[u].client

\* FAULT: the credential is selected without FOR UPDATE.
HoldCredentialUnlocked(u) ==
  /\ use[u].pc = "waiting" /\ user = "active"
  /\ \E c \in Active :
       /\ UsableHere(u, c)
       /\ use' = [use EXCEPT ![u].pc = "holding", ![u].cred = c, ![u].gen = cred[c].gen]
  /\ UNCHANGED <<rows, settings, link, issued, history>>

\* SELECT ... FOR UPDATE with populate_existing, and the user afresh.
HoldCredential(u) ==
  /\ use[u].pc = "waiting" /\ user = "active"
  /\ \E c \in Active :
       /\ ~CredLocked(c) /\ UsableHere(u, c)
       /\ use' = [use EXCEPT ![u].pc = "holding", ![u].cred = c, ![u].gen = cred[c].gen]
  /\ UNCHANGED <<rows, settings, link, issued, history>>

\* More than 30 seconds left: the commit releases the locks.
TakeFresh(u) ==
  /\ use[u].pc = "holding" /\ cred[use[u].cred].fresh
  /\ use' = [use EXCEPT ![u].pc = "sending"]
  /\ UNCHANGED <<rows, settings, link, issued, history>>

\* The refresh token goes to Forgejo.
PresentRefresh(u) ==
  /\ use[u].pc = "holding" /\ ~cred[use[u].cred].fresh
  /\ use' = [use EXCEPT ![u].pc = "refreshing"]
  /\ delivered' = delivered \cup {<<use[u].cred, use[u].url>>}
  /\ UNCHANGED <<rows, settings, link, issued, redeemed, lost>>

\* Forgejo rotates it; whether its answer arrives is still open.
RotateUpstream(u) ==
  LET c == use[u].cred IN
  /\ use[u].pc = "refreshing" /\ issued[c] < MaxGen
  /\ issued' = [issued EXCEPT ![c] = @ + 1]
  /\ use' = [use EXCEPT ![u].pc = "answered", ![u].gen = issued[c] + 1]
  /\ UNCHANGED <<rows, settings, link, history>>

\* The answer and its principal are good: new tokens are stored and the locks released.
StoreRefreshed(u) ==
  LET c == use[u].cred IN
  /\ use[u].pc = "answered"
  /\ cred' = [cred EXCEPT ![c].gen = use[u].gen, ![c].fresh = TRUE]
  /\ use' = [use EXCEPT ![u].pc = "sending"]
  /\ UNCHANGED <<live, user, assigned, flow, settings, link, issued, history>>

\* The tool's request, with the token and the URL of the same connection.
SendRequest(u) ==
  /\ use[u].pc = "sending"
  /\ delivered' = delivered \cup {<<use[u].cred, use[u].url>>}
  /\ EndUse(u)
  /\ UNCHANGED <<rows, settings, link, issued, redeemed, lost>>

\* A check fails, Forgejo refuses or does not answer, the principal is another, or the call is
\* cancelled; a rotation that took place is not stored.
AbortUse(u) ==
  /\ use[u].pc # "idle"
  /\ lost' = IF use[u].pc = "answered" THEN lost \cup {use[u].cred} ELSE lost
  /\ EndUse(u)
  /\ UNCHANGED <<rows, settings, link, issued, redeemed, delivered>>

\* The access token comes within 30 seconds of its end.
Expire(c) ==
  /\ c \in Active /\ cred[c].kind = "oauth" /\ cred[c].fresh
  /\ cred' = [cred EXCEPT ![c].fresh = FALSE]
  /\ UNCHANGED <<live, user, assigned, flow, settings, link, use, issued, history>>

----------------------------------------------------------------------------

Connecting(l) ==
  \/ \E s \in Session : BeginStart(l, s)
  \/ \E f \in Flow : CommitStart(l, f) \/ BeginCallback(l, f)
  \/ LockFlow(l) \/ CommitConsumed(l)
  \/ \E n \in Name : ExchangeCode(l, n)
  \/ \E s \in Session, n \in Name : BeginPat(l, s, n)
  \/ BeginVerify(l) \/ Verified(l) \/ LockSettings(l)
  \/ \E c \in Cred : Store(l, c)
  \/ AbortLink(l)

Calling(u) ==
  \/ ReadInstance(u) \/ ReadPat(u) \/ HoldSettings(u) \/ HoldCredential(u)
  \/ TakeFresh(u) \/ PresentRefresh(u) \/ RotateUpstream(u) \/ StoreRefreshed(u)
  \/ SendRequest(u) \/ AbortUse(u)

Next ==
  \/ Administration
  \/ \E l \in Link : Connecting(l)
  \/ \E u \in Use : Calling(u)
  \/ \E f \in Flow : Lapse(f)
  \/ \E c \in Cred : Expire(c)

Spec == Init /\ [][Next]_vars

----------------------------------------------------------------------------
(* Properties *)

\* An authorization code goes to Forgejo at most once, however often its callback is opened
\* and whatever becomes of the answer (complete() consumes the flow before the exchange).
CodePresentedOnce == \A f \in Flow : redeemed[f] <= 1

\* Tokens obtained by OAuth go only to the instance they were obtained from, although the
\* instance may be replaced between any two reads of a tool call (access_token() compares
\* the credential with the instance it reads again under the locks, and the request takes its
\* URL from that reading).
TokenStaysHome ==
  \A d \in delivered : cred[d[1]].kind = "oauth" => cred[d[1]].url = d[2]

\* While a refresh waits for Forgejo its credential stays active, keeps the refresh token
\* that was presented, and is in no other call's hands (the row lock of access_token()).
RefreshSerialized ==
  \A u \in Use : use[u].pc \in {"refreshing", "answered"} =>
    LET c == use[u].cred IN
    /\ cred[c].state = "active"
    /\ use[u].pc = "refreshing" => cred[c].gen = use[u].gen
    /\ \A v \in Use \ {u} : use[v].cred = c => use[v].pc = "sending"

\* The refresh token kept for an active credential is the last one Forgejo issued for it,
\* unless a call has yet to store its answer or failed after Forgejo had rotated.
LatestKept ==
  \A c \in Active : cred[c].kind = "oauth" =>
    \/ cred[c].gen = issued[c]
    \/ c \in lost
    \/ \E u \in Use : use[u].pc = "answered" /\ use[u].cred = c

\* A link stores its credential only if the configuration it was bound to is still the latest
\* saved, and the instance still the one it talked to (save() rechecks under locks).
StoredUnderCurrentSettings ==
  [][\A l \in Link : link[l].pc = "settled" /\ cred' # cred /\ link'[l].pc = "idle" =>
        link[l].rev = config.rev /\ link[l].url = instance]_vars

\* An active credential belongs to an active user, under the Forgejo username assigned now
\* (disable_user and update_user revoke it).
ClearedWithUser ==
  \A c \in Active : user = "active" /\ cred[c].owner = assigned

----------------------------------------------------------------------------
(* What the properties rest on, checked with them and proved inductive. *)

Holding == {"holding", "refreshing", "answered"}

\* Whoever is about to present a code is alone with it, and it was not presented before;
\* a code that was presented belongs to a flow that nobody can take up again.
CodesHeld ==
  /\ \A f \in Flow : redeemed[f] > 0 => redeemed[f] = 1 /\ flow[f].state \in {"consumed", "gone"}
  /\ \A l \in Link : link[l].pc \in {"bound", "consuming", "exchanging"} => link[l].flow \in Flow
  /\ \A l \in Link : link[l].pc = "consuming" =>
       flow[link[l].flow].state \in {"pending", "lapsed"}
  /\ \A l \in Link : link[l].pc = "exchanging" =>
       redeemed[link[l].flow] = 0 /\ flow[link[l].flow].state \in {"consumed", "gone"}
  /\ \A l, m \in Link : link[l].pc = "starting" /\ link[m].pc = "consuming" =>
       link[m].flow \notin link[l].doomed
  /\ \A l, m \in Link :
       /\ link[l].pc \in {"consuming", "exchanging"} /\ link[m].pc \in {"consuming", "exchanging"}
       /\ l # m
       => link[l].flow # link[m].flow

\* What was compared under the locks of a save still holds when it commits.
SettingsHeld ==
  /\ Stored => config.stored
  /\ \A l \in Link : link[l].pc = "settled" =>
       /\ link[l].url = instance
       /\ Stored => link[l].locked
       /\ link[l].locked => link[l].rev = config.rev

\* A call that holds a credential holds it alone and as it read it; one that carries a
\* token away goes where the credential is from.
CallsHold ==
  /\ \A u \in Use : use[u].pc \in {"idle", "connected", "waiting"} => use[u].cred = None
  /\ \A u \in Use : use[u].pc \in Holding \cup {"sending"} =>
       /\ use[u].cred \in Cred
       /\ cred[use[u].cred].state # "none"
       /\ cred[use[u].cred].kind = "oauth" => cred[use[u].cred].url = use[u].url
  /\ \A u \in Use : use[u].pc \in Holding => cred[use[u].cred].state = "active"
  /\ \A u \in Use : use[u].pc \in {"holding", "refreshing"} => use[u].gen = cred[use[u].cred].gen
  /\ \A u \in Use : use[u].pc = "answered" => use[u].gen = issued[use[u].cred]
  /\ \A u, v \in Use :
       use[u].pc \in Holding /\ use[v].pc \in Holding /\ u # v => use[u].cred # use[v].cred

\* A row that has not been inserted has no past.
RowsFresh ==
  /\ \A c \in Cred : cred[c].state = "none" => issued[c] = 0
  /\ \A d \in delivered : cred[d[1]].state # "none"

IInv ==
  /\ TypeOK /\ CodesHeld /\ SettingsHeld /\ CallsHold /\ RowsFresh
  /\ TokenStaysHome /\ LatestKept

====
