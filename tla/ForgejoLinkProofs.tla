-------------------------- MODULE ForgejoLinkProofs --------------------------
(***************************************************************************)
(* Proofs about ForgejoLink, for any sets of sessions, flows, credentials, *)
(* requests and calls: the inductive invariant, one part after another,    *)
(* and the properties of the runs that follow from it.                     *)
(***************************************************************************)
EXTENDS ForgejoLink, TLAPS

----------------------------------------------------------------------------
(* What each group of actions leaves alone. *)

LEMMA AdministrationFrame ==
  ASSUME Administration
  PROVE  UNCHANGED <<flow, link, use, issued, history>>
  BY DEF Administration, DisableUser, EnableUser, UpdateUser, Revoke, SignOut,
     ConfigureInstance, SaveConfig, settings, rows, history

LEMMA ConnectingFrame ==
  ASSUME NEW l \in Link, Connecting(l)
  PROVE  UNCHANGED <<live, user, assigned, settings, use, issued, lost, delivered>>
  BY DEF Connecting, BeginStart, CommitStart, BeginCallback, LockFlow, CommitConsumed,
     ExchangeCode, BeginPat, BeginVerify, Verified, LockSettings, Store, AbortLink,
     settings, rows, history

\* Only Store touches a credential.
LEMMA ConnectingLeavesCredentials ==
  ASSUME NEW l \in Link, Connecting(l), \A c \in Cred : ~Store(l, c)
  PROVE  UNCHANGED cred
  BY DEF Connecting, BeginStart, CommitStart, BeginCallback, LockFlow, CommitConsumed,
     ExchangeCode, BeginPat, BeginVerify, Verified, LockSettings, AbortLink, settings, rows

LEMMA CallingFrame ==
  ASSUME NEW u \in Use, Calling(u)
  PROVE  UNCHANGED <<live, user, assigned, flow, settings, link, redeemed>>
  BY DEF Calling, ReadInstance, ReadPat, HoldSettings, HoldCredential, TakeFresh,
     PresentRefresh, RotateUpstream, StoreRefreshed, SendRequest, AbortUse,
     settings, rows, history

LEMMA LapseFrame ==
  ASSUME NEW f \in Flow, Lapse(f)
  PROVE  UNCHANGED <<live, user, assigned, cred, settings, link, use, issued, history>>
  BY DEF Lapse

LEMMA ExpireFrame ==
  ASSUME NEW c \in Cred, Expire(c)
  PROVE  UNCHANGED <<live, user, assigned, flow, settings, link, use, issued, history>>
  BY DEF Expire

----------------------------------------------------------------------------
(* Types. *)

LEMMA RevokedIsCredential ==
  ASSUME TypeOK
  PROVE  ActiveRevoked \in [Cred -> CredRow]
<1>1. ASSUME NEW c \in Cred
      PROVE  [cred[c] EXCEPT !.state = "revoked", !.gen = 0, !.fresh = TRUE] \in CredRow
  <2>1. cred[c] \in CredRow /\ 0 \in 0..MaxGen
    BY Constants DEF TypeOK
  <2> QED
    BY <2>1 DEF CredRow
<1> QED
  BY <1>1 DEF TypeOK, ActiveRevoked

LEMMA AdministrationTypes == ASSUME TypeOK, Administration PROVE TypeOK'
<1> USE DEF settings, rows, history
<1>1. UNCHANGED <<flow, link, use, issued, redeemed, lost, delivered>>
  BY AdministrationFrame
<1>2. live' \subseteq Session /\ user' \in {"active", "disabled"} /\ assigned' \in Name
  BY DEF TypeOK, Administration, DisableUser, EnableUser, UpdateUser, Revoke, SignOut,
     ConfigureInstance, SaveConfig
<1>3. instance' \in Url
  BY DEF TypeOK, Administration, DisableUser, EnableUser, UpdateUser, Revoke, SignOut,
     ConfigureInstance, SaveConfig
<1>4. cred' \in [Cred -> CredRow]
  <2>1. cred' = cred \/ cred' = ActiveRevoked
    BY DEF Administration, DisableUser, EnableUser, UpdateUser, Revoke, SignOut,
       ConfigureInstance, SaveConfig
  <2> QED
    BY <2>1, RevokedIsCredential DEF TypeOK
<1>5. config' \in [stored : BOOLEAN, enabled : BOOLEAN, client : Client, rev : 0..MaxRev]
  <2>1. config' = config \/ \E e \in BOOLEAN, k \in Client : SaveConfig(e, k)
    BY DEF Administration, DisableUser, EnableUser, UpdateUser, Revoke, SignOut,
       ConfigureInstance
  <2>2. ASSUME NEW e \in BOOLEAN, NEW k \in Client, SaveConfig(e, k)
        PROVE  <1>5
    BY <2>2, Constants DEF SaveConfig, TypeOK
  <2> QED
    BY <2>1, <2>2 DEF TypeOK
<1> QED
  BY <1>1, <1>2, <1>3, <1>4, <1>5 DEF TypeOK

\* The idle records, and what a step writes over them.
LEMMA IdleTypes == IdleLink \in Linking /\ IdleUse \in Using
  BY Constants DEF IdleLink, IdleUse, Linking, Using

LEMMA StoreTypes ==
  ASSUME TypeOK, NEW l \in Link, NEW c \in Cred, Store(l, c)
  PROVE  TypeOK'
<1> DEFINE new == [state |-> "active", kind |-> IF link[l].flow # None THEN "oauth" ELSE "pat",
                   owner |-> link[l].principal, url |-> link[l].url, client |-> link[l].client,
                   gen |-> 0, fresh |-> TRUE]
<1>1. new \in CredRow
  BY Constants DEF TypeOK, Linking, CredRow
<1>2. cred' = [ActiveRevoked EXCEPT ![c] = new]
  BY DEF Store
<1> HIDE DEF new
<1>3. cred' \in [Cred -> CredRow]
  BY <1>1, <1>2, RevokedIsCredential
<1>4. link' \in [Link -> Linking]
  BY IdleTypes DEF Store, EndLink, TypeOK
<1> QED
  BY <1>3, <1>4 DEF Store, TypeOK, settings, history

LEMMA ConnectingTypes ==
  ASSUME TypeOK, NEW l \in Link, Connecting(l)
  PROVE  TypeOK'
<1>1. CASE \E c \in Cred : Store(l, c)
  BY <1>1, StoreTypes
<1>2. CASE \A c \in Cred : ~Store(l, c)
  <2>1. UNCHANGED <<live, user, assigned, instance, config, cred, use, issued, lost, delivered>>
    BY <1>2, ConnectingFrame, ConnectingLeavesCredentials DEF settings
  <2>2. link' \in [Link -> Linking]
    <3> DEFINE row == link[l]
    <3>0. /\ row \in Linking /\ link \in [Link -> Linking]
          /\ flow \in [Flow -> FlowRow]
          /\ instance \in Url /\ config.client \in Client /\ config.rev \in 0..MaxRev
          /\ config.stored \in BOOLEAN /\ assigned \in Name
      BY DEF TypeOK
    <3> USE <3>0, IdleTypes
    <3>1. ASSUME NEW s \in Session, BeginStart(l, s) PROVE <2>2
      BY <3>1 DEF BeginStart, Linking
    <3>2. ASSUME NEW f \in Flow, CommitStart(l, f) PROVE <2>2
      BY <3>2 DEF CommitStart, EndLink
    <3>3. ASSUME NEW f \in Flow, BeginCallback(l, f) PROVE <2>2
      BY <3>3 DEF BeginCallback, Linking, FlowRow
    <3>4. CASE LockFlow(l) \/ CommitConsumed(l) \/ BeginVerify(l) \/ Verified(l)
      BY <3>4 DEF LockFlow, CommitConsumed, BeginVerify, Verified, Linking
    <3>5. ASSUME NEW n \in Name, ExchangeCode(l, n) PROVE <2>2
      <4>1. [row EXCEPT !.pc = "exchanged", !.principal = n] \in Linking
        BY DEF Linking
      <4>2. link' = [link EXCEPT ![l] = [row EXCEPT !.pc = "exchanged", !.principal = n]]
        BY <3>5 DEF ExchangeCode
      <4> QED
        BY <4>1, <4>2
    <3>6. ASSUME NEW s \in Session, NEW n \in Name, BeginPat(l, s, n) PROVE <2>2
      BY <3>6 DEF BeginPat, Linking
    <3>7. CASE LockSettings(l)
      <4>1. [row EXCEPT !.pc = "settled", !.locked = config.stored] \in Linking
        BY DEF Linking
      <4>2. link' = [link EXCEPT ![l] = [row EXCEPT !.pc = "settled", !.locked = config.stored]]
        BY <3>7 DEF LockSettings
      <4> QED
        BY <4>1, <4>2
    <3>8. CASE AbortLink(l)
      BY <3>8 DEF AbortLink, EndLink
    <3> QED
      BY <1>2, <3>1, <3>2, <3>3, <3>4, <3>5, <3>6, <3>7, <3>8 DEF Connecting
  <2>3. flow' \in [Flow -> FlowRow]
    <3>1. \/ UNCHANGED flow
          \/ CommitConsumed(l)
          \/ \E f \in Flow : CommitStart(l, f)
      BY <1>2 DEF Connecting, BeginStart, BeginCallback, LockFlow, ExchangeCode, BeginPat,
         BeginVerify, Verified, LockSettings, AbortLink, rows
    <3>2. CASE CommitConsumed(l)
      <4>1. flow \in [Flow -> FlowRow]
        BY DEF TypeOK
      <4> QED
        BY <3>2, <4>1 DEF CommitConsumed, FlowRow
    <3>3. ASSUME NEW f \in Flow, CommitStart(l, f) PROVE <2>3
      <4> DEFINE pending == [state |-> "pending", session |-> link[l].session,
                   url |-> link[l].url, client |-> link[l].client, rev |-> link[l].rev]
                 gone(g) == [flow[g] EXCEPT !.state = "gone"]
      <4>1. link[l] \in Linking /\ \A g \in Flow : flow[g] \in FlowRow
        BY DEF TypeOK
      <4>2. pending \in FlowRow
        BY <4>1 DEF Linking, FlowRow
      <4>3. \A g \in Flow : gone(g) \in FlowRow
        BY <4>1 DEF FlowRow
      <4>4. flow' = [g \in Flow |-> IF g = f THEN pending
                                   ELSE IF g \in link[l].doomed THEN gone(g) ELSE flow[g]]
        BY <3>3 DEF CommitStart
      <4> HIDE DEF pending, gone
      <4> QED
        BY <4>1, <4>2, <4>3, <4>4
    <3> QED
      BY <3>1, <3>2, <3>3 DEF TypeOK
  <2>4. redeemed' \in [Flow -> Nat]
    <3>1. UNCHANGED redeemed \/ \E n \in Name : ExchangeCode(l, n)
      BY <1>2 DEF Connecting, BeginStart, CommitStart, BeginCallback, LockFlow, CommitConsumed,
         BeginPat, BeginVerify, Verified, LockSettings, AbortLink, history
    <3> QED
      BY <3>1 DEF ExchangeCode, TypeOK
  <2> QED
    BY <2>1, <2>2, <2>3, <2>4 DEF TypeOK
<1> QED
  BY <1>1, <1>2

\* What a call does to the credential and its tokens needs the credential it holds.
LEMMA CallingTypes ==
  ASSUME TypeOK, CallsHold, NEW u \in Use, Calling(u)
  PROVE  TypeOK'
<1>1. UNCHANGED <<live, user, assigned, flow, instance, config, link, redeemed>>
  BY CallingFrame DEF settings
<1> DEFINE call == use[u]
<1>0. /\ call \in Using /\ use \in [Use -> Using]
      /\ instance \in Url /\ config.client \in Client /\ config.stored \in BOOLEAN
      /\ cred \in [Cred -> CredRow]
  BY DEF TypeOK
<1> USE IdleTypes
<1>2. CASE ReadInstance(u) \/ HoldSettings(u) \/ TakeFresh(u)
  <2>1. use' \in [Use -> Using]
    <3>1. CASE ReadInstance(u)
      BY <1>0, <3>1 DEF ReadInstance, Using
    <3>2. CASE HoldSettings(u)
      <4>1. use' = [use EXCEPT ![u] = [call EXCEPT !.pc = "waiting", !.url = instance,
                                       !.client = config.client, !.locked = config.stored]]
        BY <3>2 DEF HoldSettings
      <4>2. [call EXCEPT !.pc = "waiting", !.url = instance, !.client = config.client,
                         !.locked = config.stored] \in Using
        BY <1>0 DEF Using
      <4> QED
        BY <1>0, <4>1, <4>2
    <3>3. CASE TakeFresh(u)
      BY <1>0, <3>3 DEF TakeFresh, Using
    <3> QED
      BY <1>2, <3>1, <3>2, <3>3
  <2> QED
    BY <1>1, <1>2, <2>1 DEF ReadInstance, HoldSettings, TakeFresh, TypeOK, rows, history
<1>3. CASE ReadPat(u) \/ HoldCredential(u)
  <2>1. use' \in [Use -> Using]
    <3>1. ASSUME NEW c \in Active,
                 use' = [use EXCEPT ![u].pc = "sending", ![u].cred = c]
          PROVE  <2>1
      BY <1>0, <3>1 DEF Active, Using
    <3>2. ASSUME NEW c \in Active,
                 use' = [use EXCEPT ![u].pc = "holding", ![u].cred = c, ![u].gen = cred[c].gen]
          PROVE  <2>1
      <4>1. c \in Cred /\ cred[c].gen \in 0..MaxGen
        BY <1>0 DEF Active, CredRow
      <4>2. [call EXCEPT !.pc = "holding", !.cred = c, !.gen = cred[c].gen] \in Using
        BY <1>0, <4>1 DEF Using
      <4>3. use' = [use EXCEPT ![u] = [call EXCEPT !.pc = "holding", !.cred = c,
                                                   !.gen = cred[c].gen]]
        BY <3>2
      <4> QED
        BY <1>0, <4>2, <4>3
    <3> QED
      BY <1>3, <3>1, <3>2 DEF ReadPat, HoldCredential
  <2> QED
    BY <1>1, <1>3, <2>1 DEF ReadPat, HoldCredential, TypeOK, rows, history
<1>4. CASE PresentRefresh(u) \/ SendRequest(u) \/ AbortUse(u)
  <2>1. use' \in [Use -> Using]
    BY <1>0, <1>4 DEF PresentRefresh, SendRequest, AbortUse, EndUse, Using
  <2>2. use[u].pc \in Holding \cup {"sending"} => use[u].cred \in Cred
    BY DEF CallsHold
  <2>3. delivered' \subseteq Cred \X Url /\ lost' \subseteq Cred
    BY <1>0, <1>4, <2>2 DEF PresentRefresh, SendRequest, AbortUse, Using, Holding, TypeOK
  <2> QED
    BY <1>1, <1>4, <2>1, <2>3 DEF PresentRefresh, SendRequest, AbortUse, TypeOK, rows
<1>5. CASE RotateUpstream(u)
  <2>1. use[u].cred \in Cred
    BY <1>5 DEF RotateUpstream, CallsHold, Holding
  <2>2. issued[use[u].cred] + 1 \in 0..MaxGen
    BY <1>5, <2>1, Constants DEF RotateUpstream, TypeOK
  <2>3. use' \in [Use -> Using] /\ issued' \in [Cred -> 0..MaxGen]
    BY <1>0, <1>5, <2>1, <2>2 DEF RotateUpstream, Using, TypeOK
  <2> QED
    BY <1>1, <1>5, <2>3 DEF RotateUpstream, TypeOK, rows, history
<1>6. CASE StoreRefreshed(u)
  <2> DEFINE c == use[u].cred
             row == [cred[c] EXCEPT !.gen = call.gen, !.fresh = TRUE]
  <2>1. c \in Cred /\ call.gen \in 0..MaxGen
    BY <1>0, <1>6 DEF StoreRefreshed, CallsHold, Holding, Using
  <2>2. ASSUME NEW r \in CredRow, NEW g \in 0..MaxGen
        PROVE  [r EXCEPT !.gen = g, !.fresh = TRUE] \in CredRow
    BY DEF CredRow
  <2>3. cred' = [cred EXCEPT ![c] = row]
    BY <1>6 DEF StoreRefreshed
  <2>4. cred' \in [Cred -> CredRow]
    BY <1>0, <2>1, <2>2, <2>3
  <2>5. use' \in [Use -> Using]
    BY <1>0, <1>6 DEF StoreRefreshed, Using
  <2> QED
    BY <1>1, <1>6, <2>4, <2>5 DEF StoreRefreshed, TypeOK, history
<1> QED
  BY <1>2, <1>3, <1>4, <1>5, <1>6 DEF Calling

LEMMA Types == ASSUME TypeOK, CallsHold, [Next]_vars PROVE TypeOK'
<1>1. ASSUME NEW f \in Flow, Lapse(f) PROVE TypeOK'
  BY SMTT(30), <1>1 DEF Lapse, TypeOK, FlowRow, settings, history
<1>2. ASSUME NEW c \in Cred, Expire(c) PROVE TypeOK'
  <2>1. [cred[c] EXCEPT !.fresh = FALSE] \in CredRow /\ cred \in [Cred -> CredRow]
    BY DEF TypeOK, CredRow
  <2>2. cred' = [cred EXCEPT ![c] = [cred[c] EXCEPT !.fresh = FALSE]]
    BY <1>2 DEF Expire
  <2>3. cred' \in [Cred -> CredRow]
    BY <2>1, <2>2
  <2> QED
    BY <1>2, <2>3 DEF Expire, TypeOK, settings, history
<1>3. CASE UNCHANGED vars
  BY <1>3 DEF vars, rows, settings, history, TypeOK
<1> QED
  BY <1>1, <1>2, <1>3, AdministrationTypes, ConnectingTypes, CallingTypes DEF Next

----------------------------------------------------------------------------
(* One request moves at a time. *)

LEMMA LaterStages ==
  ASSUME TypeOK, NEW l \in Link,
         \/ BeginVerify(l) \/ Verified(l) \/ LockSettings(l) \/ AbortLink(l)
         \/ \E s \in Session, n \in Name : BeginPat(l, s, n)
         \/ \E c \in Cred : Store(l, c)
  PROVE  /\ \A m \in Link \ {l} : link'[m] = link[m]
         /\ link'[l].pc \in {"verifying", "verified", "settled", "idle"}
         /\ ~LockSettings(l) => link'[l].pc # "settled"
<1>1. link \in [Link -> Linking]
  BY DEF TypeOK
<1>2. CASE BeginVerify(l)
  BY <1>1, <1>2 DEF BeginVerify, Linking
<1>3. CASE Verified(l)
  BY <1>1, <1>3 DEF Verified, Linking
<1>4. CASE LockSettings(l)
  BY <1>1, <1>4 DEF LockSettings, Linking
<1>5. ASSUME NEW s \in Session, NEW n \in Name, BeginPat(l, s, n)
      PROVE  (\A m \in Link \ {l} : link'[m] = link[m]) /\ link'[l].pc = "verifying"
  BY <1>1, <1>5 DEF BeginPat, IdleLink
<1>6. CASE AbortLink(l) \/ \E c \in Cred : Store(l, c)
  <2>1. link' = [link EXCEPT ![l] = IdleLink]
    BY <1>6 DEF AbortLink, Store, EndLink
  <2> QED
    BY <1>1, <2>1 DEF IdleLink
<1> QED
  BY <1>2, <1>3, <1>4, <1>5, <1>6

LEMMA EarlierStages ==
  ASSUME TypeOK, NEW l \in Link,
         \/ LockFlow(l) \/ CommitConsumed(l)
         \/ \E s \in Session : BeginStart(l, s)
         \/ \E f \in Flow : CommitStart(l, f) \/ BeginCallback(l, f)
         \/ \E n \in Name : ExchangeCode(l, n)
  PROVE  /\ \A m \in Link \ {l} : link'[m] = link[m]
         /\ link'[l].pc # "settled"
<1>1. link \in [Link -> Linking]
  BY DEF TypeOK
<1>2. CASE LockFlow(l)
  BY <1>1, <1>2 DEF LockFlow, Linking
<1>3. CASE CommitConsumed(l)
  BY <1>1, <1>3 DEF CommitConsumed, Linking
<1>4. ASSUME NEW s \in Session, BeginStart(l, s)
      PROVE  (\A m \in Link \ {l} : link'[m] = link[m]) /\ link'[l].pc # "settled"
  BY <1>1, <1>4 DEF BeginStart, IdleLink
<1>5. ASSUME NEW f \in Flow, CommitStart(l, f)
      PROVE  (\A m \in Link \ {l} : link'[m] = link[m]) /\ link'[l].pc # "settled"
  BY <1>1, <1>5 DEF CommitStart, EndLink, IdleLink
<1>6. ASSUME NEW f \in Flow, BeginCallback(l, f)
      PROVE  (\A m \in Link \ {l} : link'[m] = link[m]) /\ link'[l].pc # "settled"
  BY <1>1, <1>6 DEF BeginCallback, IdleLink
<1>7. ASSUME NEW n \in Name, ExchangeCode(l, n)
      PROVE  (\A m \in Link \ {l} : link'[m] = link[m]) /\ link'[l].pc # "settled"
  <2>1. link' = [link EXCEPT ![l] = [link[l] EXCEPT !.pc = "exchanged", !.principal = n]]
    BY <1>7 DEF ExchangeCode
  <2>2. link[l] \in Linking
    BY <1>1
  <2>3. [link[l] EXCEPT !.pc = "exchanged", !.principal = n].pc = "exchanged"
    BY <2>2 DEF Linking
  <2> QED
    BY <1>1, <2>1, <2>3
<1> QED
  BY <1>2, <1>3, <1>4, <1>5, <1>6, <1>7

----------------------------------------------------------------------------
(* A code is presented once.  FOR UPDATE on the flow keeps two callbacks,  *)
(* and a callback and a new start, apart until "consumed" is committed.    *)

\* A request that holds no flow afterwards disturbs nobody.
LEMMA CodesKeptByRelease ==
  ASSUME TypeOK, CodesHeld, NEW l \in Link,
         UNCHANGED <<flow, redeemed>>,
         \A m \in Link \ {l} : link'[m] = link[m],
         link'[l].pc \notin {"starting", "bound", "consuming", "exchanging"}
  PROVE  CodesHeld'
  BY DEF CodesHeld

\* start() waits for the callbacks that hold the session's earlier flows.
LEMMA CodesKeptByBeginStart ==
  ASSUME TypeOK, CodesHeld, NEW l \in Link, NEW s \in Session, BeginStart(l, s)
  PROVE  CodesHeld'
<1> DEFINE doomed == {f \in Flow : \/ flow[f].session = s /\ flow[f].state \in {"pending", "consumed"}
                                   \/ flow[f].state = "lapsed"}
<1>1. /\ \A m \in Link \ {l} : link'[m] = link[m]
      /\ link[l].pc = "idle" /\ link'[l].pc = "starting" /\ link'[l].doomed = doomed
      /\ UNCHANGED <<flow, redeemed>>
  BY DEF TypeOK, BeginStart, IdleLink, Linking, rows, history
<1>2. \A f \in doomed, m \in Link : link[m].pc = "consuming" => link[m].flow # f
  BY DEF BeginStart, FlowLocked
<1> HIDE DEF doomed
<1> QED
  BY <1>1, <1>2 DEF CodesHeld

LEMMA CodesKeptByCommitStart ==
  ASSUME TypeOK, CodesHeld, NEW l \in Link, NEW f \in Flow, CommitStart(l, f)
  PROVE  CodesHeld'
<1>1. /\ \A m \in Link \ {l} : link'[m] = link[m]
      /\ link[l].pc = "starting" /\ link'[l].pc = "idle"
      /\ UNCHANGED redeemed
  BY DEF TypeOK, CommitStart, EndLink, IdleLink, history
<1>2. /\ flow[f].state = "none"
      /\ \A g \in Flow \ {f} : \/ flow'[g].state = flow[g].state
                               \/ g \in link[l].doomed /\ flow'[g].state = "gone"
  BY DEF TypeOK, CommitStart, FlowRow
<1>3. redeemed[f] = 0
  BY <1>2 DEF CodesHeld, TypeOK
<1> QED
  BY <1>1, <1>2, <1>3 DEF CodesHeld

LEMMA CodesKeptByLockFlow ==
  ASSUME TypeOK, CodesHeld, NEW l \in Link, LockFlow(l)
  PROVE  CodesHeld'
<1>1. /\ \A m \in Link \ {l} : link'[m] = link[m]
      /\ link[l].pc = "bound" /\ link'[l].pc = "consuming"
      /\ link'[l].flow = link[l].flow /\ link'[l].doomed = link[l].doomed
      /\ UNCHANGED <<flow, redeemed>>
  BY DEF TypeOK, LockFlow, Linking, rows, history
<1>2. /\ flow[link[l].flow].state = "pending"
      /\ \A m \in Link : link[m].pc = "consuming" => link[m].flow # link[l].flow
      /\ \A m \in Link : link[m].pc = "starting" => link[l].flow \notin link[m].doomed
  BY DEF LockFlow, Bound, FlowLocked
<1>3. \A m \in Link : link[m].pc = "exchanging" => link[m].flow # link[l].flow
  BY <1>2 DEF CodesHeld
<1> QED
  BY <1>1, <1>2, <1>3 DEF CodesHeld

\* The commit of "consumed": from here on no request can take the flow up.
LEMMA CodesKeptByCommitConsumed ==
  ASSUME TypeOK, CodesHeld, NEW l \in Link, CommitConsumed(l)
  PROVE  CodesHeld'
<1> DEFINE f == link[l].flow
<1>1. /\ \A m \in Link \ {l} : link'[m] = link[m]
      /\ link[l].pc = "consuming" /\ link'[l].pc = "exchanging" /\ link'[l].flow = f
      /\ UNCHANGED redeemed
  BY DEF TypeOK, CommitConsumed, Linking, history
<1>2. f \in Flow /\ redeemed[f] = 0
  BY <1>1 DEF CodesHeld, TypeOK
<1>3. /\ flow'[f].state = "consumed"
      /\ \A g \in Flow \ {f} : flow'[g].state = flow[g].state
  BY <1>2 DEF TypeOK, CommitConsumed, FlowRow
<1> HIDE DEF f
<1> QED
  BY <1>1, <1>2, <1>3 DEF CodesHeld, f

LEMMA CodesKeptByExchangeCode ==
  ASSUME TypeOK, CodesHeld, NEW l \in Link, NEW n \in Name, ExchangeCode(l, n)
  PROVE  CodesHeld'
<1> DEFINE f == link[l].flow
<1>1. /\ \A m \in Link \ {l} : link'[m] = link[m]
      /\ link[l].pc = "exchanging" /\ link'[l].pc = "exchanged"
      /\ UNCHANGED flow
  BY DEF TypeOK, ExchangeCode, Linking, rows
<1>2. f \in Flow /\ redeemed[f] = 0 /\ flow[f].state \in {"consumed", "gone"}
  BY <1>1 DEF CodesHeld
<1>3. /\ redeemed'[f] = 1
      /\ \A g \in Flow \ {f} : redeemed'[g] = redeemed[g]
  BY <1>2 DEF TypeOK, ExchangeCode
<1>4. \A m \in Link \ {l} : link[m].pc = "exchanging" => link[m].flow # f
  BY <1>1 DEF CodesHeld
<1> HIDE DEF f
<1> QED
  BY <1>1, <1>2, <1>3, <1>4 DEF CodesHeld

LEMMA Codes == ASSUME TypeOK, CodesHeld, [Next]_vars PROVE CodesHeld'
<1>1. CASE UNCHANGED <<flow, link, redeemed>>
  BY <1>1 DEF CodesHeld
<1>2. ASSUME NEW l \in Link, Connecting(l) PROVE CodesHeld'
  <2>1. ASSUME NEW f \in Flow, BeginCallback(l, f) PROVE CodesHeld'
    <3>1. /\ \A m \in Link \ {l} : link'[m] = link[m]
          /\ link'[l].pc = "bound" /\ link'[l].flow = f
          /\ UNCHANGED <<flow, redeemed>>
      BY <2>1 DEF TypeOK, BeginCallback, IdleLink, rows, history
    <3> QED
      BY <3>1 DEF CodesHeld
  <2>2. ASSUME \/ BeginVerify(l) \/ Verified(l) \/ LockSettings(l) \/ AbortLink(l)
               \/ \E s \in Session, n \in Name : BeginPat(l, s, n)
               \/ \E c \in Cred : Store(l, c)
        PROVE  CodesHeld'
    <3>1. UNCHANGED <<flow, redeemed>>
      BY <2>2 DEF BeginVerify, Verified, LockSettings, AbortLink, BeginPat, Store, rows, history
    <3> QED
      BY <2>2, <3>1, LaterStages, CodesKeptByRelease
  <2> QED
    BY <1>2, <2>1, <2>2, CodesKeptByBeginStart, CodesKeptByCommitStart, CodesKeptByLockFlow,
       CodesKeptByCommitConsumed, CodesKeptByExchangeCode DEF Connecting
<1>3. ASSUME NEW f \in Flow, Lapse(f) PROVE CodesHeld'
  <2>1. /\ flow[f].state = "pending" /\ flow'[f].state = "lapsed"
        /\ \A g \in Flow \ {f} : flow'[g] = flow[g]
        /\ UNCHANGED <<link, redeemed>>
    BY <1>3 DEF Lapse, TypeOK, FlowRow, history
  <2> QED
    BY <2>1 DEF CodesHeld
<1>4. CASE Administration \/ (\E u \in Use : Calling(u)) \/ (\E c \in Cred : Expire(c))
  BY <1>1, <1>4, AdministrationFrame, CallingFrame, ExpireFrame DEF history
<1>5. CASE UNCHANGED vars
  BY <1>1, <1>5 DEF vars, rows, history
<1> QED
  BY <1>2, <1>3, <1>4, <1>5 DEF Next

----------------------------------------------------------------------------
(* A save commits under the settings it compared.  FOR SHARE on the        *)
(* instance and on the row of the configuration keeps them still.          *)

LEMMA SettingsKeptByLink ==
  ASSUME TypeOK, SettingsHeld, NEW l \in Link,
         UNCHANGED settings,
         \A m \in Link \ {l} : link'[m] = link[m],
         link'[l].pc # "settled"
  PROVE  SettingsHeld'
  BY DEF SettingsHeld, settings

LEMMA SettingsKeptByLockSettings ==
  ASSUME TypeOK, SettingsHeld, NEW l \in Link, LockSettings(l)
  PROVE  SettingsHeld'
<1>1. link \in [Link -> Linking] /\ UNCHANGED settings
  BY DEF TypeOK, LockSettings
<1>2. \A m \in Link \ {l} : link'[m] = link[m]
  BY <1>1 DEF LockSettings
<1>3. link'[l].url = link[l].url /\ link'[l].rev = link[l].rev /\ link'[l].locked = config.stored
  BY <1>1 DEF LockSettings, Linking
<1>4. link[l].url = instance /\ link[l].rev = config.rev
  BY DEF LockSettings, SettingsUnchanged
<1> QED
  BY <1>1, <1>2, <1>3, <1>4 DEF SettingsHeld, settings

\* A new instance or configuration waits for the saves that hold the old one.
LEMMA SettingsKeptByAdministration ==
  ASSUME TypeOK, SettingsHeld, Administration
  PROVE  SettingsHeld'
<1>1. UNCHANGED link
  BY AdministrationFrame
<1>2. \/ UNCHANGED settings
      \/ \E w \in Url : ConfigureInstance(w)
      \/ \E e \in BOOLEAN, k \in Client : SaveConfig(e, k)
  BY DEF Administration, DisableUser, EnableUser, UpdateUser, Revoke, SignOut
<1>3. CASE UNCHANGED settings
  BY <1>1, <1>3 DEF SettingsHeld, settings
<1>4. ASSUME NEW w \in Url, ConfigureInstance(w) PROVE SettingsHeld'
  BY <1>1, <1>4 DEF ConfigureInstance, InstanceShared, SettingsHeld
<1>5. ASSUME NEW e \in BOOLEAN, NEW k \in Client, SaveConfig(e, k) PROVE SettingsHeld'
  BY <1>1, <1>5 DEF SaveConfig, ConfigShared, SettingsHeld
<1> QED
  BY <1>2, <1>3, <1>4, <1>5

LEMMA Settings == ASSUME TypeOK, SettingsHeld, [Next]_vars PROVE SettingsHeld'
<1>1. CASE UNCHANGED <<link, settings>>
  BY <1>1 DEF SettingsHeld, settings
<1>2. ASSUME NEW l \in Link, Connecting(l) PROVE SettingsHeld'
  <2>1. CASE LockSettings(l)
    BY <2>1, SettingsKeptByLockSettings
  <2>2. ASSUME ~LockSettings(l) PROVE SettingsHeld'
    <3>1. (\A m \in Link \ {l} : link'[m] = link[m]) /\ link'[l].pc # "settled"
      BY <1>2, <2>2, EarlierStages, LaterStages DEF Connecting
    <3> QED
      BY <1>2, <3>1, ConnectingFrame, SettingsKeptByLink
  <2> QED
    BY <2>1, <2>2
<1>3. CASE (\E u \in Use : Calling(u)) \/ (\E f \in Flow : Lapse(f)) \/ (\E c \in Cred : Expire(c))
  BY <1>1, <1>3, CallingFrame, LapseFrame, ExpireFrame
<1>4. CASE UNCHANGED vars
  BY <1>1, <1>4 DEF vars
<1> QED
  BY <1>2, <1>3, <1>4, SettingsKeptByAdministration DEF Next

----------------------------------------------------------------------------
(* A call holds its credential alone.  FOR UPDATE on the credential keeps  *)
(* it still through the request to Forgejo; whoever else writes it waits.  *)

\* What the calls rest on.
CallsInv == CallsHold /\ RowsFresh /\ TokenStaysHome /\ LatestKept

\* When the active credential is free nobody holds a credential at all.
LEMMA NobodyHolds ==
  ASSUME CallsHold, ActiveFree, NEW u \in Use
  PROVE  use[u].pc \notin Holding
  BY DEF CallsHold, ActiveFree, Active, CredLocked, Holding

\* What _revoke_secret changes of a row, and what not.
LEMMA RevokedRow ==
  ASSUME TypeOK, NEW c \in Cred
  PROVE  /\ ActiveRevoked[c].state = IF cred[c].state = "active" THEN "revoked" ELSE cred[c].state
         /\ ActiveRevoked[c].kind = cred[c].kind
         /\ ActiveRevoked[c].url = cred[c].url
<1>1. ASSUME NEW r \in CredRow
      PROVE  LET q == [r EXCEPT !.state = "revoked", !.gen = 0, !.fresh = TRUE]
             IN  q.state = "revoked" /\ q.kind = r.kind /\ q.url = r.url
  BY DEF CredRow
<1>2. cred[c] \in CredRow
  BY DEF TypeOK
<1> QED
  BY <1>1, <1>2 DEF ActiveRevoked, Active

\* _revoke_secret while nobody holds it: no credential is active afterwards.
LEMMA CallsKeptByRevoking ==
  ASSUME TypeOK, CallsInv, ActiveFree, cred' = ActiveRevoked,
         UNCHANGED <<use, issued, history>>
  PROVE  CallsInv'
<1>1. \A c \in Cred :
        /\ cred'[c].state = IF cred[c].state = "active" THEN "revoked" ELSE cred[c].state
        /\ cred'[c].kind = cred[c].kind /\ cred'[c].url = cred[c].url
  BY RevokedRow
<1>2. \A u \in Use : use[u].pc \notin Holding
  BY NobodyHolds DEF CallsInv
<1>3. CallsHold'
  BY <1>1, <1>2 DEF CallsInv, CallsHold, Holding
<1>4. RowsFresh' /\ TokenStaysHome'
  BY <1>1 DEF CallsInv, RowsFresh, TokenStaysHome, TypeOK, history
<1>5. LatestKept'
  BY <1>1 DEF LatestKept, Active
<1> QED
  BY <1>3, <1>4, <1>5 DEF CallsInv

LEMMA CallsKeptByAdministration ==
  ASSUME TypeOK, CallsInv, Administration
  PROVE  CallsInv'
<1>1. UNCHANGED <<use, issued, history>>
  BY AdministrationFrame
<1>2. \/ UNCHANGED cred
      \/ ActiveFree /\ cred' = ActiveRevoked
  BY DEF Administration, DisableUser, EnableUser, UpdateUser, Revoke, SignOut,
     ConfigureInstance, SaveConfig, rows
<1>3. CASE UNCHANGED cred
  BY <1>1, <1>3 DEF CallsInv, CallsHold, RowsFresh, TokenStaysHome, LatestKept, Active, history
<1> QED
  BY <1>1, <1>2, <1>3, CallsKeptByRevoking

\* A new credential is in no call's hands and was sent nowhere.
LEMMA CallsKeptByStore ==
  ASSUME TypeOK, CallsInv, NEW l \in Link, NEW c \in Cred, Store(l, c)
  PROVE  CallsInv'
<1>1. /\ cred[c].state = "none" /\ ActiveFree
      /\ UNCHANGED <<use, issued, lost, delivered>>
  BY DEF Store, history
<1>2. cred'[c].state = "active" /\ cred'[c].gen = 0
  BY RevokedIsCredential DEF Store
<1>3. \A d \in Cred \ {c} :
        /\ cred'[d].state = IF cred[d].state = "active" THEN "revoked" ELSE cred[d].state
        /\ cred'[d].kind = cred[d].kind /\ cred'[d].url = cred[d].url
  <2>1. \A d \in Cred \ {c} : cred'[d] = ActiveRevoked[d]
    BY RevokedIsCredential DEF Store
  <2> QED
    BY <2>1, RevokedRow
<1>4. \A u \in Use : use[u].pc \notin Holding
  BY <1>1, NobodyHolds DEF CallsInv
<1>5. CallsHold'
  BY <1>1, <1>3, <1>4 DEF CallsInv, CallsHold, Holding
<1>6. RowsFresh' /\ TokenStaysHome'
  BY <1>1, <1>2, <1>3 DEF CallsInv, RowsFresh, TokenStaysHome, TypeOK
<1>7. LatestKept'
  <2>1. \A d \in Cred \ {c} : cred'[d].state # "active"
    BY <1>3
  <2>2. issued'[c] = 0
    BY <1>1 DEF CallsInv, RowsFresh
  <2> QED
    BY <1>2, <2>1, <2>2 DEF LatestKept, Active
<1> QED
  BY <1>5, <1>6, <1>7 DEF CallsInv

LEMMA CallsKeptByExpire ==
  ASSUME TypeOK, CallsInv, NEW c \in Cred, Expire(c)
  PROVE  CallsInv'
<1>1. /\ UNCHANGED <<use, issued, lost, delivered>>
      /\ \A d \in Cred :
           /\ cred'[d].state = cred[d].state /\ cred'[d].gen = cred[d].gen
           /\ cred'[d].kind = cred[d].kind /\ cred'[d].url = cred[d].url
  BY DEF TypeOK, Expire, CredRow, history
<1>2. CallsHold' /\ RowsFresh'
  BY <1>1 DEF CallsInv, CallsHold, RowsFresh, TypeOK, Holding
<1>3. TokenStaysHome' /\ LatestKept'
  BY <1>1 DEF CallsInv, TokenStaysHome, LatestKept, Active, TypeOK
<1> QED
  BY <1>2, <1>3 DEF CallsInv

\* A call that lets its credential go, or has none yet.
LEMMA CallsKeptByReleasing ==
  ASSUME TypeOK, CallsInv, NEW u \in Use,
         UNCHANGED <<cred, issued, lost, delivered>>,
         \A v \in Use \ {u} : use'[v] = use[v],
         use[u].pc # "answered",
         use'[u].pc \in {"idle", "connected", "waiting"},
         use'[u].cred = None
  PROVE  CallsInv'
<1>1. CallsHold'
  BY DEF CallsInv, CallsHold, Holding
<1>2. RowsFresh' /\ TokenStaysHome'
  BY DEF CallsInv, RowsFresh, TokenStaysHome
<1>3. LatestKept'
  BY DEF CallsInv, LatestKept, Active
<1> QED
  BY <1>1, <1>2, <1>3 DEF CallsInv

\* The step of one call and the other calls.
LEMMA OthersStay ==
  ASSUME TypeOK, NEW u \in Use, Calling(u)
  PROVE  \A v \in Use \ {u} : use'[v] = use[v]
<1>1. use \in [Use -> Using]
  BY DEF TypeOK
<1> QED
  BY <1>1 DEF Calling, ReadInstance, ReadPat, HoldSettings, HoldCredential, TakeFresh,
     PresentRefresh, RotateUpstream, StoreRefreshed, SendRequest, AbortUse, EndUse

LEMMA CallsKeptByReading ==
  ASSUME TypeOK, CallsInv, NEW u \in Use, ReadInstance(u) \/ HoldSettings(u)
  PROVE  CallsInv'
<1>1. use[u] \in Using /\ use \in [Use -> Using]
  BY DEF TypeOK
<1>2. UNCHANGED <<cred, issued, lost, delivered>>
  BY DEF ReadInstance, HoldSettings, rows, history
<1>3. CASE ReadInstance(u)
  <2>1. use'[u].pc = "connected" /\ use'[u].cred = None
    BY <1>1, <1>3 DEF ReadInstance, IdleUse
  <2> QED
    BY <1>2, <1>3, <2>1, OthersStay, CallsKeptByReleasing DEF Calling, ReadInstance
<1>4. CASE HoldSettings(u)
  <2>1. use'[u].pc = "waiting" /\ use'[u].cred = use[u].cred
    BY <1>1, <1>4 DEF HoldSettings, Using
  <2>2. use[u].cred = None
    BY <1>4 DEF HoldSettings, CallsInv, CallsHold
  <2> QED
    BY <1>2, <1>4, <2>1, <2>2, OthersStay, CallsKeptByReleasing DEF Calling, HoldSettings
<1> QED
  BY <1>3, <1>4

\* A call that carries a token of the credential c away.
LEMMA CallsKeptByCarrying ==
  ASSUME TypeOK, CallsInv, NEW u \in Use, NEW c \in Cred,
         UNCHANGED <<cred, issued, lost, delivered>>,
         \A v \in Use \ {u} : use'[v] = use[v],
         use[u].pc # "answered",
         use'[u].pc = "sending", use'[u].cred = c, cred[c].state # "none",
         cred[c].kind = "oauth" => cred[c].url = use'[u].url
  PROVE  CallsInv'
<1>1. CallsHold'
  BY DEF CallsInv, CallsHold, Holding
<1>2. RowsFresh' /\ TokenStaysHome'
  BY DEF CallsInv, RowsFresh, TokenStaysHome
<1>3. LatestKept'
  BY DEF CallsInv, LatestKept, Active
<1> QED
  BY <1>1, <1>2, <1>3 DEF CallsInv

LEMMA CallsKeptByTaking ==
  ASSUME TypeOK, CallsInv, NEW u \in Use, ReadPat(u) \/ TakeFresh(u)
  PROVE  CallsInv'
<1>1. use[u] \in Using /\ use \in [Use -> Using] /\ cred \in [Cred -> CredRow]
  BY DEF TypeOK
<1>2. UNCHANGED <<cred, issued, lost, delivered>>
  BY DEF ReadPat, TakeFresh, rows, history
<1>3. CASE ReadPat(u)
  <2>1. PICK c \in Active : /\ cred[c].kind = "pat"
                            /\ use' = [use EXCEPT ![u].pc = "sending", ![u].cred = c]
    BY <1>3 DEF ReadPat
  <2>2. use' = [use EXCEPT ![u] = [use[u] EXCEPT !.pc = "sending", !.cred = c]]
    BY <2>1
  <2>3. use'[u].pc = "sending" /\ use'[u].cred = c
    BY <1>1, <2>2 DEF Using
  <2> QED
    BY <1>2, <1>3, <2>1, <2>3, OthersStay, CallsKeptByCarrying DEF Calling, ReadPat, Active
<1>4. CASE TakeFresh(u)
  <2>1. /\ use[u].pc = "holding" /\ use'[u].pc = "sending"
        /\ use'[u].cred = use[u].cred /\ use'[u].url = use[u].url
    BY <1>1, <1>4 DEF TakeFresh, Using
  <2> QED
    BY <1>2, <1>4, <2>1, OthersStay, CallsKeptByCarrying
       DEF Calling, CallsInv, CallsHold, Holding
<1> QED
  BY <1>3, <1>4

LEMMA CallsKeptByHoldCredential ==
  ASSUME TypeOK, CallsInv, NEW u \in Use, HoldCredential(u)
  PROVE  CallsInv'
<1>1. use[u] \in Using /\ use \in [Use -> Using] /\ cred \in [Cred -> CredRow]
  BY DEF TypeOK
<1>2. PICK c \in Active :
        /\ ~CredLocked(c) /\ UsableHere(u, c)
        /\ use' = [use EXCEPT ![u].pc = "holding", ![u].cred = c, ![u].gen = cred[c].gen]
  BY DEF HoldCredential
<1>3. use' = [use EXCEPT ![u] = [use[u] EXCEPT !.pc = "holding", !.cred = c, !.gen = cred[c].gen]]
  BY <1>2
<1>4. /\ use[u].pc = "waiting" /\ use'[u].pc = "holding" /\ use'[u].cred = c
      /\ use'[u].gen = cred[c].gen /\ use'[u].url = use[u].url
      /\ UNCHANGED <<cred, issued, lost, delivered>>
  BY <1>1, <1>3 DEF HoldCredential, Using, rows, history
<1>5. /\ c \in Cred /\ cred[c].state = "active" /\ cred[c].url = use[u].url
      /\ \A v \in Use : use[v].pc \in Holding => use[v].cred # c
  BY <1>2 DEF Active, UsableHere, CredLocked, Holding
<1>6. \A v \in Use \ {u} : use'[v] = use[v]
  BY OthersStay DEF Calling
<1>7. CallsHold'
  BY <1>4, <1>5, <1>6 DEF CallsInv, CallsHold, Holding
<1>8. RowsFresh' /\ TokenStaysHome'
  BY <1>4 DEF CallsInv, RowsFresh, TokenStaysHome
<1>9. LatestKept'
  BY <1>4, <1>6 DEF CallsInv, LatestKept, Active
<1> QED
  BY <1>7, <1>8, <1>9 DEF CallsInv

LEMMA CallsKeptByPresentRefresh ==
  ASSUME TypeOK, CallsInv, NEW u \in Use, PresentRefresh(u)
  PROVE  CallsInv'
<1> DEFINE c == use[u].cred
<1>1. use[u] \in Using /\ use \in [Use -> Using]
  BY DEF TypeOK
<1>2. /\ use[u].pc = "holding" /\ use'[u].pc = "refreshing" /\ use'[u].cred = c
      /\ use'[u].gen = use[u].gen /\ use'[u].url = use[u].url
      /\ UNCHANGED <<cred, issued, lost>>
      /\ delivered' = delivered \cup {<<c, use[u].url>>}
  BY <1>1 DEF PresentRefresh, Using, rows
<1>3. \A v \in Use \ {u} : use'[v] = use[v]
  BY OthersStay DEF Calling
<1>4. /\ c \in Cred /\ cred[c].state # "none"
      /\ cred[c].kind = "oauth" => cred[c].url = use[u].url
  BY <1>2 DEF CallsInv, CallsHold, Holding
<1>5. CallsHold'
  BY <1>2, <1>3 DEF CallsInv, CallsHold, Holding
<1>6. RowsFresh' /\ TokenStaysHome'
  BY <1>2, <1>4 DEF CallsInv, RowsFresh, TokenStaysHome
<1>7. LatestKept'
  BY <1>2, <1>3 DEF CallsInv, LatestKept, Active
<1> QED
  BY <1>5, <1>6, <1>7 DEF CallsInv

\* Until the answer is stored the row lags behind, and the call stands for the rest.
LEMMA CallsKeptByRotateUpstream ==
  ASSUME TypeOK, CallsInv, NEW u \in Use, RotateUpstream(u)
  PROVE  CallsInv'
<1> DEFINE c == use[u].cred
<1>1. use[u] \in Using /\ use \in [Use -> Using] /\ issued \in [Cred -> 0..MaxGen]
  BY DEF TypeOK
<1>2. use[u].pc = "refreshing" /\ c \in Cred /\ cred[c].state = "active"
  BY DEF RotateUpstream, CallsInv, CallsHold, Holding
<1>3. use' = [use EXCEPT ![u] = [use[u] EXCEPT !.pc = "answered", !.gen = issued[c] + 1]]
  BY DEF RotateUpstream
<1>4. /\ use'[u].pc = "answered" /\ use'[u].cred = c
      /\ use'[u].gen = issued[c] + 1 /\ use'[u].url = use[u].url
  BY <1>1, <1>3 DEF Using
<1>5. /\ UNCHANGED <<cred, lost, delivered>>
      /\ issued'[c] = issued[c] + 1
      /\ \A d \in Cred \ {c} : issued'[d] = issued[d]
  BY <1>1, <1>2 DEF RotateUpstream, rows, history
<1>6. \A v \in Use \ {u} : use'[v] = use[v]
  BY OthersStay DEF Calling
<1>7. \A v \in Use \ {u} : use[v].pc \in Holding => use[v].cred # c
  BY <1>2 DEF CallsInv, CallsHold, Holding
<1> HIDE DEF c
<1>8. CallsHold'
  BY <1>2, <1>4, <1>5, <1>6, <1>7 DEF CallsInv, CallsHold, Holding, c
<1>9. RowsFresh' /\ TokenStaysHome'
  BY <1>2, <1>5 DEF CallsInv, RowsFresh, TokenStaysHome
<1>10. LatestKept'
  BY <1>2, <1>4, <1>5, <1>6 DEF CallsInv, LatestKept, Active
<1> QED
  BY <1>8, <1>9, <1>10 DEF CallsInv

LEMMA CallsKeptByStoreRefreshed ==
  ASSUME TypeOK, CallsInv, NEW u \in Use, StoreRefreshed(u)
  PROVE  CallsInv'
<1> DEFINE c == use[u].cred
<1>1. use[u] \in Using /\ use \in [Use -> Using] /\ cred \in [Cred -> CredRow]
  BY DEF TypeOK
<1>2. use[u].pc = "answered" /\ c \in Cred /\ cred[c].state = "active" /\ use[u].gen = issued[c]
  BY DEF StoreRefreshed, CallsInv, CallsHold, Holding
<1>3. /\ use'[u].pc = "sending" /\ use'[u].cred = c /\ use'[u].url = use[u].url
      /\ UNCHANGED <<issued, lost, delivered>>
  BY <1>1 DEF StoreRefreshed, Using, history
<1>4. /\ \A d \in Cred : /\ cred'[d].state = cred[d].state /\ cred'[d].kind = cred[d].kind
                         /\ cred'[d].url = cred[d].url
      /\ cred'[c].gen = issued[c]
      /\ \A d \in Cred \ {c} : cred'[d].gen = cred[d].gen
  <2>1. cred' = [cred EXCEPT ![c] = [cred[c] EXCEPT !.gen = use[u].gen, !.fresh = TRUE]]
    BY DEF StoreRefreshed
  <2>2. ASSUME NEW r \in CredRow, NEW g
        PROVE  LET q == [r EXCEPT !.gen = g, !.fresh = TRUE]
               IN  q.gen = g /\ q.state = r.state /\ q.kind = r.kind /\ q.url = r.url
    BY DEF CredRow
  <2> QED
    BY <1>1, <1>2, <2>1, <2>2
<1>5. \A v \in Use \ {u} : use'[v] = use[v]
  BY OthersStay DEF Calling
<1>6. \A v \in Use \ {u} : use[v].pc \in Holding => use[v].cred # c
  BY <1>2 DEF CallsInv, CallsHold, Holding
<1> HIDE DEF c
<1>7. CallsHold'
  BY <1>2, <1>3, <1>4, <1>5, <1>6 DEF CallsInv, CallsHold, Holding, c
<1>8. RowsFresh' /\ TokenStaysHome'
  BY <1>3, <1>4 DEF CallsInv, RowsFresh, TokenStaysHome, TypeOK
<1>9. LatestKept'
  BY <1>2, <1>3, <1>4, <1>5 DEF CallsInv, LatestKept, Active, c
<1> QED
  BY <1>7, <1>8, <1>9 DEF CallsInv

LEMMA CallsKeptByEnd ==
  ASSUME TypeOK, CallsInv, NEW u \in Use, SendRequest(u) \/ AbortUse(u)
  PROVE  CallsInv'
<1> DEFINE c == use[u].cred
<1>1. use[u] \in Using /\ use \in [Use -> Using]
  BY DEF TypeOK
<1>2. /\ use'[u].pc = "idle" /\ use'[u].cred = None
      /\ UNCHANGED <<cred, issued>>
  BY <1>1 DEF SendRequest, AbortUse, EndUse, IdleUse, rows
<1>3. \A v \in Use \ {u} : use'[v] = use[v]
  BY OthersStay DEF Calling
<1>4. CallsHold'
  BY <1>2, <1>3 DEF CallsInv, CallsHold, Holding
<1>5. \A d \in delivered' : \/ d \in delivered
                            \/ use[u].pc = "sending" /\ d = <<c, use[u].url>>
  BY DEF SendRequest, AbortUse
<1>6. use[u].pc = "sending" =>
        /\ c \in Cred /\ cred[c].state # "none"
        /\ cred[c].kind = "oauth" => cred[c].url = use[u].url
  BY DEF CallsInv, CallsHold
<1>7. RowsFresh' /\ TokenStaysHome'
  BY <1>2, <1>5, <1>6 DEF CallsInv, RowsFresh, TokenStaysHome
<1>8. use[u].pc = "answered" => c \in lost'
  BY DEF SendRequest, AbortUse
<1>9. lost \subseteq lost'
  BY DEF SendRequest, AbortUse
<1>10. LatestKept'
  BY <1>2, <1>3, <1>8, <1>9 DEF CallsInv, LatestKept, Active
<1> QED
  BY <1>4, <1>7, <1>10 DEF CallsInv

LEMMA Calls == ASSUME TypeOK, CallsInv, [Next]_vars PROVE CallsInv'
<1>1. CASE UNCHANGED <<cred, use, issued, lost, delivered>>
  BY <1>1 DEF CallsInv, CallsHold, RowsFresh, TokenStaysHome, LatestKept, Active
<1>2. ASSUME NEW l \in Link, Connecting(l) PROVE CallsInv'
  BY <1>1, <1>2, ConnectingFrame, ConnectingLeavesCredentials, CallsKeptByStore
<1>3. ASSUME NEW u \in Use, Calling(u) PROVE CallsInv'
  BY <1>3, CallsKeptByReading, CallsKeptByTaking, CallsKeptByHoldCredential,
     CallsKeptByPresentRefresh, CallsKeptByRotateUpstream, CallsKeptByStoreRefreshed,
     CallsKeptByEnd DEF Calling
<1>4. ASSUME NEW f \in Flow, Lapse(f) PROVE CallsInv'
  BY <1>1, <1>4 DEF Lapse, history
<1>5. CASE UNCHANGED vars
  BY <1>1, <1>5 DEF vars, rows, history
<1> QED
  BY <1>2, <1>3, <1>4, <1>5, CallsKeptByAdministration, CallsKeptByExpire DEF Next

----------------------------------------------------------------------------
(* The inductive invariant and what follows from it. *)

LEMMA Start == Init => IInv
<1> SUFFICES ASSUME Init PROVE IInv
  OBVIOUS
<1>1. TypeOK
  <2>1. 0 \in 0..MaxRev /\ 0 \in 0..MaxGen
    BY Constants
  <2>2. flow \in [Flow -> FlowRow] /\ cred \in [Cred -> CredRow] /\ issued \in [Cred -> 0..MaxGen]
    BY <2>1, Constants DEF Init, FlowRow, CredRow
  <2>3. config \in [stored : BOOLEAN, enabled : BOOLEAN, client : Client, rev : 0..MaxRev]
    BY <2>1, Constants DEF Init
  <2> QED
    BY <2>2, <2>3, IdleTypes, Constants DEF Init, TypeOK
<1>2. CodesHeld /\ SettingsHeld
  BY DEF Init, CodesHeld, SettingsHeld, IdleLink
<1>3. CallsHold /\ RowsFresh /\ TokenStaysHome /\ LatestKept
  BY DEF Init, CallsHold, RowsFresh, TokenStaysHome, LatestKept, Active, IdleUse, Holding
<1> QED
  BY <1>1, <1>2, <1>3 DEF IInv

LEMMA Step == IInv /\ [Next]_vars => IInv'
  BY Types, Codes, Settings, Calls DEF IInv, CallsInv

\* The locks of complete(), save() and access_token() do what the code takes them for, in
\* every interleaving of any number of links, calls and administrators.
THEOREM LinkInvariance == Spec => []IInv
  BY Start, Step, PTL DEF Spec

\* Types, from the invariant.
THEOREM LinkTypes == Spec => []TypeOK
<1>1. IInv => TypeOK
  BY DEF IInv
<1> QED
  BY <1>1, LinkInvariance, PTL

\* An authorization code goes to Forgejo at most once.
THEOREM CodesArePresentedOnce == Spec => []CodePresentedOnce
<1>1. IInv => CodePresentedOnce
  BY DEF IInv, TypeOK, CodesHeld, CodePresentedOnce
<1> QED
  BY <1>1, LinkInvariance, PTL

\* OAuth tokens go only to the instance they came from.
THEOREM TokensStayHome == Spec => []TokenStaysHome
<1>1. IInv => TokenStaysHome
  BY DEF IInv
<1> QED
  BY <1>1, LinkInvariance, PTL

\* A refresh has its credential to itself, whatever else goes on.
THEOREM RefreshesAreSerialized == Spec => []RefreshSerialized
<1>1. ASSUME IInv, NEW u \in Use, use[u].pc \in {"refreshing", "answered"},
             NEW v \in Use \ {u}, use[v].cred = use[u].cred
      PROVE  use[v].pc = "sending"
  <2>1. use[u].pc \in Holding /\ use[u].cred \in Cred
    BY <1>1 DEF IInv, CallsHold, Holding
  <2>2. use[v].pc \notin Holding
    BY <1>1, <2>1 DEF IInv, CallsHold
  <2>3. use[v].pc \notin {"idle", "connected", "waiting"}
    BY <1>1, <2>1, Constants DEF IInv, CallsHold
  <2>4. use[v] \in Using
    BY <1>1 DEF IInv, TypeOK
  <2> QED
    BY <2>2, <2>3, <2>4 DEF Using, Holding
<1>2. IInv => RefreshSerialized
  BY <1>1 DEF IInv, CallsHold, Holding, RefreshSerialized
<1> QED
  BY <1>2, LinkInvariance, PTL

\* What is stored is the latest refresh token Forgejo issued, or a call is about to store it,
\* or an answer was lost.
THEOREM LatestIsKept == Spec => []LatestKept
<1>1. IInv => LatestKept
  BY DEF IInv
<1> QED
  BY <1>1, LinkInvariance, PTL

\* If the configuration was saved in the Dashboard before, every link stores its credential
\* under the configuration and the instance of that moment.  Without a row of the
\* configuration there is no lock to take, and no such theorem.
THEOREM LinksStoreUnderCurrentSettings ==
  ASSUME Stored = TRUE
  PROVE  Spec => StoredUnderCurrentSettings
<1>1. ASSUME IInv, NEW l \in Link, link[l].pc = "settled"
      PROVE  link[l].rev = config.rev /\ link[l].url = instance
  BY <1>1 DEF IInv, SettingsHeld
<1>2. IInv => [\A l \in Link : link[l].pc = "settled" /\ cred' # cred /\ link'[l].pc = "idle" =>
                 link[l].rev = config.rev /\ link[l].url = instance]_vars
  BY <1>1
<1> QED
  BY <1>2, LinkInvariance, PTL DEF StoredUnderCurrentSettings

\* With or without a row of the configuration: a link stores its credential for the instance
\* of that moment, and under the latest configuration if there was a row to lock.
THEOREM LinksStoreUnderLockedSettings ==
  Spec => [][\A l \in Link : link[l].pc = "settled" /\ cred' # cred /\ link'[l].pc = "idle" =>
               link[l].url = instance /\ (link[l].locked => link[l].rev = config.rev)]_vars
<1>1. IInv => [\A l \in Link : link[l].pc = "settled" /\ cred' # cred /\ link'[l].pc = "idle" =>
                 link[l].url = instance /\ (link[l].locked => link[l].rev = config.rev)]_vars
  BY DEF IInv, SettingsHeld
<1> QED
  BY <1>1, LinkInvariance, PTL
==============================================================================
