------------------------- MODULE ForgejoClientProofs -------------------------
(***************************************************************************)
(* For any plan of requests in which a change is the only request of its   *)
(* operation, and any number of retries: no write is repeated, and what    *)
(* the caller is told of it is true.                                       *)
(***************************************************************************)
EXTENDS ForgejoClient, ToolCatalogue, DataLemmas, TLAPS

\* An operation that changes something has one request, which is never retried.
LEMMA ChangeAlone ==
  ASSUME tool \in Caller, step \in DOMAIN Plan[tool]
  PROVE  /\ ~Mutates(tool) => Current.method \in Safe
         /\ Mutates(tool) => /\ Current.method \notin Safe
                             /\ Current.expect \subseteq 200..299
                             /\ Current.further = {}
                             /\ RetriesFor = 0
                             /\ ~Paged(tool)
<1>1. CASE ~Mutates(tool)
  BY <1>1 DEF Mutates, Current
<1>2. CASE Mutates(tool)
  <2>1. Len(Plan[tool]) = 1 /\ Plan[tool][1].expect \subseteq 200..299 /\ Plan[tool][1].further = {}
        /\ ~Paged(tool)
    BY <1>2, Plans
  <2>2. Plan[tool] \in Seq([method : Safe \cup {"POST", "PATCH", "DELETE"},
                            expect : SUBSET {200, 201, 204, 206, 403, 404},
                            bound : DOMAIN Bound, further : SUBSET Status])
    BY ZenonT(40), Plans
  <2>3. DOMAIN Plan[tool] = {1}
    BY <2>1, <2>2
  <2>4. step = 1 /\ Current = Plan[tool][1]
    BY <2>3 DEF Current
  <2>5. Current.method \notin Safe
    BY <1>2, <2>3, <2>4 DEF Mutates
  <2> QED
    BY <2>1, <2>4, <2>5, <1>2 DEF RetriesFor
<1> QED
  BY <1>1, <1>2

\* Whatever is made of an answer is a success.
LEMMA RepliesOk ==
  ASSUME NEW answer \in Replies
  PROVE  answer.result = "ok"
<1>1. \A l, s, r, m : Ok(l, s, r, m).result = "ok"
  BY DEF Ok
<1>2. CASE Result[tool] = "page"
  BY <1>1, <1>2 DEF Replies, PageReplies, AfterPage
<1>3. CASE Result[tool] = "total"
  BY <1>1, <1>3 DEF Replies, TotalReplies, AfterPage
<1>4. CASE Result[tool] = "list"
  <2>1. PICK n \in 0..(ListMax + 1) :
          answer \in {Ok(n, k, Min({k, ListMax}), k > ListMax) : k \in 0..n}
    BY <1>4 DEF Replies, ListReplies
  <2>2. PICK k \in 0..n : answer = Ok(n, k, Min({k, ListMax}), k > ListMax)
    BY <2>1
  <2> QED
    BY <1>1, <2>2
<1>5. CASE Result[tool] = "log"
  BY <1>1, <1>5 DEF Replies, LogReplies
<1>6. CASE Result[tool] = "file"
  BY <1>1, <1>6 DEF Replies, FileReplies
<1>7. CASE Result[tool] = "archive"
  <2>1. \A sizes : Unpack(sizes).result = "ok"
    BY <1>1 DEF Unpack
  <2>2. Replies = ArchiveReplies
    BY <1>7 DEF Replies
  <2> QED
    BY <2>1, <2>2 DEF ArchiveReplies
<1>8. CASE Result[tool] \notin {"page", "total", "list", "log", "file", "archive"}
  BY <1>1, <1>8 DEF Replies
<1> QED
  BY <1>2, <1>3, <1>4, <1>5, <1>6, <1>7, <1>8

\* A call that ends keeps the record of its request.
LEMMA Ending ==
  ASSUME RequestMatchesStage, UNCHANGED forgejo, NEW answer,
         End(answer), answer.result # "none"
  PROVE  RequestMatchesStage' /\ reply'.result = answer.result
  BY DEF RequestMatchesStage, End, forgejo, Mutates

LEMMA ErrorEnds ==
  ASSUME RequestMatchesStage, UNCHANGED forgejo, NEW kind, kind # "none", Error(kind)
  PROVE  RequestMatchesStage' /\ reply'.result = kind
<1>1. Told(kind).result = kind
  BY DEF Told
<1> QED
  BY <1>1, Ending DEF Error

\* Giving up is allowed at any time before the end.
LEMMA GiveUpEnds ==
  ASSUME RequestMatchesStage, pc # "done", UNCHANGED forgejo, Error("unavailable")
  PROVE  RequestMatchesStage' /\ Write!GiveUp
<1>1. RequestMatchesStage' /\ reply'.result = "unavailable"
  BY ErrorEnds
<1> QED
  BY <1>1 DEF RequestMatchesStage, Write!GiveUp, Write!Tell, forgejo

\* A failed attempt is repeated or given up; a change is never repeated.
LEMMA RetryEnds ==
  ASSUME RequestMatchesStage, pc \in {"ready", "waiting", "streaming"}, UNCHANGED forgejo,
         RetryOrGiveUp
  PROVE  RequestMatchesStage' /\ [Write!Next]_(Write!vars)
<1>1. CASE attempt < RetriesFor
  <2>1. ~Mutates(tool)
    <3> SUFFICES ASSUME Mutates(tool) PROVE FALSE
      OBVIOUS
    <3>1. RetriesFor = 0
      BY ChangeAlone DEF RequestMatchesStage
    <3> QED
      BY <3>1, <1>1 DEF RequestMatchesStage
  <2> QED
    BY <2>1, <1>1 DEF RetryOrGiveUp, RequestMatchesStage, forgejo, Mutates, Write!vars
<1>2. CASE ~(attempt < RetriesFor)
  BY <1>2, GiveUpEnds DEF RetryOrGiveUp, Write!Next
<1> QED
  BY <1>1, <1>2

----------------------------------------------------------------------------
(* Each step keeps the record of the request and is a step of SingleWrite. *)

LEMMA RefusingArguments ==
  ASSUME RequestMatchesStage, RefuseArguments
  PROVE  RequestMatchesStage' /\ Write!Refuse
<1>1. RequestMatchesStage' /\ reply'.result = "invalid"
  BY ErrorEnds DEF RefuseArguments
<1> QED
  BY <1>1 DEF RefuseArguments, RequestMatchesStage, Write!Refuse, Write!Tell, forgejo

LEMMA AcceptingArguments ==
  ASSUME RequestMatchesStage, AcceptArguments
  PROVE  RequestMatchesStage' /\ UNCHANGED Write!vars
  BY DEF AcceptArguments, RequestMatchesStage, Mutates, forgejo, Write!vars

LEMMA Sending ==
  ASSUME RequestMatchesStage, Send
  PROVE  RequestMatchesStage' /\ [Write!Next]_(Write!vars)
<1>1. CASE Changing
  <2>1. Mutates(tool)
    BY <1>1, ChangeAlone DEF RequestMatchesStage, Changing
  <2>2. sent = {} /\ sent' = {<<step, attempt>>} /\ pending' = sent'
    BY <1>1 DEF Send, RequestMatchesStage
  <2>3. Write!Send
    BY <2>2 DEF Send, RequestMatchesStage, Write!Send
  <2>4. RequestMatchesStage'
    BY <2>1, <2>2 DEF Send, RequestMatchesStage, Mutates
  <2> QED
    BY <2>3, <2>4 DEF Write!Next
<1>2. CASE ~Changing
  <2>1. ~Mutates(tool)
    BY <1>2, ChangeAlone DEF RequestMatchesStage, Changing
  <2> QED
    BY <1>2, <2>1 DEF Send, RequestMatchesStage, Mutates, Write!vars
<1> QED
  BY <1>1, <1>2

LEMMA Landing ==
  ASSUME RequestMatchesStage, Land
  PROVE  RequestMatchesStage' /\ Write!Land
<1>1. Write!Land
  BY DEF Land, Write!Land
<1>2. Mutates(tool)' <=> Mutates(tool)
  BY DEF Land, Mutates
<1>3. Mutates(tool) /\ pc \in {"streaming", "received"} /\ status < 300 => effect' = sent'
  BY DEF Land, RequestMatchesStage
<1>4. Mutates(tool) /\ pc \in {"streaming", "received"} /\ status \in 300..499 => FALSE
  BY DEF Land, RequestMatchesStage
<1> QED
  BY <1>1, <1>3, <1>4 DEF Land, RequestMatchesStage, Mutates

LEMMA Responding ==
  ASSUME RequestMatchesStage, NEW s \in Status, Respond(s)
  PROVE  RequestMatchesStage' /\ [Write!Next]_(Write!vars)
<1>1. CASE ~Mutates(tool)
  <2>1. sent = {} /\ pending = {} /\ effect = {}
    BY <1>1 DEF RequestMatchesStage
  <2>2. sent' = {} /\ pending' = {} /\ effect' = {} /\ reply' = reply
    BY <2>1 DEF Respond
  <2> QED
    BY <1>1, <2>1, <2>2 DEF Respond, RequestMatchesStage, Mutates, Write!vars
<1>2. CASE Mutates(tool)
  <2>1. Changing
    BY <1>2, ChangeAlone DEF RequestMatchesStage, Changing
  <2>2. sent = {<<step, attempt>>} /\ reply.result = "none"
    BY <1>2 DEF Respond, RequestMatchesStage
  <2>3. CASE s \in 300..499
    <3>1. effect = {} /\ pending' = {} /\ effect' = {}
      BY <2>2, <2>3 DEF Respond, RequestMatchesStage
    <3>2. ~(s < 300)
      BY <2>3
    <3>3. RequestMatchesStage'
      BY <1>2, <2>2, <3>1, <3>2 DEF Respond, RequestMatchesStage, Mutates
    <3>4. [Write!Next]_(Write!vars)
      BY <2>2, <3>1 DEF Respond, Write!Next, Write!TurnDown, Write!vars
    <3> QED
      BY <3>3, <3>4
  <2>4. CASE s \notin 300..499
    <3>1. UNCHANGED <<sent, pending, effect, reply>> /\ status' = s
      BY <2>4 DEF Respond
    <3>2. s < 300 => effect = sent
      BY <2>1, <2>2 DEF Respond, RequestMatchesStage
    <3>3. RequestMatchesStage'
      BY <1>2, <2>2, <2>4, <3>1, <3>2 DEF Respond, RequestMatchesStage, Mutates
    <3> QED
      BY <3>1, <3>3 DEF Write!vars
  <2> QED
    BY <2>3, <2>4
<1> QED
  BY <1>1, <1>2

LEMMA ReadingChunk ==
  ASSUME RequestMatchesStage, ReadChunk
  PROVE  RequestMatchesStage' /\ [Write!Next]_(Write!vars)
<1>1. UNCHANGED forgejo /\ pc = "streaming"
      /\ (Error("unavailable") \/ UNCHANGED <<tool, pc, step, attempt, status, query, reply>>)
  BY DEF ReadChunk
<1>2. CASE Error("unavailable")
  BY <1>1, <1>2, GiveUpEnds DEF Write!Next
<1>3. CASE UNCHANGED <<tool, pc, step, attempt, status, query, reply>>
  BY <1>1, <1>3 DEF RequestMatchesStage, Mutates, forgejo, Write!vars
<1> QED
  BY <1>1, <1>2, <1>3

LEMMA Failing ==
  ASSUME RequestMatchesStage, Fail
  PROVE  RequestMatchesStage' /\ [Write!Next]_(Write!vars)
<1>1. pc = "received" /\ UNCHANGED forgejo /\ Error(ErrorOf) /\ reply.result = "none"
  BY DEF Fail, RequestMatchesStage
<1>2. CASE ErrorOf = "unavailable"
  BY <1>1, <1>2, GiveUpEnds DEF Write!Next
<1>3. CASE ErrorOf # "unavailable"
  <2>1. ErrorOf \in {"invalid", "notfound"} /\ status \in 300..499
    BY <1>3 DEF ErrorOf
  <2>2. effect = {} /\ pending = {}
    BY <1>1, <2>1 DEF RequestMatchesStage
  <2>3. RequestMatchesStage' /\ reply'.result = ErrorOf
    BY <1>1, <2>1, ErrorEnds
  <2> QED
    BY <1>1, <2>1, <2>2, <2>3 DEF Write!Next, Write!Refuse, Write!Tell, forgejo
<1> QED
  BY <1>2, <1>3

LEMMA Succeeding ==
  ASSUME RequestMatchesStage, Succeed
  PROVE  RequestMatchesStage' /\ Write!Succeed
<1>1. PICK answer \in Replies : End(answer)
  BY DEF Succeed
<1>2. answer.result = "ok"
  BY RepliesOk
<1>3. RequestMatchesStage' /\ reply'.result = "ok"
  BY <1>1, <1>2, Ending DEF Succeed
<1>4. effect = sent
  <2>1. CASE ~Mutates(tool)
    BY <2>1 DEF RequestMatchesStage
  <2>2. CASE Mutates(tool)
    <3>1. status \in 200..299
      BY <2>2, ChangeAlone DEF Succeed, Expected, RequestMatchesStage
    <3> QED
      BY <2>2, <3>1 DEF Succeed, RequestMatchesStage
  <2> QED
    BY <2>1, <2>2
<1> QED
  BY <1>3, <1>4 DEF Succeed, RequestMatchesStage, Write!Succeed, Write!Tell, forgejo

LEMMA Following ==
  ASSUME RequestMatchesStage, FollowPage
  PROVE  RequestMatchesStage' /\ Write!Continue
<1>1. ~Mutates(tool) /\ sent = {}
  BY ChangeAlone DEF FollowPage, RequestMatchesStage
<1>2. reply'.result = "none"
  BY DEF FollowPage, Told
<1>3. 1 \in DOMAIN Plan[tool]
  BY Plans DEF RequestMatchesStage
<1> QED
  BY <1>1, <1>2, <1>3 DEF FollowPage, RequestMatchesStage, Mutates, forgejo, Write!Continue

LEMMA GoingOn ==
  ASSUME RequestMatchesStage, BackOff \/ Wake \/ NextRequest \/ FinishBody
  PROVE  RequestMatchesStage' /\ UNCHANGED Write!vars
<1>1. CASE BackOff
  <2>1. ~Mutates(tool)
    BY <1>1, ChangeAlone DEF BackOff, Transient, RequestMatchesStage
  <2> QED
    BY <1>1, <2>1 DEF BackOff, RequestMatchesStage, Mutates, forgejo, Write!vars
<1>2. CASE Wake
  BY <1>2 DEF Wake, RequestMatchesStage, Mutates, forgejo, Write!vars
<1>3. CASE NextRequest
  <2>1. ~Mutates(tool)
    BY <1>3, ChangeAlone DEF NextRequest, RequestMatchesStage
  <2>2. step + 1 \in DOMAIN Plan[tool]
    BY <1>3, Plans DEF NextRequest, Current, RequestMatchesStage
  <2> QED
    BY <1>3, <2>1, <2>2 DEF NextRequest, RequestMatchesStage, Mutates, forgejo, Write!vars
<1>4. CASE FinishBody
  BY <1>4 DEF FinishBody, RequestMatchesStage, Mutates, forgejo, Write!vars
<1> QED
  BY <1>1, <1>2, <1>3, <1>4

----------------------------------------------------------------------------

\* At the start nothing was sent and nobody told anything.
LEMMA Starting == Init => RequestMatchesStage /\ Write!Init
<1> SUFFICES ASSUME Init PROVE RequestMatchesStage /\ Write!Init
  OBVIOUS
<1>1. 1 \in DOMAIN Plan[tool]
  BY Plans DEF Init
<1> QED
  BY <1>1 DEF Init, Silent, RequestMatchesStage, Write!Init

LEMMA Stepping ==
  RequestMatchesStage /\ [Next]_vars => RequestMatchesStage' /\ [Write!Next]_(Write!vars)
<1> SUFFICES ASSUME RequestMatchesStage, [Next]_vars
             PROVE  RequestMatchesStage' /\ [Write!Next]_(Write!vars)
  OBVIOUS
<1>1. CASE RefuseArguments
  BY <1>1, RefusingArguments DEF Write!Next
<1>2. CASE AcceptArguments
  BY <1>2, AcceptingArguments
<1>3. CASE Send
  BY <1>3, Sending
<1>4. CASE BackOff \/ Wake \/ NextRequest \/ FinishBody
  BY <1>4, GoingOn
<1>5. CASE Fail
  BY <1>5, Failing
<1>6. CASE Unusable \/ RejectBody \/ FailOtherwise
  <2>1. pc # "done" /\ UNCHANGED forgejo /\ Error("unavailable")
    BY <1>6 DEF Unusable, RejectBody, FailOtherwise
  <2> QED
    BY <2>1, GiveUpEnds DEF Write!Next
<1>7. CASE Succeed
  BY <1>7, Succeeding DEF Write!Next
<1>8. CASE FailToConnect \/ LoseConnection
  <2>1. pc \in {"ready", "waiting", "streaming"} /\ UNCHANGED forgejo /\ RetryOrGiveUp
    BY <1>8 DEF FailToConnect, LoseConnection
  <2> QED
    BY <2>1, RetryEnds
<1>9. ASSUME NEW s \in Status, Respond(s)
      PROVE  RequestMatchesStage' /\ [Write!Next]_(Write!vars)
  BY <1>9, Responding
<1>10. CASE ReadChunk
  BY <1>10, ReadingChunk
<1>11. CASE Land
  BY <1>11, Landing DEF Write!Next
<1>12. CASE FollowPage
  BY <1>12, Following DEF Write!Next
<1>13. CASE UNCHANGED vars
  BY <1>13 DEF vars, RequestMatchesStage, Mutates, forgejo, Write!vars
<1> QED
  BY <1>1, <1>2, <1>3, <1>4, <1>5, <1>6, <1>7, <1>8, <1>9, <1>10, <1>11, <1>12, <1>13
  DEF Next, Client, Connection

\* How far a call has come and what became of its request, in every reachable state.
THEOREM RequestAlwaysMatchesStage == Spec => []RequestMatchesStage
<1>1. RequestMatchesStage /\ [Next]_vars => RequestMatchesStage'
  BY Stepping
<1> QED
  BY Starting, <1>1, PTL DEF Spec

\* _request and everything around it implements SingleWrite: a write is sent at most once,
\* and success or refusal is reported only if it is so.
THEOREM ClientImplementsSingleWrite == Spec => WritesOnce
  BY Starting, Stepping, RequestAlwaysMatchesStage, PTL DEF Spec, WritesOnce, Write!Spec
----------------------------------------------------------------------------
(* What is made of an answer, whatever the bounds are.                     *)

LEMMA PageProduct ==
  ASSUME NEW p \in Nat \ {0}, NEW l \in Nat
  PROVE  (p - 1) * l \in Nat /\ p * l = (p - 1) * l + l
<1> DEFINE q == p - 1
<1>1. q \in Nat /\ p = q + 1
  OBVIOUS
<1> HIDE DEF q
<1>2. (q + 1) * l = q * l + l /\ q * l \in Nat
  BY <1>1
<1> QED
  BY <1>1, <1>2 DEF q

\* The sizes of an archive's files up to each of them have a sum.
LEMMA SumToIsSum ==
  ASSUME NEW n \in Nat, NEW sizes \in [1..n -> Nat]
  PROVE  SumTo(sizes) \in [0..n -> Nat]
<1> DEFINE Sums(last, f) == f = [i \in 0..last |-> IF i = 0 THEN 0 ELSE f[i - 1] + sizes[i]]
           Good == {last \in 0..n : \E f \in [0..last -> Nat] : Sums(last, f)}
<1>1. Len(sizes) = n
  BY FunctionIsSequence
<1>2. 0 \in Good
  <2> DEFINE t == [i \in 0..0 |-> 0]
  <2>1. t \in [0..0 -> Nat] /\ Sums(0, t)
    OBVIOUS
  <2> HIDE DEF Sums, t
  <2>2. \E f \in [0..0 -> Nat] : Sums(0, f)
    BY <2>1
  <2> QED
    BY <2>2
<1>3. ASSUME NEW k \in 0..n, k \in Good, k < n PROVE k + 1 \in Good
  <2>1. PICK s \in [0..k -> Nat] : Sums(k, s)
    BY <1>3
  <2> DEFINE t == [i \in 0..(k + 1) |-> IF i <= k THEN s[i] ELSE s[k] + sizes[k + 1]]
  <2>2. t \in [0..(k + 1) -> Nat]
    BY <1>3
  <2>3. ASSUME NEW i \in 0..(k + 1)
        PROVE  t[i] = IF i = 0 THEN 0 ELSE t[i - 1] + sizes[i]
    <3>1. CASE i = 0
      BY <2>1, <3>1
    <3>2. CASE i \in 1..k
      <4>1. s[i] = s[i - 1] + sizes[i]
        BY <2>1, <3>2
      <4> QED
        BY <3>2, <4>1
    <3>3. CASE i = k + 1
      BY <3>3
    <3> QED
      BY <3>1, <3>2, <3>3
  <2>4. Sums(k + 1, t)
    BY <2>3
  <2> HIDE DEF Sums, t
  <2>5. \E f \in [0..(k + 1) -> Nat] : Sums(k + 1, f)
    BY <2>2, <2>4
  <2>6. k + 1 \in 0..n
    BY <1>3
  <2> QED
    BY <2>5, <2>6
<1>4. n \in Good
  <2> HIDE DEF Good
  <2>1. 0..n \subseteq Good
    BY <1>2, <1>3, UpTo
  <2> QED
    BY <2>1
<1>5. PICK s \in [0..n -> Nat] : Sums(n, s)
  BY <1>4
<1>6. Sums(n, SumTo(sizes))
  BY <1>1, <1>5 DEF SumTo
<1>7. 0..n \subseteq {i \in 0..n : SumTo(sizes)[i] \in Nat}
  <2> DEFINE Typed == {i \in 0..n : SumTo(sizes)[i] \in Nat}
  <2>1. 0 \in Typed
    BY <1>6
  <2>2. ASSUME NEW i \in 0..n, i \in Typed, i < n PROVE i + 1 \in Typed
    <3>1. SumTo(sizes)[i + 1] = SumTo(sizes)[i] + sizes[i + 1]
      BY <1>6, <2>2
    <3> QED
      BY <2>2, <3>1
  <2> HIDE DEF Typed
  <2>3. 0..n \subseteq Typed
    BY <2>1, <2>2, UpTo
  <2> QED
    BY <2>3 DEF Typed
<1> QED
  BY <1>6, <1>7

Answers == [result : {"ok"}, listed : Nat, served : Nat, returned : Nat, more : BOOLEAN]

\* What FollowPage, the type and the bounds need to know of a reply.
ReplyRight(r) ==
  /\ r \in Answers
  /\ ~r.more => r.returned = r.served /\ (AsksForAll => r.served = r.listed)
  /\ PagesAsAsked /\ r.more => /\ r.returned = (query.page - 1) * query.limit + query.limit
                               /\ r.returned <= r.listed
  /\ Result[tool] \in {"log", "archive"} => r.returned <= LogMax

\* A page holds what is left of the list, up to Forgejo's maximum or the limit.
LEMMA OnPageIs ==
  ASSUME NEW n \in Nat, query.page \in Nat \ {0}, query.limit \in Nat
  PROVE  /\ OnPage(n) \in Nat
         /\ query.limit <= ServedMax =>
              OnPage(n) = LET before == (query.page - 1) * query.limit
                          IN  IF n <= before THEN 0
                              ELSE IF n - before < query.limit THEN n - before ELSE query.limit
<1> DEFINE size   == Min({query.limit, ServedMax})
           before == (query.page - 1) * size
           left   == IF n > before THEN n - before ELSE 0
<1>1. size \in Nat /\ (query.limit <= ServedMax => size = query.limit)
  BY Bounds, MinOfTwo
<1>2. OnPage(n) = Min({size, left})
  BY DEF OnPage
<1> HIDE DEF size
<1>3. before \in Nat
  BY <1>1, PageProduct
<1> HIDE DEF before
<1>4. left \in Nat
  BY <1>3
<1>5. OnPage(n) = IF size <= left THEN size ELSE left
  BY <1>1, <1>2, <1>4, MinOfTwo
<1>6. query.limit <= ServedMax => before = (query.page - 1) * query.limit
  BY <1>1 DEF before
<1>7. OnPage(n) = IF n <= before THEN 0 ELSE IF n - before < size THEN n - before ELSE size
  BY <1>1, <1>3, <1>5
<1>8. OnPage(n) \in Nat
  BY <1>1, <1>4, <1>5
<1> QED
  BY <1>1, <1>6, <1>7, <1>8

\* A page: has_more is whether it is full, or whether there are more than were seen.
LEMMA PageRepliesRight ==
  ASSUME TypeOK, PagesCounted, Paged(tool), reply.result = "none",
         NEW answer \in PageReplies \cup TotalReplies
  PROVE  ReplyRight(answer)
<1> DEFINE before == (query.page - 1) * query.limit
           seen(n) == reply.returned + OnPage(n)
           Of(n, more) == [result |-> "ok", listed |-> n, served |-> seen(n),
                           returned |-> seen(n), more |-> more]
<1>1. query.page \in Nat \ {0} /\ query.limit \in Nat \ {0} /\ reply.listed \in Nat
      /\ reply.returned \in Nat /\ ListedMax \in Nat
  <2>1. query \in [page : 1..PageMax + 1, limit : 1..LimitMax] /\ reply.listed \in Nat
        /\ reply.returned \in Nat
    BY DEF TypeOK
  <2>2. PageMax \in Nat /\ LimitMax \in Nat /\ ListedMax \in Nat
    BY Bounds
  <2> QED
    BY <2>1, <2>2
<1>2. PICK n \in Listings, more \in BOOLEAN :
        /\ answer = Of(n, more)
        /\ \/ more <=> OnPage(n) = query.limit
           \/ more <=> query.page * query.limit < n
  <2>1. \A n, more : AfterPage(n, more) = Of(n, more)
    BY DEF AfterPage, Ok
  <2>2. CASE answer \in PageReplies
    <3>1. PICK n \in Listings : answer = AfterPage(n, OnPage(n) = query.limit)
      BY <2>2 DEF PageReplies
    <3> DEFINE more == OnPage(n) = query.limit
    <3>2. answer = Of(n, more)
      BY <2>1, <3>1
    <3>3. more \in BOOLEAN /\ (more <=> OnPage(n) = query.limit)
      OBVIOUS
    <3> HIDE DEF more
    <3> QED
      BY <3>2, <3>3
  <2>3. CASE answer \in TotalReplies
    <3>1. PICK n \in Listings : answer = AfterPage(n, query.page * query.limit < n)
      BY <2>3 DEF TotalReplies
    <3> DEFINE more == query.page * query.limit < n
    <3>2. answer = Of(n, more)
      BY <2>1, <3>1
    <3>3. more \in BOOLEAN /\ (more <=> query.page * query.limit < n)
      OBVIOUS
    <3> HIDE DEF more
    <3> QED
      BY <3>2, <3>3
  <2> QED
    BY <2>2, <2>3
<1>3. n \in Nat
  BY <1>1 DEF Listings
<1>4. seen(n) \in Nat
  BY <1>1, <1>3, OnPageIs
<1>5. answer \in Answers /\ answer.returned = answer.served
      /\ answer.returned = seen(n) /\ answer.listed = n /\ answer.more = more
  <2> HIDE DEF seen
  <2> QED
    BY <1>2, <1>3, <1>4 DEF Answers
<1>6. Result[tool] \notin {"file", "log", "archive"}
  BY DEF Paged
<1>7. CASE ~PagesAsAsked
  BY <1>5, <1>6, <1>7 DEF ReplyRight, AsksForAll
<1>8. CASE PagesAsAsked
  <2>1. before \in Nat /\ query.page * query.limit = before + query.limit
    BY <1>1, PageProduct
  <2>2. reply.returned = before /\ before <= reply.listed
    BY <1>8 DEF PagesCounted
  <2>3. before <= n
    <3>1. CASE query.page = 1
      <4>1. before = 0
        BY <1>1, <3>1
      <4> QED
        BY <1>3, <4>1
    <3>2. CASE query.page # 1
      BY <2>2, <3>2 DEF Listings
    <3> QED
      BY <3>1, <3>2
  <2>4. OnPage(n) = IF n <= before THEN 0
                    ELSE IF n - before < query.limit THEN n - before ELSE query.limit
    BY <1>1, <1>3, <1>8, OnPageIs DEF PagesAsAsked
  <2>5. \/ more <=> OnPage(n) = query.limit
        \/ more <=> before + query.limit < n
    BY <1>2, <2>1
  <2> HIDE DEF before
  <2>6. OnPage(n) = query.limit <=> before + query.limit <= n
    BY <1>1, <1>3, <2>1, <2>3, <2>4
  <2>7. before + query.limit <= n => seen(n) = before + query.limit
    BY <2>2, <2>6
  <2>8. ~(before + query.limit < n) => seen(n) = n
    BY <1>1, <1>3, <2>1, <2>2, <2>3, <2>4
  <2> HIDE DEF seen
  <2>9. more => before + query.limit <= n
    BY <1>1, <1>3, <2>1, <2>5, <2>6
  <2>10. ~more => seen(n) = n
    BY <1>1, <1>3, <2>1, <2>5, <2>6, <2>8
  <2>11. PagesAsAsked /\ answer.more => /\ answer.returned = before + query.limit
                                        /\ answer.returned <= answer.listed
    BY <1>5, <2>7, <2>9
  <2> QED
    BY <1>5, <1>6, <2>10, <2>11 DEF ReplyRight, before
<1> QED
  BY <1>7, <1>8

\* An archive: no flag unless every file was read whole.
LEMMA UnpackRight ==
  ASSUME NEW n \in Nat, NEW sizes \in [1..n -> Nat], ~Paged(tool)
  PROVE  ReplyRight(Unpack(sizes))
<1> DEFINE count == Min({n, FilesMax})
           full  == {i \in 1..count : SumTo(sizes)[i] >= LogMax}
           used  == UsedFiles(sizes)
           sum   == SumTo(sizes)
<1>1. Len(sizes) = n
  BY FunctionIsSequence
<1>2. FilesMax \in Nat /\ LogMax \in Nat
  BY Bounds
<1>3. count \in 0..n /\ (n <= FilesMax => count = n)
  BY <1>2, MinOfTwo
<1>4. sum \in [0..n -> Nat]
  BY SumToIsSum
<1>5. used = Min({count} \cup full)
  BY <1>1 DEF UsedFiles
<1>6. used \in {count} \cup full
  <2>1. {count} \cup full \in SUBSET Nat /\ {count} \cup full # {}
    BY <1>3
  <2> HIDE DEF count, full
  <2> QED
    BY <2>1, <1>5, MinIsLeast
<1>7. used \in 0..n /\ (used # count => sum[used] >= LogMax /\ used < n)
  <2>1. CASE used = count
    BY <2>1, <1>3
  <2>2. CASE used # count
    <3>1. used \in 1..count /\ sum[used] >= LogMax
      BY <2>2, <1>6
    <3> HIDE DEF used, sum, count
    <3> QED
      BY <2>2, <3>1, <1>3
  <2> QED
    BY <2>1, <2>2
<1>8. sum[used] \in Nat /\ sum[n] \in Nat
  BY <1>4, <1>7
<1> DEFINE flag == CutShort(sizes, used) \/ n > FilesMax
           kept == Min({sum[used], LogMax})
<1>9. Unpack(sizes) = Ok(sum[n], sum[n], kept, flag)
  BY <1>1 DEF Unpack
<1>10. flag \in BOOLEAN
       /\ (flag <=> (sum[used] >= LogMax /\ (n > used \/ sum[used] > LogMax)) \/ n > FilesMax)
  BY <1>1 DEF CutShort
<1> HIDE DEF used, sum, count
<1>11. kept = IF sum[used] <= LogMax THEN sum[used] ELSE LogMax
  BY <1>2, <1>8, MinOfTwo
<1> HIDE DEF flag, kept
<1>12. ~flag => used = n /\ sum[used] <= LogMax
  BY <1>2, <1>3, <1>7, <1>8, <1>10
<1>13. kept \in Nat /\ kept <= LogMax
  BY <1>2, <1>8, <1>11
<1>14. Unpack(sizes) = [result |-> "ok", listed |-> sum[n], served |-> sum[n], returned |-> kept,
                        more |-> flag]
  BY <1>9 DEF Ok
<1>15. Unpack(sizes) \in Answers
  BY <1>8, <1>10, <1>13, <1>14 DEF Answers
<1>16. ~flag => kept = sum[n]
  BY <1>11, <1>12
<1> QED
  BY <1>13, <1>14, <1>15, <1>16 DEF ReplyRight, PagesAsAsked

LEMMA RepliesRight ==
  ASSUME TypeOK, PagesCounted, reply.result = "none", NEW answer \in Replies
  PROVE  ReplyRight(answer)
<1>1. {ListMax, LogMax, FileMax, FilesMax} \subseteq Nat /\ body.got \in Nat
  BY Bounds DEF TypeOK
<1>2. ASSUME NEW n \in Nat, NEW k \in Nat, NEW kept \in Nat, NEW more \in BOOLEAN,
             answer = Ok(n, k, kept, more), ~Paged(tool),
             ~more => kept = k, Result[tool] = "file" => k = n,
             Result[tool] # "archive", Result[tool] = "log" => kept <= LogMax
      PROVE  ReplyRight(answer)
  <2>1. answer = [result |-> "ok", listed |-> n, served |-> k, returned |-> kept, more |-> more]
    BY <1>2 DEF Ok
  <2>2. answer \in Answers
    BY <2>1 DEF Answers
  <2> QED
    BY <1>2, <2>1, <2>2 DEF ReplyRight, PagesAsAsked, AsksForAll
<1>3. CASE Result[tool] \in {"page", "total"}
  BY <1>3, PageRepliesRight DEF Replies, Paged
<1>4. CASE Result[tool] = "list"
  <2>1. PICK n \in 0..(ListMax + 1) : \E k \in 0..n : answer = Ok(n, k, Min({k, ListMax}), k > ListMax)
    BY <1>4 DEF Replies, ListReplies
  <2>2. PICK k \in 0..n : answer = Ok(n, k, Min({k, ListMax}), k > ListMax)
    BY <2>1
  <2> DEFINE more == k > ListMax
             kept == Min({k, ListMax})
  <2>3. n \in Nat /\ k \in Nat /\ kept = IF k <= ListMax THEN k ELSE ListMax
    BY <1>1, MinOfTwo
  <2>4. answer = Ok(n, k, kept, more) /\ more \in BOOLEAN /\ (more <=> k > ListMax)
    BY <2>2
  <2> HIDE DEF more, kept
  <2>5. kept \in Nat /\ (~more => kept = k)
    BY <1>1, <2>3, <2>4
  <2> QED
    BY <1>2, <1>4, <2>3, <2>4, <2>5 DEF Paged
<1>5. CASE Result[tool] = "log"
  <2> DEFINE k == body.got
             kept == Min({k, LogMax})
             more == k > LogMax
  <2>1. PICK n \in IF status = 206 THEN k..(k + 1) ELSE {k} : answer = Ok(n, k, kept, more)
    BY <1>5 DEF Replies, LogReplies
  <2>2. kept = IF k <= LogMax THEN k ELSE LogMax
    BY <1>1, MinOfTwo
  <2>3. more \in BOOLEAN /\ (more <=> k > LogMax) /\ k \in Nat
    BY <1>1
  <2> HIDE DEF k, kept, more
  <2>4. kept \in Nat /\ kept <= LogMax /\ (~more => kept = k)
    BY <1>1, <2>2, <2>3
  <2>5. n \in Nat
    BY <2>3
  <2> QED
    BY <1>2, <1>5, <2>1, <2>3, <2>4, <2>5 DEF Paged
<1>6. CASE Result[tool] = "file"
  <2>1. PICK n \in 0..Min({body.got, FileMax}) : answer = Ok(n, n, n, FALSE)
    BY <1>6 DEF Replies, FileReplies
  <2>2. n \in Nat
    BY <1>1, MinOfTwo
  <2> QED
    BY <1>2, <1>6, <2>1, <2>2 DEF Paged
<1>7. CASE Result[tool] = "archive"
  <2>1. PICK sizes \in Archives : answer = Unpack(sizes)
    BY <1>7 DEF Replies, ArchiveReplies
  <2>2. PICK n \in 0..(FilesMax + 1) : sizes \in [1..n -> 0..(LogMax + 1)]
    BY DEF Archives
  <2>3. n \in Nat /\ sizes \in [1..n -> Nat] /\ ~Paged(tool)
    BY <1>1, <1>7, <2>2 DEF Paged
  <2> QED
    BY <2>1, <2>3, UnpackRight
<1>8. CASE Result[tool] \notin {"page", "total", "list", "log", "file", "archive"}
  <2>1. answer = Ok(0, 0, 0, FALSE)
    BY <1>8 DEF Replies
  <2> QED
    BY <1>2, <1>8, <2>1 DEF Paged
<1> QED
  BY <1>3, <1>4, <1>5, <1>6, <1>7, <1>8

----------------------------------------------------------------------------
(* Each step keeps what has been read and returned within its bounds.      *)

Body == [wire : Nat, got : Nat, coded : BOOLEAN]

\* A body that is within the bound, but for one byte or one chunk.
Held(b) == b \in Body /\ b.got <= Bound["response"] + (IF b.coded THEN 1 ELSE ChunkMax)

LEMMA BoundsAre ==
  /\ Bound["response"] \in Nat /\ ChunkMax \in Nat /\ Retries \in Nat /\ LogMax \in Nat
  /\ PageMax \in Nat \ {0} /\ LimitMax \in Nat \ {0}
BY Bounds

LEMMA StepNumbers ==
  ASSUME NEW t \in Caller, NEW i \in DOMAIN Plan[t]
  PROVE  i \in 1..Len(Plan[t])
<1>1. Plan[t] \in Seq([method : Safe \cup {"POST", "PATCH", "DELETE"},
                       expect : SUBSET {200, 201, 204, 206, 403, 404},
                       bound : DOMAIN Bound, further : SUBSET Status])
  BY ZenonT(40), Plans
<1> QED
  BY <1>1, LenProperties

LEMMA HeldBodies == Held(Nothing) /\ (ClientInv => Held(body))
BY BoundsAre DEF Held, Body, Nothing, ClientInv, TypeOK, BodyBounded

\* A step that goes on with the same page.
LEMMA GoesOn ==
  ASSUME ClientInv, RequestMatchesStage', UNCHANGED <<tool, query, reply>>, pc' # "done",
         attempt' \in 0..Retries, status' \in Status \cup {0},
         sent' \subseteq Nat \X Nat, Held(body'), RoomLeft'
  PROVE  ClientInv'
<1>1. TypeOK'
  <2>1. tool' \in Caller /\ step' \in 1..Len(Plan[tool'])
    BY StepNumbers DEF RequestMatchesStage
  <2>2. pc' \in {"called", "ready", "waiting", "streaming", "received", "backoff", "done"}
        /\ pending' \subseteq sent' /\ effect' \subseteq sent'
    BY DEF RequestMatchesStage
  <2>3. body' \in [wire : Nat, got : Nat, coded : BOOLEAN]
    BY DEF Held, Body
  <2> QED
    BY <2>1, <2>2, <2>3 DEF ClientInv, TypeOK
<1>2. BodyBounded'
  BY DEF ClientInv, BodyBounded, Held
<1>3. PagesCounted'
  BY DEF ClientInv, PagesCounted, PagesAsAsked, Paged
<1> QED
  BY <1>1, <1>2, <1>3 DEF ClientInv, CutsAreFlagged

\* A call that ends in an error keeps what was returned of the pages before.
LEMMA Erring ==
  ASSUME ClientInv, RequestMatchesStage, RequestMatchesStage', pc # "done", UNCHANGED forgejo,
         NEW kind \in {"invalid", "notfound", "unavailable"}, Error(kind), Held(body')
  PROVE  ClientInv'
<1>1. reply' = [result |-> kind, listed |-> reply.listed, served |-> reply.served,
                returned |-> reply.returned, more |-> reply.more]
      /\ pc' = "done" /\ status' = 0 /\ UNCHANGED <<tool, step, attempt, query>>
  BY DEF Error, End, Told
<1>2. reply.result = "none"
  BY DEF RequestMatchesStage
<1>3. TypeOK'
  BY <1>1 DEF ClientInv, TypeOK, RequestMatchesStage, Held, Body, forgejo
<1>4. BodyBounded' /\ PagesCounted' /\ RoomLeft' /\ CutsAreFlagged'
  BY <1>1, <1>2 DEF ClientInv, BodyBounded, PagesCounted, PagesAsAsked, Paged, RoomLeft, Held,
                    CutsAreFlagged
<1> QED
  BY <1>3, <1>4 DEF ClientInv

\* Another attempt, if one is left, or the end.
LEMMA Retrying ==
  ASSUME ClientInv, RequestMatchesStage, RequestMatchesStage', UNCHANGED forgejo,
         pc \in {"ready", "waiting", "streaming"}, RetryOrGiveUp, Held(body')
  PROVE  ClientInv'
<1>1. CASE attempt < RetriesFor
  <2>1. attempt < Retries
    BY <1>1, BoundsAre DEF RetriesFor, ClientInv, TypeOK
  <2>2. pc' = "backoff" /\ UNCHANGED <<tool, step, attempt, status, query, reply>>
    BY <1>1 DEF RetryOrGiveUp
  <2>3. RoomLeft'
    BY <2>1, <2>2 DEF ClientInv, RoomLeft, PageAccepted
  <2> QED
    BY <2>2, <2>3, GoesOn DEF ClientInv, TypeOK, forgejo
<1>2. CASE ~(attempt < RetriesFor)
  BY <1>2, Erring DEF RetryOrGiveUp
<1> QED
  BY <1>1, <1>2

LEMMA MovingOn ==
  ASSUME ClientInv, RequestMatchesStage, RequestMatchesStage',
         AcceptArguments \/ Send \/ BackOff \/ Wake \/ NextRequest \/ FinishBody
  PROVE  ClientInv'
<1>1. Held(Nothing) /\ Held(body)
  BY HeldBodies
<1>2. TypeOK /\ RoomLeft
  BY DEF ClientInv
<1>3. CASE AcceptArguments
  <2>1. RoomLeft'
    BY <1>3, <1>2 DEF AcceptArguments, RoomLeft, PageAccepted
  <2> QED
    BY <1>1, <1>2, <1>3, <2>1, GoesOn DEF AcceptArguments, TypeOK, forgejo
<1>4. CASE Send
  <2>1. RoomLeft'
    BY <1>4, <1>2 DEF Send, RoomLeft, PageAccepted
  <2>2. step \in Nat /\ attempt \in Nat
    BY <1>2 DEF TypeOK
  <2>3. sent' \subseteq Nat \X Nat
    BY <1>2, <1>4, <2>2 DEF Send, TypeOK
  <2> QED
    BY <1>1, <1>2, <1>4, <2>1, <2>3, GoesOn DEF Send, TypeOK
<1>5. CASE BackOff
  <2>1. attempt < Retries
    BY <1>2, <1>5, BoundsAre DEF BackOff, Transient, RetriesFor, TypeOK
  <2>2. RoomLeft'
    BY <1>5, <1>2, <2>1 DEF BackOff, RoomLeft, PageAccepted
  <2> QED
    BY <1>1, <1>2, <1>5, <2>2, GoesOn DEF BackOff, TypeOK, forgejo
<1>6. CASE Wake
  <2>1. attempt' \in 0..Retries
    BY <1>2, <1>6, BoundsAre DEF Wake, RoomLeft, TypeOK
  <2>2. RoomLeft'
    BY <1>6, <1>2 DEF Wake, RoomLeft, PageAccepted
  <2> QED
    BY <1>1, <1>2, <1>6, <2>1, <2>2, GoesOn DEF Wake, TypeOK, forgejo
<1>7. CASE NextRequest
  <2>1. RoomLeft'
    BY <1>7, <1>2 DEF NextRequest, RoomLeft, PageAccepted
  <2>2. attempt' \in 0..Retries
    BY <1>7, BoundsAre DEF NextRequest
  <2> QED
    BY <1>1, <1>2, <1>7, <2>1, <2>2, GoesOn DEF NextRequest, TypeOK, forgejo
<1>8. CASE FinishBody
  <2>1. RoomLeft'
    BY <1>8, <1>2 DEF FinishBody, RoomLeft, PageAccepted
  <2> QED
    BY <1>1, <1>2, <1>8, <2>1, GoesOn DEF FinishBody, TypeOK, forgejo
<1> QED
  BY <1>3, <1>4, <1>5, <1>6, <1>7, <1>8

LEMMA Answering ==
  ASSUME ClientInv, RequestMatchesStage, RequestMatchesStage', NEW s \in Status, Respond(s)
  PROVE  ClientInv'
<1>1. body' \in Body /\ body'.got = 0
  <2>1. body' \in [wire : {0}, got : {0}, coded : BOOLEAN]
    <3>1. (IF s = 204 THEN {FALSE} ELSE BOOLEAN) \subseteq BOOLEAN
      OBVIOUS
    <3> QED
      BY <3>1 DEF Respond
  <2> QED
    BY <2>1 DEF Body
<1>2. Held(body')
  BY <1>1, BoundsAre DEF Held
<1>3. RoomLeft'
  BY <1>1, BoundsAre DEF Respond, ClientInv, RoomLeft, PageAccepted
<1> QED
  BY <1>2, <1>3, GoesOn DEF Respond, ClientInv, TypeOK

\* A chunk is decoded to one byte more than is left, or is what it is.
LEMMA ChunkHeld ==
  ASSUME ClientInv, RequestMatchesStage, RequestMatchesStage', ReadChunk
  PROVE  ClientInv'
<1>0. PICK n \in 1..ChunkMax : \E d \in Decoded(n) :
        /\ body' = [body EXCEPT !.wire = Received(n), !.got = @ + d]
        /\ IF Received(n) > Bound["response"] \/ body.got + d > Bound["response"]
           THEN Error("unavailable")
           ELSE UNCHANGED <<tool, pc, step, attempt, status, query, reply>>
  BY DEF ReadChunk
<1>1. PICK d \in Decoded(n) :
        /\ body' = [body EXCEPT !.wire = Received(n), !.got = @ + d]
        /\ IF Received(n) > Bound["response"] \/ body.got + d > Bound["response"]
           THEN Error("unavailable")
           ELSE UNCHANGED <<tool, pc, step, attempt, status, query, reply>>
  BY <1>0
<1>2. body \in Body /\ body.got <= Bound["response"] /\ pc = "streaming" /\ UNCHANGED forgejo
  BY DEF ReadChunk, ClientInv, TypeOK, RoomLeft, Body
<1>3. body.wire \in Nat /\ body.got \in Nat /\ body.coded \in BOOLEAN /\ n \in Nat
      /\ Bound["response"] \in Nat /\ ChunkMax \in Nat
  BY <1>2, BoundsAre DEF Body
<1>4. d \in Nat /\ d <= (IF body.coded THEN Bound["response"] - body.got + 1 ELSE ChunkMax)
  BY <1>2, <1>3 DEF Decoded
<1>5. body' = [wire |-> body.wire + n, got |-> body.got + d, coded |-> body.coded]
  BY <1>1, <1>2 DEF Received, Body
<1>6. Held(body') /\ body'.got = body.got + d
  BY <1>2, <1>3, <1>4, <1>5 DEF Held, Body
<1>7. CASE Error("unavailable")
  BY <1>2, <1>6, <1>7, Erring
<1>8. CASE /\ ~(Received(n) > Bound["response"] \/ body.got + d > Bound["response"])
           /\ UNCHANGED <<tool, pc, step, attempt, status, query, reply>>
  <2>1. body'.got <= Bound["response"]
    BY <1>3, <1>4, <1>6, <1>8
  <2>2. RoomLeft'
    BY <1>2, <1>8, <2>1 DEF ClientInv, RoomLeft, PageAccepted
  <2> QED
    BY <1>2, <1>6, <1>8, <2>2, GoesOn DEF ClientInv, TypeOK, forgejo
<1> QED
  BY <1>1, <1>7, <1>8

LEMMA SucceedingRight ==
  ASSUME ClientInv, RequestMatchesStage, RequestMatchesStage', Succeed
  PROVE  ClientInv'
<1>1. PICK answer \in Replies : End(answer)
  BY DEF Succeed
<1>2. reply.result = "none" /\ pc = "received" /\ body' = Nothing /\ UNCHANGED forgejo
  BY DEF Succeed, RequestMatchesStage
<1>3. ReplyRight(answer)
  BY <1>2, RepliesRight DEF ClientInv
<1>4. reply' = answer /\ pc' = "done" /\ status' = 0 /\ UNCHANGED <<tool, step, attempt, query>>
  BY <1>1 DEF End
<1>5. Held(body')
  BY <1>2, HeldBodies
<1>6. TypeOK'
  <2>1. reply' \in [result : {"none", "ok", "invalid", "notfound", "unavailable"},
                    listed : Nat, served : Nat, returned : Nat, more : BOOLEAN]
    BY <1>3, <1>4 DEF ReplyRight, Answers
  <2>2. body' \in [wire : Nat, got : Nat, coded : BOOLEAN]
    BY <1>5 DEF Held, Body
  <2> QED
    BY <1>2, <1>4, <2>1, <2>2 DEF ClientInv, TypeOK, forgejo
<1>7. BodyBounded' /\ CutsAreFlagged'
  BY <1>3, <1>4, <1>5 DEF ReplyRight, Held, BodyBounded, CutsAreFlagged, AsksForAll, PagesAsAsked,
                          Paged
<1>8. PagesCounted'
  BY <1>3, <1>4 DEF ReplyRight, Answers, PagesCounted, PagesAsAsked, Paged
<1>9. RoomLeft'
  BY <1>2, <1>4 DEF ClientInv, RoomLeft, PageAccepted
<1> QED
  BY <1>6, <1>7, <1>8, <1>9 DEF ClientInv

LEMMA FollowingRight ==
  ASSUME ClientInv, RequestMatchesStage, RequestMatchesStage', FollowPage
  PROVE  ClientInv'
<1>1. /\ query \in [page : 1..PageMax + 1, limit : 1..LimitMax]
      /\ reply \in [result : {"none", "ok", "invalid", "notfound", "unavailable"},
                    listed : Nat, served : Nat, returned : Nat, more : BOOLEAN]
  BY DEF ClientInv, TypeOK
<1>2. query.page \in Nat \ {0} /\ query.limit \in Nat \ {0} /\ query.page <= PageMax
  BY <1>1, BoundsAre DEF ClientInv, RoomLeft, PageAccepted, FollowPage
<1>3. query' = [page |-> query.page + 1, limit |-> query.limit]
  BY <1>1 DEF FollowPage
<1>4. query' \in [page : 1..PageMax + 1, limit : 1..LimitMax]
  BY <1>1, <1>2, <1>3, BoundsAre
<1>5. (query'.page - 1) * query'.limit = (query.page - 1) * query.limit + query.limit
  <2>1. query'.page - 1 = query.page /\ query'.limit = query.limit
    BY <1>2, <1>3
  <2> QED
    BY <1>2, <2>1, PageProduct
<1>6. reply' = [result |-> "none", listed |-> reply.listed, served |-> reply.served,
                returned |-> reply.returned, more |-> reply.more]
      /\ pc' = "called" /\ attempt' = 0 /\ status' = 0 /\ body' = Nothing
      /\ UNCHANGED <<tool, forgejo>>
  BY DEF FollowPage, Told
<1>7. Held(body')
  BY <1>6, HeldBodies
<1>8. TypeOK'
  <2>1. tool' \in Caller /\ step' \in 1..Len(Plan[tool'])
    BY StepNumbers DEF RequestMatchesStage
  <2>2. reply' \in [result : {"none", "ok", "invalid", "notfound", "unavailable"},
                    listed : Nat, served : Nat, returned : Nat, more : BOOLEAN]
    BY <1>1, <1>6
  <2>3. body' \in [wire : Nat, got : Nat, coded : BOOLEAN] /\ attempt' \in 0..Retries
    BY <1>6, <1>7, BoundsAre DEF Held, Body
  <2> QED
    BY <1>4, <1>6, <2>1, <2>2, <2>3 DEF ClientInv, TypeOK, forgejo
<1>9. PagesCounted'
  <2> SUFFICES ASSUME PagesAsAsked' PROVE PagesCounted'
    BY DEF PagesCounted
  <2>1. PagesAsAsked
    BY <1>3, <1>6 DEF PagesAsAsked, Paged
  <2>2. reply.returned = (query.page - 1) * query.limit + query.limit
        /\ reply.returned <= reply.listed
    BY <2>1 DEF ClientInv, PagesCounted, FollowPage
  <2>3. reply'.returned = (query'.page - 1) * query'.limit /\ reply'.returned <= reply'.listed
        /\ reply'.result = "none"
    BY <1>5, <1>6, <2>2
  <2> QED
    BY <2>3 DEF PagesCounted
<1>10. BodyBounded' /\ CutsAreFlagged' /\ RoomLeft'
  BY <1>6, <1>7 DEF ClientInv, Held, BodyBounded, CutsAreFlagged, RoomLeft
<1> QED
  BY <1>8, <1>9, <1>10 DEF ClientInv

----------------------------------------------------------------------------

LEMMA StartsRight == Init => ClientInv
<1> SUFFICES ASSUME Init PROVE ClientInv
  OBVIOUS
<1>1. 1 \in DOMAIN Plan[tool]
  BY Plans DEF Init
<1>2. 1 \in 1..Len(Plan[tool])
  BY <1>1, StepNumbers DEF Init
<1>3. query \in [page : 1..PageMax + 1, limit : 1..LimitMax] /\ query.page = 1
  BY BoundsAre DEF Init
<1>4. (query.page - 1) * query.limit = 0
  <2>1. query.limit \in Nat /\ query.page - 1 = 0
    BY <1>3, BoundsAre
  <2>2. \A l \in Nat : 0 * l = 0
    OBVIOUS
  <2> QED
    BY <2>1, <2>2
<1>5. Held(body) /\ Bound["response"] \in Nat /\ Retries \in Nat /\ LogMax \in Nat
  BY HeldBodies, BoundsAre DEF Init
<1>6. TypeOK
  BY <1>2, <1>3, <1>5 DEF Init, TypeOK, Silent, Held, Body
<1>7. PagesCounted
  BY <1>4 DEF Init, Silent, PagesCounted
<1> QED
  BY <1>5, <1>6, <1>7
  DEF Init, Silent, Held, ClientInv, CutsAreFlagged, BodyBounded, RoomLeft

LEMMA StaysRight ==
  ClientInv /\ RequestMatchesStage /\ RequestMatchesStage' /\ [Next]_vars => ClientInv'
<1> SUFFICES ASSUME ClientInv, RequestMatchesStage, RequestMatchesStage', [Next]_vars
             PROVE  ClientInv'
  OBVIOUS
<1>1. Held(Nothing) /\ Held(body)
  BY HeldBodies
<1>2. CASE RefuseArguments
  <2>1. pc # "done" /\ UNCHANGED forgejo /\ body' = body /\ Error("invalid")
    BY <1>2 DEF RefuseArguments
  <2> QED
    BY <1>1, <2>1, Erring
<1>3. CASE AcceptArguments \/ Send \/ BackOff \/ Wake \/ NextRequest \/ FinishBody
  BY <1>3, MovingOn
<1>4. CASE Fail
  <2>1. pc # "done" /\ UNCHANGED forgejo /\ body' = Nothing /\ Error(ErrorOf)
    BY <1>4 DEF Fail
  <2>2. ErrorOf \in {"invalid", "notfound", "unavailable"}
    BY DEF ErrorOf
  <2> QED
    BY <1>1, <2>1, <2>2, Erring
<1>5. CASE Unusable \/ RejectBody \/ FailOtherwise
  <2>1. pc # "done" /\ UNCHANGED forgejo /\ body' = Nothing /\ Error("unavailable")
    BY <1>5 DEF Unusable, RejectBody, FailOtherwise
  <2> QED
    BY <1>1, <2>1, Erring
<1>6. CASE Succeed
  BY <1>6, SucceedingRight
<1>7. CASE FailToConnect \/ LoseConnection
  <2>1. pc \in {"ready", "waiting", "streaming"} /\ UNCHANGED forgejo /\ RetryOrGiveUp
        /\ (body' = body \/ body' = Nothing)
    BY <1>7 DEF FailToConnect, LoseConnection
  <2> QED
    BY <1>1, <2>1, Retrying
<1>8. ASSUME NEW s \in Status, Respond(s) PROVE ClientInv'
  BY <1>8, Answering
<1>9. CASE ReadChunk
  BY <1>9, ChunkHeld
<1>10. CASE FollowPage
  BY <1>10, FollowingRight
<1>11. CASE Land \/ UNCHANGED vars
  <2>1. UNCHANGED <<tool, pc, step, attempt, status, body, sent, query, reply>>
    BY <1>11 DEF Land, vars, forgejo
  <2>2. TypeOK'
    BY <2>1 DEF ClientInv, TypeOK, RequestMatchesStage
  <2> QED
    BY <2>1, <2>2 DEF ClientInv, CutsAreFlagged, AsksForAll, BodyBounded, PagesCounted,
                      PagesAsAsked, Paged, RoomLeft, PageAccepted
<1> QED
  BY <1>2, <1>3, <1>4, <1>5, <1>6, <1>7, <1>8, <1>9, <1>10, <1>11 DEF Next, Client, Connection

\* What the pages, the bodies and the attempts of a call are, in every reachable state.
THEOREM ClientInvariance == Spec => []IInv
  BY StartsRight, StaysRight, RequestAlwaysMatchesStage, PTL DEF Spec, IInv

\* Every variable stays in its type: the attempts within Retries, the page within what is asked.
THEOREM ClientTyped == Spec => []TypeOK
<1>1. IInv => TypeOK
  BY DEF IInv, ClientInv
<1> QED
  BY <1>1, ClientInvariance, PTL

\* Of what Forgejo sent, nothing is left out unless has_more, truncated or files_truncated says
\* so; and where the client asks for everything (the pages read one after the other, with a
\* limit that Forgejo keeps to, a file, an archive), what it returned is all that Forgejo has.
\* Of the lists that Forgejo was asked for without a page this says nothing.
THEOREM CutsAreAlwaysFlagged == Spec => []CutsAreFlagged
<1>1. IInv => CutsAreFlagged
  BY DEF IInv, ClientInv
<1> QED
  BY <1>1, ClientInvariance, PTL

\* However a body is compressed and cut into chunks, it is held within its bound.
THEOREM BodiesBounded == Spec => []BodyBounded
<1>1. IInv => BodyBounded
  BY DEF IInv, ClientInv
<1> QED
  BY <1>1, ClientInvariance, PTL

----------------------------------------------------------------------------
(* The fifty tools: those that are advertised as read-only and what they call. *)

ReadingTools == {
  "forgejo_get_current_user", "forgejo_list_repositories", "forgejo_get_repository",
  "forgejo_list_branches", "forgejo_list_commits", "forgejo_get_commit", "forgejo_compare_refs",
  "forgejo_get_git_tree", "forgejo_list_labels", "forgejo_list_milestones",
  "forgejo_list_issues", "forgejo_get_issue", "forgejo_list_issue_comments",
  "forgejo_list_pull_requests", "forgejo_get_pull_request", "forgejo_list_pull_request_commits",
  "forgejo_get_pull_request_diff", "forgejo_get_file_content",
  "forgejo_list_repository_contents", "forgejo_get_pull_request_files",
  "forgejo_list_pull_request_reviews", "forgejo_get_pull_request_review",
  "forgejo_get_pull_request_merge_status", "forgejo_get_commit_status",
  "forgejo_list_action_runs", "forgejo_get_action_run", "forgejo_list_action_run_jobs",
  "forgejo_get_action_job_log", "forgejo_get_action_run_logs",
  "forgejo_list_action_run_artifacts"}

ReadingOperations == {
  "get_current_user", "list_repositories", "get_repository", "list_branches", "list_commits",
  "get_commit", "compare_refs", "get_git_tree", "list_labels", "list_milestones", "list_issues",
  "get_issue", "list_issue_comments", "list_pull_requests", "get_pull_request",
  "list_pull_request_commits", "get_pull_request_diff", "get_file_content",
  "list_repository_contents", "list_pull_request_files", "list_pull_request_reviews",
  "get_pull_request_review", "get_pull_request_merge_status", "get_commit_status",
  "list_action_runs", "get_action_run", "list_action_run_jobs", "get_action_job_log",
  "get_action_run_logs", "list_action_run_artifacts", "get_version"}

LEMMA AdvertisedAre ==
  ASSUME NEW c \in ReadOnly
  PROVE  c \in ReadingTools \cup {"check_instance"}
<1> SUFFICES ASSUME NEW e \in TOOL_REGISTRY, e[2] # "write" PROVE e[1] \in ReadingTools
  BY DEF ReadOnly
<1>1. CASE e \in RepositoryTools
  BY <1>1 DEF RepositoryTools, ReadingTools
<1>2. CASE e \in HistoryTools
  BY <1>2 DEF HistoryTools, ReadingTools
<1>3. CASE e \in DiscussionTools
  BY <1>3 DEF DiscussionTools, ReadingTools
<1>4. CASE e \in ContentTools
  BY <1>4 DEF ContentTools, ReadingTools
<1>5. CASE e \in ChangeTools
  BY <1>5 DEF ChangeTools, ReadingTools
<1>6. CASE e \in ReviewTools
  BY <1>6 DEF ReviewTools, ReadingTools
<1>7. CASE e \in ActionTools
  BY <1>7 DEF ActionTools, ReadingTools
<1>8. CASE e \in ReleaseTools
  BY <1>8 DEF ReleaseTools, ReadingTools
<1> QED
  BY <1>1, <1>2, <1>3, <1>4, <1>5, <1>6, <1>7, <1>8 DEF TOOL_REGISTRY

LEMMA DispatchedToReading ==
  ASSUME NEW e \in Execution, e[1] \in ReadingTools
  PROVE  e[2] \in ReadingOperations
<1>1. CASE e \in ExecuteFirst
  BY <1>1 DEF ExecuteFirst, ReadingTools, ReadingOperations
<1>2. CASE e \in ExecuteSecond
  BY <1>2 DEF ExecuteSecond, ReadingTools, ReadingOperations
<1>3. CASE e \in ExecuteLast
  BY <1>3 DEF ExecuteLast, ReadingTools, ReadingOperations
<1> QED
  BY <1>1, <1>2, <1>3 DEF Execution

LEMMA ReadingIsSafe ==
  ASSUME NEW o \in Operations, o[1] \in ReadingOperations
  PROVE  \A i \in DOMAIN o[2] : o[2][i].method \in Safe
<1>1. \A op, result : Reading(op, result)[1] = op
                      /\ \A i \in DOMAIN Reading(op, result)[2] :
                           Reading(op, result)[2][i].method \in Safe
  BY DEF Reading, GetJson, Request, Safe
<1>2. \A op, request : Writing(op, request)[1] = op
  BY DEF Writing
<1>3. CASE o \in RepositoryRequests
  BY <1>1, <1>2, <1>3 DEF RepositoryRequests, ReadingOperations
<1>4. CASE o \in BranchRequests
  BY <1>1, <1>2, <1>4 DEF BranchRequests, ReadingOperations
<1>5. CASE o \in HistoryRequests
  BY <1>1, <1>2, <1>5 DEF HistoryRequests, ReadingOperations
<1>6. CASE o \in IssueRequests
  BY <1>1, <1>6 DEF IssueRequests
<1>7. CASE o \in PullRequestRequests
  BY <1>1, <1>7 DEF PullRequestRequests
<1>8. CASE o \in ContentRequests
  BY <1>1, <1>2, <1>8 DEF ContentRequests, ReadingOperations, Request, Safe
<1>9. CASE o \in ReviewRequests
  BY <1>1, <1>2, <1>9 DEF ReviewRequests, ReadingOperations
<1>10. CASE o \in MergeRequests
  BY <1>1, <1>2, <1>10 DEF MergeRequests, ReadingOperations, Further, GetJson, Bare, Request, Safe
<1>11. CASE o \in RunRequests
  BY <1>1, <1>11 DEF RunRequests, Bare, Request, Safe
<1>12. CASE o \in RunChangeRequests
  BY <1>1, <1>2, <1>12 DEF RunChangeRequests, ReadingOperations
<1>13. CASE o \in ReleaseRequests
  BY <1>2, <1>13 DEF ReleaseRequests, ReadingOperations
<1>14. CASE o \in ProposalRequests
  BY <1>2, <1>14 DEF ProposalRequests, ReadingOperations
<1>15. CASE o \in VersionRequests \cup UserRequests
  BY <1>15 DEF VersionRequests, UserRequests, Further, Request, Safe
<1> QED
  BY <1>3, <1>4, <1>5, <1>6, <1>7, <1>8, <1>9, <1>10, <1>11, <1>12, <1>13, <1>14, <1>15
  DEF Operations

\* Through the registry, the dispatch and the client's operation: nothing but safe requests.
LEMMA AdvertisedOnlyRead ==
  ASSUME NEW c \in ReadOnly
  PROVE  c \in Callers /\ \A i \in DOMAIN PlanOf[c] : PlanOf[c][i].method \in Safe
<1>1. c \in Callers
  BY DEF ReadOnly, Callers, Tools
<1>2. OperationOf(c) \in ReadingOperations
  <2>1. CASE c = "check_instance"
    BY <2>1 DEF OperationOf, ReadingOperations
  <2>2. CASE c # "check_instance"
    <3>1. c \in ReadingTools
      BY <2>2, AdvertisedAre
    <3>2. \E e \in Execution : e[1] = c
      BY <1>1, <2>2, Dispatched DEF Callers
    <3> DEFINE entry == CHOOSE e \in Execution : e[1] = c
    <3>3. entry \in Execution /\ entry[1] = c
      BY <3>2
    <3>4. OperationOf(c) = entry[2]
      BY <2>2 DEF OperationOf
    <3> HIDE DEF entry
    <3> QED
      BY <3>1, <3>3, <3>4, DispatchedToReading
  <2> QED
    BY <2>1, <2>2
<1>3. \E o \in Operations : o[1] = OperationOf(c)
  BY <1>1, Dispatched
<1> DEFINE operation == CHOOSE o \in Operations : o[1] = OperationOf(c)
<1>4. operation \in Operations /\ operation[1] = OperationOf(c)
  BY <1>3
<1>5. PlanOf[c] = operation[2]
  BY <1>1 DEF PlanOf
<1> HIDE DEF operation
<1> QED
  BY <1>1, <1>2, <1>4, <1>5, ReadingIsSafe

\* With the fifty tools of this program, and any number of retries and any bounds: a tool
\* that list_tools advertises with readOnlyHint never sends a request that changes anything.
THEOREM ReadToolsOnlyReadAlways ==
  ASSUME Plan = PlanOf, Harmless = ReadOnly
  PROVE  Spec => []ReadToolsOnlyRead
<1>1. \A c \in Harmless : ~Mutates(c)
  BY AdvertisedOnlyRead DEF Mutates
<1>2. RequestMatchesStage => ReadToolsOnlyRead
  BY <1>1 DEF RequestMatchesStage, ReadToolsOnlyRead
<1> QED
  BY <1>2, RequestAlwaysMatchesStage, PTL

----------------------------------------------------------------------------
(* What SingleWrite promises, and with it every call of the client. *)

\* At most one request that changes something; "ok" if it took effect, a refusal if it never does.
OnceAndTruly ==
  /\ \E id : sent \subseteq {id}
  /\ pending \subseteq sent /\ effect \subseteq sent
  /\ reply.result = "ok" => effect = sent
  /\ reply.result \in {"invalid", "notfound"} => effect = {} /\ pending = {}

LEMMA TrulyAtFirst == Write!Init => OnceAndTruly
BY DEF Write!Init, OnceAndTruly

LEMMA TrulyAfterwards ==
  ASSUME OnceAndTruly, [Write!Next]_(Write!vars)
  PROVE  OnceAndTruly'
<1> USE DEF OnceAndTruly
<1>1. CASE UNCHANGED Write!vars
  BY <1>1 DEF Write!vars
<1>2. CASE Write!Send
  BY <1>2 DEF Write!Send
<1>3. CASE Write!Land
  BY <1>3 DEF Write!Land
<1>4. CASE Write!TurnDown
  BY <1>4 DEF Write!TurnDown
<1>5. CASE Write!Succeed
  BY <1>5 DEF Write!Succeed, Write!Tell
<1>6. CASE Write!Refuse
  BY <1>6 DEF Write!Refuse, Write!Tell
<1>7. CASE Write!GiveUp
  BY <1>7 DEF Write!GiveUp, Write!Tell
<1>8. CASE Write!Continue
  BY <1>8 DEF Write!Continue
<1> QED
  BY <1>1, <1>2, <1>3, <1>4, <1>5, <1>6, <1>7, <1>8 DEF Write!Next

\* At no time, also long after the call has returned, was more than one changing request
\* sent; what was reported as done has been done, and what was reported as refused is not
\* done and will not be.  This follows from the refinement alone.
THEOREM CallsAreOnceAndTrue == Spec => []OnceAndTruly
<1>1. WritesOnce => []OnceAndTruly
  BY TrulyAtFirst, TrulyAfterwards, PTL DEF WritesOnce, Write!Spec
<1> QED
  BY <1>1, ClientImplementsSingleWrite, PTL

\* A changing request that was sent is the last one of its call.
THEOREM ChangesAreNotRepeated == Spec => [][sent # {} => sent' = sent]_sent
<1>1. [Write!Next]_(Write!vars) => [sent # {} => sent' = sent]_sent
  BY DEF Write!Next, Write!vars, Write!Send, Write!Land, Write!TurnDown, Write!Succeed,
         Write!Refuse, Write!GiveUp, Write!Continue, Write!Tell
<1>2. WritesOnce => [][sent # {} => sent' = sent]_sent
  BY <1>1, PTL DEF WritesOnce, Write!Spec
<1> QED
  BY <1>2, ClientImplementsSingleWrite, PTL
==============================================================================
