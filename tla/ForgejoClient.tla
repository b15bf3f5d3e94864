---------------------------- MODULE ForgejoClient ----------------------------
(***************************************************************************)
(* One tool call at the HTTP client of Forgejo (forgejo/client.py): the    *)
(* check of the arguments, the requests with their retries, the bounded    *)
(* reading of each body, the reply made of it, and the pages a caller      *)
(* reads by following has_more.  Forgejo is the environment: a request it  *)
(* received may take effect at any later time, answered or not, and an     *)
(* answer may hold less than Forgejo has.                                  *)
(***************************************************************************)
EXTENDS Naturals, FiniteSets, FiniteSetsExt, Sequences

CONSTANTS
  Caller,       \* who calls the client
  Plan,         \* the requests of each caller's operation
  Result,       \* what each operation makes of the last body
  Harmless,     \* the callers that are advertised as read-only
  Retries,      \* safe_retry_attempts
  Bound,        \* the bounds on a body, by name; "response" holds for every one
  LogMax, FileMax, FilesMax,   \* MAX_ACTION_LOG_BYTES, MAX_FILE_CONTENT_BYTES, MAX_ACTION_LOG_FILES
  ListMax,      \* the records of a list that are returned
  PageMax, LimitMax,           \* what _validate_page allows
  ServedMax,    \* the records Forgejo puts on a page at most, whatever limit it is sent
  ListedMax,    \* bounds what Forgejo has to list
  ChunkMax      \* bounds one chunk of a body

Safe    == {"GET", "HEAD", "OPTIONS"}
Refused == {401, 403, 404, 409, 422, 429}
Broken  == {500, 502}   \* 502 stands for 503 and 504 too, 500 for every other status
Status  == {200, 201, 204, 206, 302} \cup Refused \cup Broken

\* Operations that send a page and a limit, and say whether there is more.
Paged(c) == Result[c] \in {"page", "total"}

Mutates(c) == \E i \in DOMAIN Plan[c] : Plan[c][i].method \notin Safe

ASSUME Bounds ==
  /\ Retries \in Nat /\ {PageMax, LimitMax, ServedMax} \subseteq Nat \ {0}
  /\ {ListMax, ListedMax, LogMax, FileMax, FilesMax, ChunkMax} \subseteq Nat
  /\ Bound \in [DOMAIN Bound -> Nat] /\ "response" \in DOMAIN Bound

\* Every operation that changes something does so by the one request it makes.
ASSUME Plans ==
  /\ Plan \in [Caller -> Seq([method : Safe \cup {"POST", "PATCH", "DELETE"},
                              expect : SUBSET {200, 201, 204, 206, 403, 404},
                              bound : DOMAIN Bound, further : SUBSET Status])]
  /\ \A c \in Caller : Plan[c] # <<>>
  /\ \A c \in Caller : \A i \in DOMAIN Plan[c] : Plan[c][i].further # {} => i < Len(Plan[c])
  /\ \A c \in Caller : Mutates(c) =>
       /\ Len(Plan[c]) = 1 /\ Plan[c][1].expect \subseteq 200..299 /\ Plan[c][1].further = {}
       /\ ~Paged(c)

VARIABLES
  tool,       \* the caller
  pc,         \* where the call is
  step,       \* the number of its request
  attempt,    \* the attempts made of that request
  status,     \* the status of the answer
  body,       \* what has been read of it: bytes received, bytes decoded, compressed or not
  sent, pending, effect,   \* the requests sent that change something, and what became of them
  query,      \* the page and the limit asked for
  reply       \* the result, what Forgejo has, what it sent of that, what was returned of it
              \* and whether the caller is told that there is more

forgejo == <<sent, pending, effect>>
vars == <<tool, pc, step, attempt, status, body, forgejo, query, reply>>

Nothing == [wire |-> 0, got |-> 0, coded |-> FALSE]
Silent  == [result |-> "none", listed |-> 0, served |-> 0, returned |-> 0, more |-> FALSE]

TypeOK ==
  /\ tool \in Caller
  /\ pc \in {"called", "ready", "waiting", "streaming", "received", "backoff", "done"}
  /\ step \in 1..Len(Plan[tool]) /\ attempt \in 0..Retries
  /\ status \in Status \cup {0}
  /\ body \in [wire : Nat, got : Nat, coded : BOOLEAN]
  /\ sent \subseteq Nat \X Nat /\ pending \subseteq sent /\ effect \subseteq sent
  /\ query \in [page : 1..PageMax + 1, limit : 1..LimitMax]
  /\ reply \in [result : {"none", "ok", "invalid", "notfound", "unavailable"},
                listed : Nat, served : Nat, returned : Nat, more : BOOLEAN]

Init ==
  /\ tool \in Caller
  /\ pc = "called" /\ step = 1 /\ attempt = 0 /\ status = 0 /\ body = Nothing
  /\ sent = {} /\ pending = {} /\ effect = {}
  /\ query \in [page : {1}, limit : IF Paged(tool) THEN 1..LimitMax ELSE {1}]
  /\ reply = Silent

----------------------------------------------------------------------------
(* The end of a call. *)

Current  == Plan[tool][step]
Changing == Current.method \notin Safe

\* A page read before stays counted when a later one fails.
End(answer) ==
  /\ pc' = "done"
  /\ reply' = answer
  /\ status' = 0
  /\ UNCHANGED <<tool, step, attempt, query>>

Told(kind) ==
  [result |-> kind, listed |-> reply.listed, served |-> reply.served,
   returned |-> reply.returned, more |-> reply.more]

Error(kind) == End(Told(kind))

----------------------------------------------------------------------------
(* The arguments. *)

\* _validate_page
PageAccepted == query.page <= PageMax

\* The operation's own checks, before anything is sent.
RefuseArguments ==
  /\ pc = "called"
  /\ Error("invalid")
  /\ UNCHANGED <<body, forgejo>>

AcceptArguments ==
  /\ pc = "called" /\ PageAccepted
  /\ pc' = "ready"
  /\ UNCHANGED <<tool, step, attempt, status, body, forgejo, query, reply>>

----------------------------------------------------------------------------
(* _request *)

\* FAULT: every method is retried.
RetriesForAll == Retries

RetriesFor == IF Current.method \in Safe THEN Retries ELSE 0

\* After a transport error: another attempt, or the end.
RetryOrGiveUp ==
  IF attempt < RetriesFor
  THEN pc' = "backoff" /\ UNCHANGED <<tool, step, attempt, status, query, reply>>
  ELSE Error("unavailable")

\* ConnectError, ConnectTimeout, PoolTimeout: nothing was sent.
FailToConnect ==
  /\ pc = "ready"
  /\ RetryOrGiveUp
  /\ UNCHANGED <<body, forgejo>>

Send ==
  /\ pc = "ready"
  /\ pc' = "waiting"
  /\ sent' = IF Changing THEN sent \cup {<<step, attempt>>} ELSE sent
  /\ pending' = IF Changing THEN pending \cup {<<step, attempt>>} ELSE pending
  /\ UNCHANGED <<tool, step, attempt, status, body, effect, query, reply>>

\* Forgejo carries out a request, however long after it was sent.
Land ==
  /\ \E id \in pending : pending' = pending \ {id} /\ effect' = effect \cup {id}
  /\ UNCHANGED <<tool, pc, step, attempt, status, body, sent, query, reply>>

\* ReadTimeout, RemoteProtocolError: the connection was made.
LoseConnection ==
  /\ pc \in {"waiting", "streaming"}
  /\ RetryOrGiveUp
  /\ body' = Nothing
  /\ UNCHANGED forgejo

\* Any other HTTPError.
FailOtherwise ==
  /\ pc \in {"ready", "waiting", "streaming"}
  /\ Error("unavailable")
  /\ body' = Nothing
  /\ UNCHANGED forgejo

\* Forgejo answers: a success after the effect, a refusal or a redirect instead of it.
Respond(s) ==
  /\ pc = "waiting"
  /\ Changing /\ s < 300 => <<step, attempt>> \in effect
  /\ s \in 300..499 => <<step, attempt>> \notin effect
  /\ pending' = IF s \in 300..499 THEN pending \ {<<step, attempt>>} ELSE pending
  /\ pc' = IF s = 204 THEN "received" ELSE "streaming"
  /\ status' = s
  /\ body' \in [wire : {0}, got : {0}, coded : IF s = 204 THEN {FALSE} ELSE BOOLEAN]
  /\ UNCHANGED <<tool, step, attempt, sent, effect, query, reply>>

----------------------------------------------------------------------------
(* _bounded_response *)

\* FAULT: a compressed chunk is decoded whole.
DecodedWhole(n) == IF body.coded THEN 0..(2 * Bound["response"]) ELSE {n}

\* The decoder is asked for one byte more than is left; an identity chunk is what it is.
Decoded(n) == IF body.coded THEN 0..(Bound["response"] - body.got + 1) ELSE {n}

\* FAULT: each chunk is compared with the bound, instead of their sum.
LastChunk(n) == n

Received(n) == body.wire + n

ReadChunk ==
  /\ pc = "streaming"
  /\ \E n \in 1..ChunkMax : \E d \in Decoded(n) :
       /\ body' = [body EXCEPT !.wire = Received(n), !.got = @ + d]
       /\ IF Received(n) > Bound["response"] \/ body.got + d > Bound["response"]
          THEN Error("unavailable")
          ELSE UNCHANGED <<tool, pc, step, attempt, status, query, reply>>
  /\ UNCHANGED forgejo

\* A declared length beyond the bound, an unknown encoding, bad or truncated compression.
RejectBody ==
  /\ pc = "streaming"
  /\ Error("unavailable")
  /\ body' = Nothing
  /\ UNCHANGED forgejo

FinishBody ==
  /\ pc = "streaming"
  /\ pc' = "received"
  /\ UNCHANGED <<tool, step, attempt, status, body, forgejo, query, reply>>

----------------------------------------------------------------------------
(* The end of _request: another attempt, or an error by the status. *)

\* FAULT: one attempt more than allowed.
TransientOnceMore == status \in {429, 502, 503, 504} /\ attempt <= RetriesFor

Transient == status \in {429, 502, 503, 504} /\ attempt < RetriesFor

BackOff ==
  /\ pc = "received" /\ Transient
  /\ pc' = "backoff" /\ body' = Nothing
  /\ UNCHANGED <<tool, step, attempt, status, forgejo, query, reply>>

Wake ==
  /\ pc = "backoff"
  /\ pc' = "ready" /\ attempt' = attempt + 1 /\ status' = 0
  /\ UNCHANGED <<tool, step, body, forgejo, query, reply>>

\* FAULT: whatever is not expected is taken for a refusal.
ErrorAlwaysRefusal == IF status = 404 THEN "notfound" ELSE "invalid"

ErrorOf ==
  CASE status \in {401, 403, 422} -> "invalid"
    [] status = 404 -> "notfound"
    [] OTHER -> "unavailable"

Expected == status \in Current.expect

Fail ==
  /\ pc = "received" /\ ~Transient /\ ~Expected
  /\ Error(ErrorOf)
  /\ body' = Nothing
  /\ UNCHANGED forgejo

----------------------------------------------------------------------------
(* The reply. *)

Fits == body.got <= Bound[Current.bound]

\* The body is beyond the operation's bound, or not what the operation parses.
Unusable ==
  /\ pc = "received" /\ ~Transient /\ Expected
  /\ Error("unavailable")
  /\ body' = Nothing
  /\ UNCHANGED forgejo

NextRequest ==
  /\ pc = "received" /\ ~Transient /\ Expected /\ Fits
  /\ status \in Current.further
  /\ step' = step + 1
  /\ pc' = "ready" /\ attempt' = 0 /\ status' = 0 /\ body' = Nothing
  /\ UNCHANGED <<tool, forgejo, query, reply>>

Ok(listed, served, returned, more) ==
  [result |-> "ok", listed |-> listed, served |-> served, returned |-> returned, more |-> more]

\* What Forgejo has on the page asked for: its own maximum comes before the limit, and what
\* it lists does not change while the pages are read.
OnPage(listed) ==
  LET size   == Min({query.limit, ServedMax})
      before == (query.page - 1) * size
  IN  Min({size, IF listed > before THEN listed - before ELSE 0})

\* All of a page is returned.
AfterPage(listed, more) ==
  LET seen == reply.returned + OnPage(listed) IN Ok(listed, seen, seen, more)

Listings == IF query.page = 1 THEN 0..ListedMax ELSE {reply.listed}

\* FAULT: a full page is taken for the last one.
PageShortIsMore == {AfterPage(n, OnPage(n) > 0 /\ OnPage(n) < query.limit) : n \in Listings}

\* has_more = len(items) == limit
PageReplies == {AfterPage(n, OnPage(n) = query.limit) : n \in Listings}

\* has_more = page * limit < total_count
TotalReplies == {AfterPage(n, query.page * query.limit < n) : n \in Listings}

\* Lists of an answer are cut, and say so.  No page or limit is sent: where Forgejo has such a
\* list in pages it sends the first, and a total_count beside it changes nothing.
ListReplies ==
  UNION {{Ok(n, k, Min({k, ListMax}), k > ListMax) : k \in 0..n} : n \in 0..(ListMax + 1)}

\* The text of a job's log is cut; a 206 is taken like a 200, a part like the whole.
LogReplies ==
  {Ok(n, body.got, Min({body.got, LogMax}), body.got > LogMax) :
     n \in IF status = 206 THEN body.got..(body.got + 1) ELSE {body.got}}

\* A file that decodes to more than the bound is not returned in part.
FileReplies == {Ok(n, n, n, FALSE) : n \in 0..Min({body.got, FileMax})}

----------------------------------------------------------------------------
(* get_action_run_logs: an archive is the sequence of its files' sizes. *)

Archives == UNION {[1..n -> 0..(LogMax + 1)] : n \in 0..(FilesMax + 1)}

SumTo(sizes) ==
  LET sum[i \in 0..Len(sizes)] == IF i = 0 THEN 0 ELSE sum[i - 1] + sizes[i] IN sum

\* FAULT: only the number of files is looked at.
CutShortUnnoticed(sizes, used) == FALSE

\* When nothing remains: files are left over, or the last one was cut.
CutShort(sizes, used) ==
  SumTo(sizes)[used] >= LogMax
    /\ (Len(sizes) > used \/ SumTo(sizes)[used] > LogMax)

\* The files read: up to FilesMax, until nothing remains of LogMax.
UsedFiles(sizes) ==
  LET count == Min({Len(sizes), FilesMax})
  IN  Min({count} \cup {i \in 1..count : SumTo(sizes)[i] >= LogMax})

Unpack(sizes) ==
  LET used  == UsedFiles(sizes)
      total == SumTo(sizes)[Len(sizes)]
  IN  Ok(total, total, Min({SumTo(sizes)[used], LogMax}),
         CutShort(sizes, used) \/ Len(sizes) > FilesMax)

ArchiveReplies == {Unpack(sizes) : sizes \in Archives}

Replies ==
  CASE Result[tool] = "page"    -> PageReplies
    [] Result[tool] = "total"   -> TotalReplies
    [] Result[tool] = "list"    -> ListReplies
    [] Result[tool] = "log"     -> LogReplies
    [] Result[tool] = "file"    -> FileReplies
    [] Result[tool] = "archive" -> ArchiveReplies
    [] OTHER -> {Ok(0, 0, 0, FALSE)}

Succeed ==
  /\ pc = "received" /\ ~Transient /\ Expected /\ Fits
  /\ status \notin Current.further
  /\ \E answer \in Replies : End(answer)
  /\ body' = Nothing
  /\ UNCHANGED forgejo

----------------------------------------------------------------------------
(* The caller reads the next page. *)

FollowPage ==
  /\ pc = "done" /\ Paged(tool) /\ reply.result = "ok" /\ reply.more
  /\ query' = [query EXCEPT !.page = @ + 1]
  /\ reply' = Told("none")
  /\ pc' = "called" /\ step' = 1 /\ attempt' = 0 /\ status' = 0 /\ body' = Nothing
  /\ UNCHANGED <<tool, forgejo>>

----------------------------------------------------------------------------

Client ==
  \/ RefuseArguments \/ AcceptArguments
  \/ Send \/ BackOff \/ Wake \/ Fail \/ Unusable \/ NextRequest \/ Succeed

\* What the client waits for; each wait has a time-out (LoseConnection).
Connection ==
  \/ FailToConnect \/ LoseConnection \/ FailOtherwise
  \/ \E s \in Status : Respond(s)
  \/ ReadChunk \/ RejectBody \/ FinishBody

Next == Client \/ Connection \/ Land \/ FollowPage

Spec == Init /\ [][Next]_vars

\* The client goes on, and its waits end.  Nothing is assumed of Forgejo.
FairSpec == Spec /\ WF_vars(Client) /\ WF_vars(Connection)

----------------------------------------------------------------------------
(* Safety. *)

\* The fifty tools and their requests: one that list_tools advertises with readOnlyHint
\* sends nothing that changes anything, through the registry, the dispatch and the client.
ReadToolsOnlyRead == tool \in Harmless => sent = {}

Write == INSTANCE SingleWrite WITH result <- reply.result

\* No write is ever repeated, and what the caller is told of it is true, through time-outs,
\* lost answers, bodies that are too large and answers by any status.
WritesOnce == Write!Spec

\* How far a call has come and what became of its request.
RequestMatchesStage ==
  /\ tool \in Caller
  /\ step \in DOMAIN Plan[tool] /\ attempt \in Nat
  /\ pc \in {"called", "ready", "waiting", "streaming", "received", "backoff", "done"}
  /\ reply.result = "none" <=> pc # "done"
  /\ pending \subseteq sent /\ effect \subseteq sent
  /\ sent # {} => Mutates(tool)
  /\ pc \in {"called", "ready", "backoff"} => sent = {}
  /\ pc = "backoff" => ~Mutates(tool)
  /\ pc \in {"waiting", "streaming", "received"} /\ Mutates(tool) => sent = {<<step, attempt>>}
  /\ pc \in {"streaming", "received"} /\ Mutates(tool) =>
       /\ status < 300 => effect = sent
       /\ status \in 300..499 => effect = {} /\ pending = {}

\* Forgejo sends as many records as the limit asks for, as long as it has them.
PagesAsAsked == Paged(tool) /\ query.limit <= ServedMax

\* The operations that ask for everything: all the pages, the one file, the archive.
AsksForAll == PagesAsAsked \/ Result[tool] \in {"file", "archive"}

\* The client drops nothing without a flag (has_more, truncated, files_truncated) of what
\* Forgejo sent; and where it asks for everything, what it returned is all that Forgejo has,
\* through exact fits of pages, of total_count and of the files of an archive.
CutsAreFlagged ==
  pc = "done" /\ reply.result = "ok" /\ ~reply.more =>
    /\ reply.returned = reply.served
    /\ AsksForAll => reply.served = reply.listed

\* However a body is compressed, at most one byte, or one received chunk, beyond the bound
\* is ever held, and the logs returned are within theirs.
BodyBounded ==
  /\ body.got <= Bound["response"] + (IF body.coded THEN 1 ELSE ChunkMax)
  /\ Result[tool] \in {"log", "archive"} => reply.returned <= LogMax

\* What the pages read so far have brought: full ones, until there are no more.
PagesCounted ==
  PagesAsAsked =>
    LET before == (query.page - 1) * query.limit
    IN  IF reply.result # "ok"
        THEN reply.returned = before /\ before <= reply.listed
        ELSE reply.more => reply.returned = before + query.limit
                             /\ before + query.limit <= reply.listed

\* What a stage of the call leaves for the next: another attempt, another page, another chunk.
RoomLeft ==
  /\ pc = "backoff" => attempt < Retries
  /\ pc \notin {"called", "done"} \/ reply.result = "ok" => PageAccepted
  /\ pc = "streaming" => body.got <= Bound["response"]

ClientInv == TypeOK /\ CutsAreFlagged /\ BodyBounded /\ PagesCounted /\ RoomLeft

\* Inductive: where the request of a call is, and what the call has read.
IInv == RequestMatchesStage /\ ClientInv

\* Every call ends, even if Forgejo never stops sending an answer.
CallEnds == pc # "done" ~> pc = "done"
=============================================================================
