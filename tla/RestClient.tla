------------------------------- MODULE RestClient ------------------------------
(***************************************************************************)
(* One call of the REST client: the selectors its caller builds, the       *)
(* request one of the methods of JournalClient and ShardClient makes of    *)
(* them, doFetch (util.ts), what the method makes of the answer, and what  *)
(* the caller does with the Result (result.ts).                            *)
(*                                                                         *)
(* The mux answers: with one message, with a line per message if the RPC   *)
(* is a streamed one, or with a failure.  A failure is `unary` if there    *)
(* was no stream yet to fail, `stream` if the stream failed, and `other`   *)
(* if something on the way answered that does not speak JSON.  A server    *)
(* that cannot do what it was asked may also say so in the status of a     *)
(* message, which is not a failure to HTTP.                                *)
(***************************************************************************)
EXTENDS Naturals, Sequences, Result, Selector

CONSTANTS Item,      \* what a list, a stat or a read is about
          MaxItems,  \* in a message
          Status,    \* of a failure
          Refused,   \* statuses of a message, other than OK
          Code,      \* of a shard's replica
          NotJSON,
          Derived,   \* what callbacks of the caller return, undefined apart
          Value,     \* of labels
          MaxLabels, \* in the selectors of one call
          Journal    \* names of journals that a prefix may select

Methods  == {"journals.list", "journals.read", "shards.list", "shards.stat"}
Streamed == {"journals.list", "journals.read"}
Lists    == {"journals.list", "shards.list"}

ASSUME RestAssumption ==
  /\ undefined \in Falsy /\ Falsy \cap (Item \cup Status) = {}
  /\ MaxItems \in Nat /\ MaxLabels \in Nat /\ Slash \in Nat
  /\ Refused \subseteq (ProtocolStatus \cap ConsumerStatus) \ {"OK"}
  /\ Code \subseteq ReplicaStatusCode
  /\ Value \subseteq Seq(Nat) /\ Journal \subseteq Seq(Nat)

VARIABLES
  method,   \* the method called
  argument, \* what it is called with: two selectors, or a request
  prefixes, \* what JournalSelector.prefix was given, if that made one of them
  request,  \* the body that fetch was given
  reply,    \* what fetch settles with, once it has
  arrived,  \* lines of its body that have arrived
  bodyEnd,  \* "open", "ended" or "broken"
  pc,       \* "Build", "Fetch", "Await" the body or the end, "Settled"
  fetched,  \* what doFetch resolved to
  promise,  \* "pending", "resolved" or "rejected"
  answer,   \* the Result it resolved to
  result,   \* that Result in the hands of the caller
  lost      \* whether a callback of the caller returned a Falsy value

call   == <<method, argument, prefixes, request>>
body   == <<reply, arrived, bodyEnd>>
caller == <<result, lost>>
vars == <<call, body, pc, fetched, promise, answer, caller>>

None == New(undefined, undefined)

-----------------------------------------------------------------------------
(* The caller and its selectors.                                           *)

Sides == {"include", "exclude"}

Arguments(m) ==
  CASE m \in Lists         -> {[side \in Sides |-> NewSelector]}
    [] m = "journals.read" -> {ReadRequest(i, "1024") : i \in Item}
    [] m = "shards.stat"   -> {StatRequest(i, <<>>) : i \in Item}

LabelNames(m) ==
  IF m = "journals.list" THEN {Collection, Name} ELSE {TaskName, Id}

Build(side, selector) ==
  /\ argument' = [argument EXCEPT ![side] = selector]
  /\ UNCHANGED <<method, request, body, pc, fetched, promise, answer, caller>>

CanBuild ==
  /\ pc = "Build" /\ method \in Lists
  /\ Len(argument["include"]) + Len(argument["exclude"]) < MaxLabels

AddsLabel(side) ==
  /\ CanBuild
  /\ \E name \in LabelNames(method), v \in Value :
       Build(side, Push(argument[side], name, v))
  /\ UNCHANGED prefixes

StartsWithPrefix(side) ==
  /\ CanBuild /\ method = "journals.list" /\ argument[side] = NewSelector
  /\ \E v \in Value :
       Build(side, SelectPrefix(v))
         /\ prefixes' = [prefixes EXCEPT ![side] = {v}]

Selected(arg) ==
  LabelSelector(ToLabelSet(arg["include"]), ToLabelSet(arg["exclude"]))

(* The body of the request, taken before the method first waits.           *)
Body(m, arg) ==
  CASE m = "journals.list" -> ListRequest(Selected(arg))
    [] m = "shards.list"   -> ListShardsRequest(Selected(arg))
    [] OTHER -> arg

Calls ==
  /\ pc = "Build"
  /\ request' = Body(method, argument) /\ pc' = "Fetch"
  /\ UNCHANGED <<method, argument, prefixes, body, fetched, promise, answer,
                 caller>>

-----------------------------------------------------------------------------
(* What the mux and the network do.                                        *)

SeqsUpTo(S, n) == UNION {[1..k -> S] : k \in 0..n}

(* What a server may say in one message.                                   *)
Entries(m) ==
  CASE m = "journals.list" ->
         {ListResponseJournal(JournalSpec(i)) : i \in Item}
    [] m = "shards.list" ->
         {ListResponseShard(ShardSpec(i), <<ReplicaStatus(c)>>) :
            i \in Item, c \in Code}
    [] OTHER -> Item

Message(m, status, entries) ==
  CASE m = "journals.list" -> ListResponse(status, entries)
    [] m = "shards.list"   -> ListShardsResponse(status, entries)
    [] m = "shards.stat"   -> StatResponse(status, entries)
    [] m = "journals.read" -> ReadResponse(status, entries)

SaidBy(m) ==
  {Message(m, "OK", e) : e \in SeqsUpTo(Entries(m), MaxItems)}
    \cup {Message(m, s, <<>>) : s \in Refused}

(* `said` and `status` are what the server meant: messages, or a failure.  *)
Response(ok, lines, said, status, shape) ==
  [kind |-> "response", ok |-> ok, lines |-> lines, said |-> said,
   status |-> status, shape |-> shape]
TypeError == [kind |-> "TypeError"]
NoReply   == [kind |-> "none"]

Line(m, message) == IF m \in Streamed THEN [result |-> message] ELSE message

(* The message of a failure of status s: another value than its status.    *)
Says(s) == <<s>>

StreamFailure(s) == [error |-> RuntimeStreamError(s, Says(s))]

Whole(m) ==
  {Response(TRUE, <<Line(m, x)>>, <<x>>, undefined, "unary") : x \in SaidBy(m)}

(* A streamed RPC answers with any number of lines, and may fail after the *)
(* first, when its 200 has been sent.                                      *)
Longer(m) ==
  {Response(TRUE, <<>>, <<>>, undefined, "stream")}
    \cup {Response(TRUE, <<Line(m, x), Line(m, y)>>, <<x, y>>, undefined,
                   "stream") : x, y \in SaidBy(m)}
    \cup {Response(TRUE, <<Line(m, x), StreamFailure(s)>>, <<x>>, s, "stream") :
            x \in SaidBy(m), s \in Status}

Failure(s, line, shape) == Response(FALSE, <<line>>, <<>>, s, shape)

Replies(m) ==
  UNION {
    {TypeError},
    Whole(m),
    IF m \in Streamed THEN Longer(m) ELSE {},
    {Failure(s, RuntimeError(s, Says(s)), "unary") : s \in Status},
    IF m \in Streamed
    THEN {Failure(s, StreamFailure(s), "stream") : s \in Status} ELSE {},
    {Failure(s, NotJSON, "other") : s \in Status} }

FetchSettles ==
  /\ pc = "Fetch" /\ reply = NoReply
  /\ reply' \in Replies(method)
  /\ UNCHANGED <<call, arrived, bodyEnd, pc, fetched, promise, answer,
                 caller>>

BodyOpen == reply.kind = "response" /\ bodyEnd = "open"

BodyArrives ==
  /\ BodyOpen /\ arrived < Len(reply.lines)
  /\ arrived' = arrived + 1
  /\ UNCHANGED <<call, reply, bodyEnd, pc, fetched, promise, answer, caller>>

BodyEnds ==
  /\ BodyOpen /\ arrived = Len(reply.lines) /\ bodyEnd' = "ended"
  /\ UNCHANGED <<call, reply, arrived, pc, fetched, promise, answer, caller>>

BodyBreaks ==
  /\ BodyOpen /\ bodyEnd' = "broken"
  /\ UNCHANGED <<call, reply, arrived, pc, fetched, promise, answer, caller>>

(* response.json(): the body as one JSON value, once it is over.           *)
JsonThrows ==
  bodyEnd = "broken" \/ Len(reply.lines) # 1 \/ reply.lines[1] = NotJSON
Json == reply.lines[1]

Property(v, name) == IF name \in DOMAIN v THEN v[name] ELSE undefined

-----------------------------------------------------------------------------
(* The client.                                                             *)

Init ==
  /\ method \in Methods /\ argument \in Arguments(method)
  /\ prefixes = [side \in Sides |-> {}] /\ request = undefined
  /\ reply = NoReply /\ arrived = 0 /\ bodyEnd = "open"
  /\ pc = "Build" /\ fetched = None
  /\ promise = "pending" /\ answer = None /\ result = None /\ lost = FALSE

(* Mutant: fetch resolved, so the call succeeded.                          *)
DoFetchUnchecked(r) == IF r = TypeError THEN Err(r) ELSE Ok(r)

DoFetch(r) == IF r # TypeError /\ r.ok THEN Ok(r) ELSE Err(r)

Fetched ==
  /\ pc = "Fetch" /\ reply # NoReply
  /\ fetched' = DoFetch(reply) /\ pc' = "Await"
  /\ UNCHANGED <<call, body, promise, answer, caller>>

(* Mutant: errors are resolved to as they are.                             *)
ResolveRaw(r) ==
  /\ promise' = "resolved"
  /\ answer' = IF IsOk(r) THEN r.value ELSE r.error
  /\ result' = r /\ pc' = "Settled"
  /\ UNCHANGED <<call, body, fetched, lost>>

Resolve(r) ==
  /\ promise' = "resolved" /\ answer' = r /\ result' = r /\ pc' = "Settled"
  /\ UNCHANGED <<call, body, fetched, lost>>

Reject ==
  /\ promise' = "rejected" /\ pc' = "Settled"
  /\ UNCHANGED <<call, body, fetched, answer, caller>>

(* Mutant: the stream is handed out when the body is over.                 *)
ReadReturnsLate ==
  /\ pc = "Await" /\ IsOk(fetched) /\ method = "journals.read"
  /\ bodyEnd # "open"
  /\ Resolve(Ok([stream |-> "body"]))

(* JournalClient.read pipes the body through its stages and waits for none *)
(* of it; see ReadPipeline.                                                *)
ReadReturns ==
  /\ pc = "Await" /\ IsOk(fetched) /\ method = "journals.read"
  /\ Resolve(Ok([stream |-> "body"]))

Parsing == pc = "Await" /\ IsOk(fetched) /\ bodyEnd # "open"

StatReturns ==
  /\ Parsing /\ method = "shards.stat"
  /\ IF JsonThrows THEN Reject ELSE Resolve(Ok(Json))

(* data.journals!.map((j) => j.spec!) throws if there are no `journals`.   *)
JournalsReturn ==
  /\ Parsing /\ method = "journals.list"
  /\ IF JsonThrows \/ Property(Json, "journals") = undefined THEN Reject
     ELSE Resolve(Ok([k \in DOMAIN Json.journals |-> Json.journals[k].spec]))

ShardsOf(json) ==
  [k \in DOMAIN json.shards |->
    [spec |-> json.shards[k].spec, status |-> json.shards[k].status]]

ShardsReturn ==
  /\ Parsing /\ method = "shards.list"
  /\ IF JsonThrows \/ Property(Json, "shards") = undefined THEN Reject
     ELSE Resolve(Ok(ShardsOf(Json)))

(* The fields of a ResponseError; undefined where making it throws.        *)
ResponseError(errorBody, status) == [body |-> errorBody, status |-> status]

(* Mutant: the status is looked for where a stream's error has it.         *)
FromResponseHTTP(json) == ResponseError(json, Property(json, "httpStatus"))

FromResponse(json) == ResponseError(json, Property(json, "code"))

FromStreamResponse(json) ==
  LET error == Property(json, "error") IN
  IF error = undefined THEN undefined
  ELSE ResponseError(error, Property(error, "httpStatus"))

(* Mutant: every method expects the errors of a stream.                    *)
ErrorOfStream(json) == FromStreamResponse(json)

ErrorOf(json) ==
  IF method = "journals.read" THEN FromStreamResponse(json)
                              ELSE FromResponse(json)

(* Objects and arrays are JSON, and count for true in JavaScript.          *)
Object(v) == v \notin Falsy \cup {NotJSON}

ASSUME ObjectAssumption ==
  /\ Object([stream |-> "body"])
  /\ \A m \in Methods : \A x \in SaidBy(m) : Object(x) /\ Object(Line(m, x))
  /\ \A x \in SaidBy("shards.list") : Object(x.shards) /\ Object(ShardsOf(x))
  /\ \A s \in Status :
       /\ Object(RuntimeError(s, Says(s)))
       /\ Object(RuntimeStreamError(s, Says(s))) /\ Object(StreamFailure(s))
       /\ Object(FromResponse(RuntimeError(s, Says(s))))
       /\ Object(FromResponse(StreamFailure(s)))
       /\ Object(FromStreamResponse(StreamFailure(s)))

(* What fetch rejected with has no `json` to call.                         *)
ErrorReturns ==
  /\ pc = "Await" /\ IsErr(fetched)
  /\ \/ fetched.error = TypeError /\ Reject
     \/ /\ fetched.error # TypeError /\ bodyEnd # "open"
        /\ IF JsonThrows \/ ErrorOf(Json) = undefined THEN Reject
           ELSE Resolve(Err(ErrorOf(Json)))

Settles ==
  ReadReturns \/ StatReturns \/ JournalsReturn \/ ShardsReturn \/ ErrorReturns

(* The caller maps what it got, on either side.                            *)
Maps(x) ==
  /\ promise = "resolved"
  /\ \/ /\ result' = Map(result, x)
        /\ lost' = (lost \/ (IsOk(result) /\ x \in Falsy))
     \/ /\ result' = MapErr(result, x)
        /\ lost' = (lost \/ (IsErr(result) /\ x \in Falsy))
  /\ UNCHANGED <<call, body, pc, fetched, promise, answer>>

Over == pc = "Settled" /\ UNCHANGED vars

Next ==
  \/ \E side \in Sides : AddsLabel(side) \/ StartsWithPrefix(side)
  \/ Calls
  \/ FetchSettles \/ BodyArrives \/ BodyEnds \/ BodyBreaks
  \/ Fetched \/ Settles
  \/ \E x \in Derived \cup {undefined} : Maps(x)
  \/ Over

Spec == Init /\ [][Next]_vars

(* The runtime goes on settling promises.  Whether an answer ever comes    *)
(* and ends is not up to it.                                               *)
FairSpec == Spec /\ WF_vars(Fetched) /\ WF_vars(Settles)

-----------------------------------------------------------------------------
Labels == [name : {Collection, Name, Prefix, TaskName, Id}, value : Seq(Nat)]

TypeOK ==
  /\ method \in Methods
  /\ pc = "Build" => request = undefined
  /\ method \in Lists => argument \in [Sides -> Seq(Labels)]
  /\ prefixes \in [Sides -> SUBSET Value]
  /\ reply.kind \in {"none", "TypeError", "response"}
  /\ arrived \in 0..2 /\ bodyEnd \in {"open", "ended", "broken"}
  /\ pc \in {"Build", "Fetch", "Await", "Settled"}
  /\ (pc = "Settled") = (promise # "pending")
  /\ promise \in {"pending", "resolved", "rejected"}
  /\ \A r \in {fetched, answer, result} :
       DOMAIN r = {"value", "error"} /\ ~(IsOk(r) /\ IsErr(r))
  /\ lost \in BOOLEAN

(* What the caller of a list or stat should get of a message.              *)
Meant(message) ==
  CASE method = "journals.list" ->
         [k \in DOMAIN message.journals |-> message.journals[k].spec]
    [] method = "shards.list" ->
         [k \in DOMAIN message.shards |->
            [spec   |-> message.shards[k].spec,
             status |-> message.shards[k].status]]
    [] method = "shards.stat" -> message

(* The server is asked for what the caller selected: of every selector all *)
(* labels and no others, sorted over (name, value), and none on the other  *)
(* side; a label that was added once is sent once                          *)
(* (journal_client.ts:28, shard_client.ts:28, selector.ts:12, util.ts:72). *)
InOrder(a, b) ==
  Less(a.name, b.name) \/ (a.name = b.name /\ ~Less(b.value, a.value))
Sorted(labels) ==
  \A j, k \in DOMAIN labels : j < k => InOrder(labels[j], labels[k])

RequestAsksSelection ==
  pc # "Build" /\ method \in Lists =>
    \A side \in Sides :
      LET asked == request.selector[side].labels IN
      /\ ToSet(asked) = ToSet(argument[side]) /\ Sorted(asked)
      /\ IsInjective(argument[side]) => IsInjective(asked)

(* A prefix selects the journals under a directory, whether its caller     *)
(* ended it with a slash or not, and none next to it that merely starts    *)
(* alike: of acmeCo, not those of acmeCoOther (selector.ts:30).            *)
PrefixSelectsDirectory ==
  \A side \in Sides : \A v \in prefixes[side], journal \in Journal :
    (\A k \in DOMAIN argument[side] :
       argument[side][k].name = Prefix
         => IsPrefix(argument[side][k].value, journal))
    <=> /\ IsPrefix(v, journal)
        /\ \/ v # <<>> /\ Last(v) = Slash
           \/ Len(journal) > Len(v) /\ journal[Len(v) + 1] = Slash

(* Result.Ok comes of a success only, and of the whole of it: never of a   *)
(* failure, of a body that broke, or of one message out of two.  A list    *)
(* keeps the entries of the message only: one whose status is not OK comes *)
(* out as a list of nothing                                                *)
(* (util.ts:29, journal_client.ts:36, shard_client.ts:36).                 *)
OkIsWhole ==
  promise = "resolved" /\ IsOk(answer) =>
    /\ reply.kind = "response" /\ reply.ok
    /\ method # "journals.read" =>
         /\ bodyEnd = "ended" /\ arrived = 1
           /\ Len(reply.said) = 1 /\ answer.value = Meant(reply.said[1])

(* Result.Err comes of a failure that arrived whole, and says what failed, *)
(* except that JournalClient.list does not understand the failure of a     *)
(* stream (journal_client.ts:39, :62, shard_client.ts:41).                 *)
ErrIsServed ==
  promise = "resolved" /\ IsErr(answer) =>
    /\ reply.kind = "response" /\ ~reply.ok /\ bodyEnd = "ended"
    /\ ~(method = "journals.list" /\ reply.shape = "stream") =>
         /\ answer.error.status = reply.status
         /\ Property(answer.error.body, "message") = Says(reply.status)

(* The promise rejects only when there was nothing to make a Result of: no *)
(* answer, a body that broke or is not JSON.  Two methods fall short:      *)
(* JournalClient.list of a success, which the broker streams, and          *)
(* JournalClient.read of a failure that came before there was a stream.    *)
RejectsUnreadable ==
  promise = "rejected" =>
    \/ reply = TypeError \/ bodyEnd = "broken" \/ reply.shape = "other"
    \/ method = "journals.list" /\ reply.ok
    \/ method = "journals.read" /\ ~reply.ok /\ reply.shape = "unary"

(* Whatever its caller maps, a Result does not change sides, and stays on  *)
(* its side unless a callback returned nothing (result.ts:48-62).          *)
SidesHold ==
  promise = "resolved" =>
    /\ IsOk(result) => IsOk(answer)
    /\ IsErr(result) => IsErr(answer)
    /\ ~lost => IsOk(result) \/ IsErr(result)

(* A call settles once its answer is over or will not come, and a read as  *)
(* soon as it has been accepted: its body may stay open for good.          *)
AnswerSettles ==
  (\/ reply = TypeError \/ bodyEnd # "open"
   \/ method = "journals.read" /\ reply.kind = "response" /\ reply.ok)
    ~> (promise # "pending")

(* Violated.  The tests unwrap what the methods resolve to, a success to a *)
(* value and a failure to an error with a message                          *)
(* (client/test/journal_client_test.ts:18, :58 and :157), whether it came  *)
(* before there was a stream or within it: "Transforms Unary and Stream    *)
(* errors into a similar structure." (util.ts:39).  JournalClient.list     *)
(* does neither of what is streamed, and JournalClient.read not the latter *)
(* of a failure that came before the stream.                               *)
AnswersUnwrap ==
  (/\ promise # "pending" /\ reply.kind = "response"
   /\ bodyEnd = "ended" /\ arrived = 1 /\ reply.shape # "other")
    => /\ promise = "resolved"
       /\ reply.ok => IsOk(answer)
       /\ ~reply.ok =>
            /\ IsErr(answer) /\ answer.error.status # undefined
            /\ Property(answer.error.body, "message") # undefined

(* Violated.  "Labels of the set. Instances must be unique and sorted over *)
(* (Name, Value)." (client/src/gen/broker/protocol/broker.ts:435): nothing *)
(* of the client keeps a label from being added twice (selector.ts:20).    *)
LabelSetsUnique ==
  pc # "Build" /\ method \in Lists =>
    \A side \in Sides :
      LET labels == request.selector[side].labels
      IN  IsInjective(labels) /\ Sorted(labels)

-----------------------------------------------------------------------------
(* The inductive invariant.                                                *)

(* What is known of the answer at each step of the call.                   *)
Staged ==
  /\ pc # "Build" => request = Body(method, argument)
  /\ pc = "Build" => reply = NoReply
  /\ reply = NoReply \/ reply \in Replies(method)
  /\ pc \in {"Await", "Settled"} => reply # NoReply /\ fetched = DoFetch(reply)
  /\ promise = "pending" => answer = None /\ result = None

Received ==
  /\ reply.kind # "response" => arrived = 0 /\ bodyEnd = "open"
  /\ reply.kind = "response" => arrived <= Len(reply.lines)
  /\ bodyEnd = "ended" => arrived = Len(reply.lines)

(* The label of a prefix comes first in its selector, and is the only one. *)
PrefixFirst ==
  \A side \in Sides : \A v \in prefixes[side] :
    /\ method = "journals.list"
    /\ Len(argument[side]) >= 1 /\ argument[side][1] = SelectPrefix(v)[1]
    /\ \A k \in 2..Len(argument[side]) : argument[side][k].name # Prefix

(* What a method resolved or rejected with stays true of the answer that   *)
(* came, and of the Result in the caller's hands (util.ts:14-37,           *)
(* journal_client.ts:20-66, shard_client.ts:20-60, result.ts:48-62).       *)
Inv ==
  /\ TypeOK /\ Staged /\ Received /\ PrefixFirst
  /\ OkIsWhole /\ ErrIsServed /\ RejectsUnreadable /\ SidesHold
================================================================================
