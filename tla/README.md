# A verification project for the data plane gateway

The gateway stands between the clients of a data plane and its Gazette brokers
and consumers. This directory holds TLA+ models of it, TLC configurations that
check them on small instances, and TLAPS proofs of what holds for every
instance. Paths are relative to the repository (`journal_server.go`,
`client/src/streams.ts`).

## 1. Inventory

### Parts, their state and operations

| Part | Code | State it keeps | Operations |
|---|---|---|---|
| Streaming reads | `journal_server.go:29-47`, `:53-71` | per call: where the relay loop is, the response in hand, the stream's context | `List`, `Read` |
| Append | `journal_server.go:73-109` | per call: where the loop is, the request in hand, the claims, the response | `Append` |
| Unary calls | `journal_server.go:49-51`, `:111-117`, `shard_server.go` | none beyond the call | `ListFragments`, `Apply`, `Replicate` (refused), shard `List`, `Stat`, `Apply`, `GetHints`, `Unassign` |
| Authorizer | `journal_server.go:13-23` | none; reads the incoming metadata of the call | `Authorize` |
| Process | `main.go:53-149` | listeners, connections, task group, signal channel | set up, run tasks, stop on a signal |
| Wiring of REST and networking | `main.go:110-133` | - | library handlers registered on the mux and the tap |
| Stream transformers | `client/src/streams.ts:1-71` | `splitStream`'s buffer; the queues of each stage | `transform`, `flush` |
| Reader | `client/src/streams.ts:74-92` | `results` | `pump` |
| Journal reads | `client/src/journal_client.ts:43-76` | the chain of stages | `read`, `parseJournalDocuments` |
| REST client | `util.ts:14-68`, `journal_client.ts:21-41`, `shard_client.ts` | base URL and token, never changed | `doFetch`, `list`, `stat`, errors to `ResponseError` |
| Selectors | `selector.ts`, `util.ts:72-89` | labels, in the order they were added | `collection`, `name`, `prefix`, `task`, `id`, `toLabelSet` |
| Result | `result.ts` | a value or an error, frozen | `ok`, `err`, `unwrap`, `unwrap_err`, `map`, `map_err` |

`client/src/gen` holds the generated types of the messages, `client/dist`
compiled copies of `client/src`; `build.sh`, `Dockerfile` and `client/bin` build.
They have no behaviour of their own.

### How they interact

A gRPC client calls one of two proxies; each call has a goroutine, which opens an
RPC to the broker (for journals) or a consumer (for shards) over the one
connection its proxy has there. Every upstream call goes
through the authorizer, which copies the caller's token. The context of the
client's stream is the parent of the context upstream: it is what ties the two
calls together, and the only way for a cancellation to reach the broker.

A REST client calls the mux, which grpc-gateway implements, and which is
registered on the broker connection itself (`main.go:115`), not on the proxy.
The TypeScript client reads the body it answers with through a chain of
transform streams.

### What is hard

* A relay sits between two connections with flow control, each of which can end,
  fail or be cancelled at any moment, and it may be blocked on either.
* A failure must not pass for an end, nor an end for a failure; half an append
  must not be committed; an answer may come before the question is complete.
* The client's stages run asynchronously with queues between them; an end must
  not overtake data, an error drops queued data on purpose, and a stage that
  throws must release what feeds it.
* Text arrives cut at any byte: within a line, a separator, a character.
* The process stops on a signal that may come at any moment of its life, with
  tasks that fail on their own and calls in flight.

### What makes each part correct

* Reads: the client sees a prefix of the broker's stream; OK means all of it; a
  broker's failure arrives as such, after the data; the upstream RPC ends with
  the client's call; without a token no broker is called.
* Append: committed whole, only when the client meant it; claims for the journal
  of the first request; the answer is the broker's; nothing stays open.
* Streams: results are the body's, in order; a resolved read has everything; the
  reader always settles once the body is over; lines are the journal's, however
  its bytes were cut.
* Unary calls: the broker sees the caller's own token and the caller the
  broker's own answer, however many calls run at once.
* REST client: every outcome of a request ends in a value or a `ResponseError`.
* Selectors: labels sorted by name and value, none added or lost; a prefix selects
  a directory and nothing next to it.
* Process: no signal is lost; the exit status is true and comes after every task.

## 2. Modules

| Module | Models |
|---|---|
| `JournalRead` | `JournalProxy.List` and `.Read`, one call |
| `ResponseStream` | abstract: what a proxied stream promises its client |
| `JournalReadProofs` | theorems about `JournalRead` |
| `JournalAppend` | `JournalProxy.Append`, one call |
| `AppendTransaction` | abstract: what a proxied append promises its client |
| `JournalAppendProofs` | theorems about `JournalAppend` |
| `UnaryProxy` | the unary handlers of both proxies and the authorizer, many calls at once |
| `UnaryProxyProofs` | theorems about `UnaryProxy` |
| `SplitStream` | `splitStream`, character by character |
| `DecodeContent` | `decodeContent`, byte by byte (operators only) |
| `JournalText` | the two composed: the bytes of a journal to the lines of its text |
| `JournalTextProofs` | theorems about `JournalText`; lemmas about `Split`, `Decode` and `Reading` |
| `ReadPipeline` | the stages of a journal read and `readStreamToEnd` |
| `ReadChains` | the two chains of stages that the client builds |
| `ReadPipelineProofs` | theorems about the ends of the stages of `ReadPipeline`, and about the data of `ReadChains`: what the results are |
| `Messages` | the generated types of the messages that clients build and read (operators only) |
| `Selector` | `selector.ts` and `sortBy` (operators only) |
| `Result` | `result.ts`: constructors, telling the sides apart, the two maps |
| `RestClient` | one call of the REST client, from its selectors to its `Result`: composes `Selector`, `Messages`, `Result` |
| `RestClientProofs` | lemmas about strings, their order, and sorting; theorems about `RestClient` |
| `Gateway` | the process: set-up, tasks, signals, exit (`main.go`) |
| `GatewayProofs` | theorems about `Gateway` |
| `SequenceProofs` | lemmas about sequences: induction, `FlattenSeq`, what begins with what |
| `MC*` | instances for TLC |

Definitions named "Mutant" in their comment are small bugs that no specification
uses: each is a version of the definition after it that a change to the code
could bring about, kept to show that a property can tell the difference.

### JournalRead

The two handlers are the same loop, so one module stands for both. `pc` is the
handler's place: `Dispatch` (lines 30-35, 54-59), `Recv` (38, 62), `Send` (43,
67), `Returned`. `resp` is the local variable, `ctx` the stream's context. The
environment is the broker (`broker`, `sent`, `brokerEnd`), the connection from it
(`up`, and the error behind it, `upEnd`), the connection to the client (`down`,
`downEnd`) and the client (`got`, `outcome`). Each connection buffers at most
`Window` messages; the sender blocks beyond.

Each exit of the handler is an action of its own: `Unauthorized` and
`DispatchFails`, `RecvFails` (where `Graceful` turns `io.EOF` into nil),
`SendFails`. `Return` is the `return err` they share: gRPC sends the status after
the responses and cancels the context. A context that is cancelled makes `Recv`
and `Send` fail, but does not have to: they may still succeed with what is
there. A broken connection may lose any tail of what it carried.

`got` and `sent` are history: the responses the client has read and the broker
has streamed. All properties relate them.

Statuses a broker can fail with (`BrokerErr`) are assumed distinct from those the
gateway or the transport makes up (Canceled, Unavailable, Unknown), so that the
model can tell whose failure a client sees. A broker may use those codes too;
nothing is claimed of them.

### ResponseStream

Four variables a client and a broker can see: the source produces and ends, the
client reads in order and then learns the end; or the call is cut short, and then
says so. `JournalRead` implements it with the identity on these variables: the
handler, both connections and the context are hidden.

### JournalAppend

`pc` follows the handler: `RecvFirst` (line 76), `Dispatch` (89), `Send` (95),
`Recv` (97), `CloseAndRecv` (103), `SendAndClose` (106). `claim` remembers which
request the claims were computed from (81). Requests travel by `cq` to the
handler and by `uq` to the broker. The broker may answer at any time: it commits
only after the upstream half-close and everything before it (`BrokerCommit`), and
may refuse earlier (`BrokerRefuse`). Once the answer has come back (`upEnd`),
`Send` reports `io.EOF`, as gRPC documents for client streams.

### AppendTransaction

The append without a gateway: `asked` and `closed` are what the client sent and
whether it meant that to be all, `stored` what the journal took, `verdict` the
journal's last word and `outcome` what the client was told. `Commit` takes all
that was asked, once it is closed. The client is told the verdict (`Tell`), or
that the append was not taken and will not be (`TellNotTaken`, code Unknown), or
nothing it can rely on (`CutShort`). In `JournalAppend` the verdict is the
broker's answer, or `dropped` once the handler has returned one of its own plain
errors (`io.EOF`, a missing token): from there on no half-close can reach the
broker.

### SplitStream, DecodeContent, JournalText

The data the pipeline treats as given. `SplitStream` has the buffer and the parts
enqueued; strings are sequences of characters, `Split` is JavaScript's `split`
(leftmost separator first). `DecodeContent` has a reduced UTF-8 with characters
of one and two bytes and U+FFFD for what is not UTF-8; a byte order mark is left
out. `JournalText` instantiates the one behind the other, as
`parseJournalDocuments` does (`journal_client.ts:72-74`). It keeps the journal's
bytes as history, and which of its characters a cut divided, and compares the
lines with those of the journal read in one piece, by `Reading`, which knows
neither chunks nor a buffer.

### ReadPipeline, ReadChains

`ReadPipeline` is a chain of any transformers; `stages` names those of this one.
`ReadChains` has the two that the client builds: `split, parse, unwrap` for
`JournalClient.read` (`journal_client.ts:53-57`; the `TextDecoderStream` in front
is one that keeps its state between chunks and is merged with the first split),
or those with `decode, split, parse` behind them for `parseJournalDocuments`
(`:72-75`). `in[i]` and `out[i]`
are the queues of a stage's two sides, with the default strategies: one chunk on
the writable side, none ahead of demand on the readable side. `status[i]` is
whether a stage is open, closed, errored, or cancelled from behind. The pipes
hand on chunks (`Pipe`), the end (`Flush`), an error (`Abort`: queued chunks are
dropped, as the Streams Standard has it) and a cancellation (`Cancel`).

A body is a series of lines written by grpc-gateway: `[result |-> ...]`, or
`[error |-> ...]` when the stream failed, the last of them. The broker can also
refuse a read in the status of a response (`OFFSET_NOT_YET_AVAILABLE`, say), its
last: a reader of responses gets it, and `decodeContent`, which looks at the
content only, skips it, so that a reader of documents cannot tell it from the
end. A line and its
newline are separate writes, and arrive in chunks of any size. Whether the
failure has a newline behind it is left open: the code of this repository does
not depend on either. If it has none, `splitStream` drops it as incomplete.

`Cut` says what lines a text has and what is left behind the last newline. It reads
the text from the front, one token at a time, and is a recursive function, so that
theorems about it are possible. `Documents` and `Responses` apply it to the whole
of what was served, `splitStream` to its buffer and one chunk: that the two agree
is what the theorems of section 4.6 show.

### UnaryProxy

Eight handlers are one line each, `return client.Method(ctx, req)`, and one is an
error: `Replicate`. `forwards` is the set of calls of the eight. Every variable
is a function of the call. `Authorize` appends the first value of
`authorization` to the outgoing metadata (`outgoing`) and keeps the context of
the stream as the parent (`upCtx`); `Invoke` opens the RPC when the connection
has room; `Wait` returns whatever it ends with. Upstream an RPC is carried out
(`executed` counts how often) or refused; its answer may be overtaken by a
cancellation or by the connection breaking, which fails all RPCs on it. The
limit of RPCs per connection is HTTP/2's, set by the peer; `Slots` stands for it.
An RPC leaves its slot when the gateway learns that it ended.

### RestClient, Selector, Messages, Result

A call begins with its caller, who adds labels to the selectors of a list
(`AddsLabel`, `StartsWithPrefix`), while `pc` is `Build`. `Calls` makes the body
of the request (`request`), where `ToLabelSet` sorts them with `SortBy`:
`SortOrder` is where a stable sort, which JavaScript's is, finds them. A string
is a sequence of numbers, compared as JavaScript compares code units. The names
of labels are strings of which only the order matters. `Messages` has the fields
of the generated types that the clients or their callers look at.

`reply` is what `fetch` settles with: a `TypeError`, or a response whose `lines`
arrive one by one and whose body ends or breaks. The mux answers a unary RPC with
a message or a failure, a streamed one (`journals.list`, `journals.read`) with
any number of `result` lines, which a failure may follow. Failures have two
shapes: `code` and `message` before there is a stream (`main.go:113` chooses
that error handler), `error.httpStatus` and `error.message` once there is one.
JSON objects are records; reading a field that is missing gives `undefined`, as
in JavaScript, and reading a field of `undefined` throws, which rejects the
promise. `said` and `status` of a reply are history: what the server meant. A
message with a status other than OK is a success to HTTP and to the clients: a
list makes an empty list of it, a stat hands it on. The message of a failure
(`Says`) is another value than its status, so that the two are not mixed up.

`Fetched` is `doFetch`, `ReadReturns` and the others what each method does next,
`Maps` what a caller does with its `Result`; callbacks may return `undefined`, as
`console.error` does in `client/test/journal_client_test.ts:93`.

### Gateway

`step` is the next step of `Execute` (`main.go:64-145`); `Must` ends the process
at those that can fail. `task[t]` follows each task from `Queue` to its end.
`signalCh` is a channel with room for one: a signal is put there without waiting,
or dropped (`Signal`), once `Notify` was called, and kills the process before.
`HandleSignal` is the receive at line 138. Of `task.Group` the model takes what
`main.go` relies on, that the first failure cancels the shared context and that
`Wait` waits for all tasks. Whether a task that returns nil cancels it too is
left open (`nilEnds`, chosen once): if it does not, a signal alone never ends the
process, because nothing then tells the servers. `calls` are RPCs in flight. Their
contexts come from their clients, so the end of the tasks does not cancel them; a
server may wait for them when it stops.

## 3. What is checked

`Inv` in a run is the invariant its proofs induct on (section 4). It holds
`TypeOK` and relates the parts of the state: which message is where, which end
caused which.

| Run | Instance | Shows |
|---|---|---|
| `read` | 2 responses, 1 broker status, window 2, 3 messages | `Inv`, prefix, completeness, faithful errors, no call without token, release of the upstream RPC, an end for a client that reads on, refinement of `ResponseStream` |
| `append` | 2 requests, 1 refusal, 1 status, window 1, 3 messages | `Inv`, whole commits, prefix and claims, refinement of `AppendTransaction`, release of the broker, an outcome for a half-closed append |
| `append_answer` | as above, 2 messages | **violated**: the broker's early answer is replaced by `io.EOF` |
| `text` | separators `n`, `nn`, `na`; 2 one-byte and 1 two-byte character, 7 bytes, contents up to 3 | `Inv`: the parts are the lines of the text so far and the buffer its rest; the lines are the journal's, up to characters that a cut divides |
| `decode_arabic` | as above | **violated**: a character that two contents share is lost |
| `pipeline` | chains of 3 and 6 stages, 2 lines, 3 contents, the last line may be the failure or a refusal | `Inv`, order, completeness, rejection only on failure, settling, release of the body |
| `read_fully` | 6 stages, one line with a JSON null | **violated**: the reader stops at a value that counts for false |
| `unary` | two calls, one slot, three values of the header, one refusal | `Inv`, own token, at most once, true outcomes; abandoned calls make room |
| `rest` | 2 labels of 3 values on either side, all journal names of up to 3 code units; 2 items, messages of up to 2, up to 2 lines, one status, one status within a message | `Inv`; the request asks what was selected, sorted and with no repetition of its own; a `Result` is Ok or Err for the right reason, and in time |
| `rest_answers` | as above, 1 label | **violated**: `JournalClient.list` rejects what the broker streams; of a failure of the other shape a method makes an error without status or message, or rejects |
| `rest_labels` | as `rest` | **violated**: a label that was added twice is sent twice |
| `gateway` | 2 tasks of the server, 2 signals, 2 calls | `Inv`, true exit status, no signal lost, an end once cancelled and signaled |

The five violated runs state what a comment, a test, a doc or the README says and are
listed under `findings` in `PROJECT.json`.

**Bounds.** The relays treat messages alike and remember one at a time, so two
distinguishable messages are enough to see a loss, a repetition or a swap. A
window of 2 and three messages put messages in every place (client, its
connection, handler, connection upstream) at once, and let every one of them
block. One broker status and one refusal are enough, since the code never looks
at them. Separators of two characters, one overlapping itself, and chunks both
shorter and longer than they are reach every way a separator can straddle
chunks. Two lines let a document end in the response after it began, and a
failure come first or after a response; with the content of a document chain they
make three lines behind `decode`, more than its stages hold. Two calls for one
slot make one wait for the other; one of the headers has a second value, the
other call's token. Two lines are one more than the REST methods can parse; two
items show a swap. Two labels are a pair to sort and a pair to repeat, also across
sides; values are empty, unterminated and terminated, and journals of three code
units lie in a directory, next to it and above it. One signal is caught and a
second may find the channel full; two calls keep a server waiting twice.

**Fairness.** `FairSpec` of `JournalRead` asks that a runnable handler runs and
that gRPC delivers a cancellation to the gateway and to the broker: the Go
scheduler and the transport see to that. It asks nothing of the broker, which may
hold a blocking read open without data, nor of the client. `UpstreamReleased`
needs no more. `EndReachesClient` supposes a client that goes on reading
(`ClientKeepsReading`), and `AppendAnswered` a broker that receives what was sent
and commits once it is half-closed (`BrokerKeepsServing`). `ReadPipeline` asks
that written bytes arrive and that the runtime goes on settling promises; the
gateway may leave a body open for good.
`UnaryProxy` asks the same of handlers and transport as the streaming relays, and
nothing of those upstream, who may never answer: `AbandonedDoNotStarve` rests on
cancellations alone. `RestClient` only asks that promises settle. `Gateway` asks
that goroutines run and that a server whose context is cancelled returns, at the
latest when it has no RPC left; `ShutsDown` supposes clients that end theirs
(`ClientsLeave`), because a blocking read may otherwise last for good.

**Deadlock** is checked in every run but `text`, whose stream is over after
`flush`. In the others what is over stutters: a call once everyone is done
(`Over`), the client's side once its promise has settled.

## 4. What is proved

Every safety property the passing runs check is also a theorem, for every value
of the constants. The proofs all have the same
shape: `InvInit` and `InvNext` show that `Inv` holds at first and that every step
keeps it, with one step of the proof for each action and below it one for each
part of `Inv` the action can disturb; `InvCorrect` is `Spec => []Inv`; the
properties follow from `Inv`. The assumptions are those the components state:
`ReadAssumption`, `AppendAssumption`, `UnaryAssumption`, `GatewayAssumption`,
`PipelineAssumption`, `TextAssumption`, `ChainAssumption`, `RestAssumption` and
`ObjectAssumption`.

No property is inductive as it stands, nor is type correctness enough of a
strengthening: each says what one end of a chain has, and what it gets next comes
from the middle of the chain.

### 4.1 Streaming reads: `JournalReadProofs`

For any responses, statuses, window and length of stream: `ReadsPrefix`,
`CompleteOnOK`, `FaithfulErrors`, `UnauthorizedNeverCalls`, and `Refines`, that
the relay implements `ResponseStream`. `ReadAssumption` is a positive window and
broker statuses distinct from local ones.

`Inv` numbers the responses of the stream. The client has the first `Len(got)`,
its connection the next `Len(down)` (together `Passed`), the handler the one after
while it is at `Send` (`Held`), and the upstream connection those that follow
(`InOrder`). While the upstream connection has not broken and the RPC has not been
cancelled, these are all there are (`NoneMissing`); that is what makes an end that
comes through a complete one. `EndsAgree` ties the ends together: what `Recv`
reports is the broker's own end unless something broke, and the status of the
client is the handler's. Refinement uses the same invariant: `ClientRead` maps to
`Deliver` because of `InOrder`, `ClientFinish` to `Finish` because of `EndsAgree`.

### 4.2 Appends: `JournalAppendProofs`

For any requests, answers, window and number of requests: `CommitsWhole`,
`ReceivesPrefix`, and `Refines`, that the proxied append implements
`AppendTransaction`.

The numbering is that of the reads the other way around: the broker has the first
requests, the connection upstream the next, the handler the one it holds, the
connection from the client the rest. `NoneMissing` says that there are no others
until the handler returns, and that a half-close upstream comes of one of the
client, with every request sent on before it; `Claimed` that the RPC was opened
with the claims of the first. `EndsAgree` says that an answer that came back is
the broker's, that a commit needs the half-close and nothing left on the
connection, and that a client told Unknown has an append that will never be
half-closed. A commit then holds everything. In the refinement
`BrokerCommit` maps to `Commit`, `BrokerRefuse` to a refusal, and the `Return` of
one of the handler's own errors to the append being dropped.

### 4.3 Unary calls: `UnaryProxyProofs`

For any number of calls, any room on the connection and any headers:
`OwnTokenCorrect`, `OutcomeCorrect`, `NeverTwice`. `Authorized` follows the token
from the header to the metadata of the RPC, `RoomKept` is that the RPCs on the
connection fit on it, `EndsAgree` relates, for each call by itself, whether it was
executed, what was answered, what the handler saw and what the client was told.
The calls share the connection; the proof shows that they share nothing else.

### 4.4 The REST client: `RestClientProofs`

For any items, statuses, label values and journal names:

* `OkCorrect`, `ErrCorrect`, `RejectsCorrect`, `SidesCorrect`: what a promise and
  a `Result` say of the answer. `Inv` adds to these properties `Staged` (what is
  known at each step, `fetched` and `request` among it) and `Received` (how much of
  the body has come). The proof goes through every kind of answer for every
  method: `Successes` and `Failures` say which there are.
* `PrefixCorrect`: a prefix of any length selects a directory. `PrefixFirst` says
  that a prefix is the first label of its selector and the only one of its name.
* `AsksCorrect`: the request asks for what was selected. Its first part has
  what that rests on, about strings of any length: `LessTransitive` and
  `LessTotal`, the order of strings is a total one; `SortByCompares`, so is what
  `sortBy` makes of it; `OrderListed`, a finite total order can be listed, by the
  rank of each element, so `SortOrder` chooses something; `Moved`, a permutation
  keeps what there is and repeats nothing. `LabelsSorted` puts them together. It
  does not make labels unique: those that were added twice are sent twice, which
  `rest_labels` shows.

`RestAssumption` has undefined among the values that count for false, and the
statuses and items not; strings are sequences of natural numbers.
`ObjectAssumption` says that what JSON makes of a message or an error is neither
`NotJSON` nor counts for false, since objects and arrays do not in JavaScript.
TLA+ leaves open whether a record equals a model value, so this has to be said;
TLC evaluates both.

### 4.5 The process: `GatewayProofs`

For any servers, calls and signals: `ExitCorrect`. `SetUp` says where `Execute` is
when a task runs, `SignalsKept` that the signal task ends only with a signal,
`StopsCaused` that a server stops without error only when the context is
cancelled, and that the context is cancelled only by a failure or after a signal.

### 4.6 A journal read: `ReadPipelineProofs`

**How the stages end.** For pipelines of any number of stages in any order, any
contents and any cuts: `InvCorrect`. `ClosedInOrder` says that a stage is closed
only after all in front of it, with nothing left in them; `StoppedEmpty` that a
stage that is stopped holds no chunk; `ErrorsCaused` that an error comes of the
body or of a transformer that reads a property of what has none (`Throwing`:
`unwrapResult` and `decodeContent`, of undefined or null), and a cancellation of
an error behind it. So the two others pass on ends and errors and have none of
their own. `TypeOK` adds that the wire holds the last part of what was
served, whatever the chunks were.

**What the results are.** For the two chains that the client builds
(`ChainAssumption`, which nothing before this uses), and for any documents,
contents, number of lines and cuts:

* `ResultsCorrect`: the results begin the responses of the body, or its
  documents, in order.
* `ResolvedCorrect`: a read that resolves has all of them, or stopped at a value
  that counts for false.
* `RejectedCorrect`: a read that rejects had a body that broke, or a failure line
  that `decodeContent` could not take. `unwrapResult` of a chain never throws:
  what it takes is a line (`DecodeThrows`).

`TextAssumption` of `ReadPipeline` is that texts are made of newlines, pieces that parse and
pieces that do not, that a newline is no line of the gateway's, and that lines
and responses, which are objects, are neither undefined nor null.

What the reader gets next comes from a queue, and what is right for the queue
depends on the buffer of a stage in front of it. The invariant is `DataInv`. Its
heart is `\E h : Flow(h)`: there is a history `h` of the chunks the body has
handed over (`h[0]`) and those each stage has taken, such that

* the chunks of `h[0]` and the wire are what was served;
* between each stage and the next there is a `Link`: what the one behind has
  taken and what waits in the two queues between them is what the one in front
  has made of its own chunks, all of it (`Made`). Once the stage in front has
  errored the end of it may be missing, and once the stage behind is stopped what
  waits does not matter (`Mode`);
* the buffer of a `split` is what `Cut` leaves of all it has taken (`Kept`);
* a resolved reader was at the end or at a value that counts for false
  (`Settled`).

The history is quantified, not a variable: no action of the model had to be
changed for the proof. For each action, one lemma says what the history is
afterwards (`FlowNext` lists them). `BodyLines` says what a line of the body can be, which makes
`parseJSONStream` and `unwrapResult` of a chain total, and `Failures` which errors
the stages that can throw have.

The text of a body is cut whole in the properties and chunk by chunk in the
stages. `CutConcat` relates the two: the lines of a text and a chunk more are
the lines of the text and those of what was left of it with the chunk behind it.
This and the lemmas of `SequenceProofs` about `FlattenSeq` need induction over
sequences. The library's induction theorems take an operator, which the provers
cannot instantiate; `NumberInduction` and `SequenceInduction` state the same
principles for a set of numbers and of sequences and come from `WFMin`, which has no
such parameter. Recursive functions have no definition that the provers expand
by themselves either: `CutsToSomething` shows that a function with the equation
of `Cut` exists, for every length, so that `CHOOSE`, which `Cut` is, finds it.

### 4.7 The text of a journal: `JournalTextProofs`

For any non-empty separator of one-byte characters, any bytes and any way to cut
them into contents: `InvCorrect` and `LinesCorrect`, that the lines which come out
are those of the journal and nothing in them is damaged but the characters that
two contents share. `TextAssumption` of `JournalText` is that one-byte characters and the first and
second bytes of longer ones are distinct, that U+FFFD is no one-byte character,
and that separators consist of one-byte characters.

`LinesSurviveCuts` compares the lines with those of the whole journal, of which
`splitStream` never has more than a piece. `Inv` says what it needs to have of it:

* `TextOfJournal`: what went in is the text of the journal with a replacement for
  each byte of a damaged character, and a character that is incomplete so far
  counts as damaged.
* `LinesOfText`: the parts are the lines of that text, and the buffer is its rest.

Lines and rest are those of `Reading`, the reference: it looks at a text one
character at a time and ends a line as soon as its last characters are the
separator, so it has no search in it and no end. Three arguments meet there:

* `SplitReads`: `split`, which looks for the leftmost separator and goes on behind
  it, finds what `Reading` finds, though occurrences of a separator may overlap.
  `ReadingConcat` says that reading on from the rest is reading on, for a rest has
  no separator in it (`ReadingRest`); `QueueReads` puts the two together for a
  chunk, and for the `flush`, which finds nothing.
* `TextGrows`: decoding one more content adds to the text what the content decodes
  to, with the replacement character that stands for the first half of a divided
  character already there, and the one for the second half added.
* `ReadingLegible`: damage and reading commute. A separator is at the end of a
  damaged text exactly when it is at the end of the journal's (`SuffixSurvives`),
  because a character that is cut is no character of a separator and U+FFFD is
  none either. A separator of longer characters would not survive a cut, which is
  why the assumption is needed; the client splits on a newline.

`Split`, `Reading` and `Characters` are recursive functions; that they have the
equations they are written with is shown as it is for `Cut`.

### 4.8 Only model-checked

Liveness, all of it: `UpstreamReleased`, `EndReachesClient`, `AppendReleased`,
`AppendAnswered`, `AbandonedDoNotStarve`, `AnswerSettles`, `SettlesAfterBody`,
`RejectedReleasesBody`, `SignalCaught`, `ShutsDown`. The prover does not reason
about fairness and ENABLED.

## 5. Not modelled

* Contents of messages beyond those the clients look at, authorization decisions
  (made by brokers), TLS, CORS, configuration, logging, metrics. Types that only
  pass through (hints, fragments, routes, headers) have no definition.
* URLs: each method appends a constant to the configured base. A base whose path
  does not end in a slash is glued to it; `trimUrl` is not called by anything.
* What a stage makes of chunks of another kind than those it is meant for, apart
  from undefined and null, and `atob` on what is not base64: chains other than the
  client's two are only reasoned about as far as their ends and errors go.
* Byte order marks, which a `TextDecoder` drops from the front of a content, and
  characters of three or four bytes, of which a cut leaves other numbers of
  U+FFFD.
* grpc-gateway, gRPC, `task.Group`, the servers, the network frontend and the
  Streams runtime are libraries: modelled only as the environment of the code
  that uses them. That a signal alone ends the process is therefore not claimed.
* Deadlines of a call are a `ClientGone`: the gateway sets none itself.
* `build.sh`, `Dockerfile`, `client/bin`, `client/dist`: building and its results.

## 6. Plan

1. Done: every part of the inventory that has behaviour; the abstract
   specifications and their refinements; inductive invariants and the safety
   theorems of every component with a specification; sorting, and the cutting of
   texts.
2. Left: nothing that these tools reach. Liveness is checked and not proved
   (section 4.8).
