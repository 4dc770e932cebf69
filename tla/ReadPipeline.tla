------------------------------ MODULE ReadPipeline -----------------------------
(***************************************************************************)
(* The streams behind JournalClient.read and parseJournalDocuments         *)
(* (client/src/journal_client.ts, client/src/streams.ts), read to the end  *)
(* by readStreamToEnd.                                                     *)
(*                                                                         *)
(* The body of the HTTP response goes through the transformers of stages,  *)
(* one behind the other.  Each has the queue of its writable side, of one  *)
(* chunk, and that of its readable side, filled only on demand; a pipe     *)
(* between two of them hands on chunks, the end, an error, and backwards a *)
(* cancellation.  out[0] is the readable side of the body.                 *)
(*                                                                         *)
(* Text is a sequence of tokens: a newline, or a whole piece between two   *)
(* newlines.  What the cuts between chunks do to the characters of a piece *)
(* is the subject of JournalText.                                          *)
(***************************************************************************)
EXTENDS Naturals, Sequences, SequencesExt, Messages

CONSTANTS Pipelines,  \* chains of transformers that a caller may build
          Content,    \* texts a journal read can return as `content`
          Doc,        \* pieces of text that parse as JSON, and their values
          Fragment,   \* pieces of text that do not parse
          Falsy,      \* the values that JavaScript takes for false
          nl,         \* the newline
          null,       \* the value that JSON writes null
          undefined,  \* the value of a property that is missing
          MaxLines    \* bound: lines in one body

ASSUME PipelineAssumption ==
  /\ Pipelines \subseteq Seq({"split", "parse", "unwrap", "decode"})
  /\ nl \notin Doc /\ {undefined, null} \subseteq Falsy
  /\ MaxLines \in Nat

VARIABLES
  stages,   \* the transformers, in order
  served,   \* tokens the gateway has written to the body
  wire,     \* those that have not arrived
  ended,    \* the gateway has finished the body
  status,   \* of the body (0) and each stage: "open", "closed", "errored"
  in,       \* the queue of each stage's writable side
  out,      \* the queue of each readable side
  buffer,   \* splitStream's buffer, for each stage
  consumer, \* readStreamToEnd: "reading", "resolved" or "rejected"
  results   \* its results

stageVars == <<status, in, out, buffer>>
bodyVars  == <<stages, served, wire, ended>>
vars == <<bodyVars, stageVars, consumer, results>>

N == Len(stages)

Init ==
  /\ stages \in Pipelines
  /\ served = <<>> /\ wire = <<>> /\ ended = FALSE
  /\ status = [i \in 0..N |-> "open"]
  /\ in = [i \in 1..N |-> <<>>]
  /\ out = [i \in 0..N |-> <<>>]
  /\ buffer = [i \in 1..N |-> <<>>]
  /\ consumer = "reading" /\ results = <<>>

-----------------------------------------------------------------------------
(* The gateway and the network.                                            *)

(* A line of the body: a read response, or the failure of the stream.  A   *)
(* broker also ends a read with a response of another status, of no        *)
(* content.                                                                *)
Refused  == ReadResponse("OFFSET_NOT_YET_AVAILABLE", <<>>)
Response == {ReadResponse("OK", content) : content \in Content} \cup {Refused}
Failure  == [error |-> "failed"]
Line     == [result : Response] \cup {Failure}
Final    == {[result |-> Refused], Failure}

(* The text of a body or of a journal, cut into its lines.                 *)
CutStep(cut, token) ==
  IF token = nl THEN [lines |-> Append(cut.lines, cut.rest), rest |-> <<>>]
                ELSE [cut EXCEPT !.rest = Append(@, token)]

Cut(text) ==
  LET cut[i \in 0..Len(text)] ==
        IF i = 0 THEN [lines |-> <<>>, rest |-> <<>>]
                 ELSE CutStep(cut[i - 1], text[i])
  IN  cut[Len(text)]

(* What has no properties: to read one of it throws.                       *)
Nullish == {undefined, null}

(* A text is made of newlines and pieces; a newline is no line, and lines  *)
(* and responses are objects.                                              *)
Token == Doc \cup Fragment \cup {nl}
ASSUME TextAssumption ==
  /\ Content \subseteq Seq(Token)
  /\ nl \notin Line /\ (Line \cup Response) \cap Nullish = {}

(* A line and its newline are two writes.  After the last response or a    *)
(* failure nothing but its newline may follow, after a failure even that   *)
(* may not.                                                                *)
WriteLine(line) ==
  /\ ~ended /\ Cut(served).rest = <<>> /\ Len(Cut(served).lines) < MaxLines
  /\ ToSet(served) \cap Final = {}
  /\ served' = Append(served, line) /\ wire' = Append(wire, line)
  /\ UNCHANGED <<stages, ended, stageVars, consumer, results>>

WriteNewline ==
  /\ ~ended /\ Cut(served).rest # <<>>
  /\ served' = Append(served, nl) /\ wire' = Append(wire, nl)
  /\ UNCHANGED <<stages, ended, stageVars, consumer, results>>

Finish ==
  /\ ~ended
  /\ Cut(served).rest \in {<<>>, <<Failure>>}
  /\ ended' = TRUE
  /\ UNCHANGED <<stages, served, wire, stageVars, consumer, results>>

(* What was written arrives in chunks of any size.                         *)
Receive ==
  /\ status[0] = "open"
  /\ \E n \in 1..Len(wire) :
       /\ out' = [out EXCEPT ![0] = Append(@, SubSeq(wire, 1, n))]
       /\ wire' = SubSeq(wire, n + 1, Len(wire))
  /\ UNCHANGED <<stages, served, ended, status, in, buffer, consumer, results>>

BodyEnds ==
  /\ status[0] = "open" /\ ended /\ wire = <<>>
  /\ status' = [status EXCEPT ![0] = "closed"]
  /\ UNCHANGED <<bodyVars, in, out, buffer, consumer, results>>

(* The connection breaks; chunks not read yet are lost with it.            *)
BodyBreaks ==
  /\ status[0] = "open"
  /\ status' = [status EXCEPT ![0] = "errored"]
  /\ out' = [out EXCEPT ![0] = <<>>]
  /\ UNCHANGED <<bodyVars, in, buffer, consumer, results>>

-----------------------------------------------------------------------------
(* The transformers.                                                       *)

(* A transformer runs when it has a chunk and somebody waits for what it   *)
(* makes of it: the pipe behind it, or the reader.                         *)
Runs(i, name) ==
  /\ stages[i] = name /\ status[i] = "open"
  /\ in[i] # <<>> /\ out[i] = <<>>
  /\ IF i = N THEN consumer = "reading" ELSE in[i + 1] = <<>>

Enqueue(i, chunks) ==
  /\ in' = [in EXCEPT ![i] = <<>>]
  /\ out' = [out EXCEPT ![i] = @ \o chunks]
  /\ UNCHANGED <<bodyVars, status, consumer, results>>

(* Mutant: the incomplete last line is not kept.                           *)
SplitForgets(i) ==
  /\ Runs(i, "split")
  /\ Enqueue(i, Cut(Head(in[i])).lines)
  /\ UNCHANGED buffer

Split(i) ==
  /\ Runs(i, "split")
  /\ LET cut == Cut(buffer[i] \o Head(in[i]))
     IN  /\ Enqueue(i, cut.lines)
         /\ buffer' = [buffer EXCEPT ![i] = cut.rest]

(* JSON.parse, and a chunk it throws on is skipped.                        *)
Parses(chunk) == Len(chunk) = 1 /\ Head(chunk) \in Doc \cup Line

(* Mutant: JSON.parse is allowed to throw.                                 *)
ParseThrows(i) ==
  /\ Runs(i, "parse")
  /\ IF Parses(Head(in[i]))
     THEN Enqueue(i, Head(in[i]))
     ELSE /\ status' = [status EXCEPT ![i] = "errored"]
          /\ in' = [in EXCEPT ![i] = <<>>]
          /\ UNCHANGED <<bodyVars, out, consumer, results>>
  /\ UNCHANGED buffer

(* The one piece of a line that parses is its value.                       *)
Parse(i) ==
  /\ Runs(i, "parse")
  /\ Enqueue(i, IF Parses(Head(in[i])) THEN Head(in[i]) ELSE <<>>)
  /\ UNCHANGED buffer

Property(value, name) ==
  IF name \in DOMAIN value THEN value[name] ELSE undefined

Unwrap(i) ==
  /\ Runs(i, "unwrap") /\ Head(in[i]) \notin Nullish
  /\ Enqueue(i, <<Property(Head(in[i]), "result")>>)
  /\ UNCHANGED buffer

(* A response without content is skipped, one that refuses the read too.   *)
Decode(i) ==
  /\ Runs(i, "decode") /\ Head(in[i]) \notin Nullish
  /\ LET content == Head(in[i]).content
     IN  Enqueue(i, IF content # <<>> THEN <<content>> ELSE <<>>)
  /\ UNCHANGED buffer

(* `chunk.result` or `value.content` of what has no properties throws:     *)
(* both sides of the stage are errored and their queues dropped.           *)
Throwing == {"unwrap", "decode"}

TransformThrows(i) ==
  /\ \E name \in Throwing : Runs(i, name)
  /\ Head(in[i]) \in Nullish
  /\ status' = [status EXCEPT ![i] = "errored"]
  /\ in' = [in EXCEPT ![i] = <<>>]
  /\ UNCHANGED <<bodyVars, out, buffer, consumer, results>>

Transform(i) ==
  Split(i) \/ Parse(i) \/ Unwrap(i) \/ Decode(i) \/ TransformThrows(i)

-----------------------------------------------------------------------------
(* pipeThrough: the pipe from i - 1 to i.                                  *)

(* Mutant: the pipe does not wait for the stage it writes to.              *)
PipeEager(i) ==
  /\ status[i] = "open" /\ out[i - 1] # <<>> /\ Len(in[i]) < 3
  /\ in' = [in EXCEPT ![i] = Append(@, Head(out[i - 1]))]
  /\ out' = [out EXCEPT ![i - 1] = Tail(@)]
  /\ UNCHANGED <<bodyVars, status, buffer, consumer, results>>

Pipe(i) ==
  /\ status[i] = "open" /\ out[i - 1] # <<>> /\ in[i] = <<>>
  /\ in' = [in EXCEPT ![i] = <<Head(out[i - 1])>>]
  /\ out' = [out EXCEPT ![i - 1] = Tail(@)]
  /\ UNCHANGED <<bodyVars, status, buffer, consumer, results>>

Drained(i) == status[i] = "open" /\ out[i - 1] = <<>> /\ in[i] = <<>>

(* Mutant: flush waits for the rest of an incomplete line.                 *)
FlushWaits(i) ==
  /\ Drained(i) /\ status[i - 1] = "closed" /\ buffer[i] = <<>>
  /\ status' = [status EXCEPT ![i] = "closed"]
  /\ UNCHANGED <<bodyVars, in, out, buffer, consumer, results>>

(* The end.  Only splitStream has a flush, which tries to split once more. *)
Flush(i) ==
  /\ Drained(i) /\ status[i - 1] = "closed"
  /\ status' = [status EXCEPT ![i] = "closed"]
  /\ out' = [out EXCEPT ![i] = @ \o Cut(buffer[i]).lines]
  /\ buffer' = [buffer EXCEPT ![i] = Cut(@).rest]
  /\ UNCHANGED <<bodyVars, in, consumer, results>>

(* An error, once what was read before it is written: what waits on the    *)
(* readable side is dropped.                                               *)
Abort(i) ==
  /\ Drained(i) /\ status[i - 1] = "errored"
  /\ status' = [status EXCEPT ![i] = "errored"]
  /\ out' = [out EXCEPT ![i] = <<>>]
  /\ UNCHANGED <<bodyVars, in, buffer, consumer, results>>

(* Mutant: the pipes are opened with preventCancel.                        *)
CancelPrevented(i) == FALSE /\ UNCHANGED vars

(* The error of a stage cancels what feeds it.                             *)
Cancel(i) ==
  /\ status[i] \in {"errored", "canceled"}
  /\ status[i - 1] \in {"open", "closed"}
  /\ status' = [status EXCEPT ![i - 1] = "canceled"]
  /\ out' = [out EXCEPT ![i - 1] = <<>>]
  /\ in' = [j \in 1..N |-> IF j = i - 1 THEN <<>> ELSE in[j]]
  /\ UNCHANGED <<bodyVars, buffer, consumer, results>>

-----------------------------------------------------------------------------
(* readStreamToEnd.                                                        *)

PumpValue ==
  /\ consumer = "reading" /\ out[N] # <<>>
  /\ out' = [out EXCEPT ![N] = Tail(@)]
  /\ IF Head(out[N]) \in Falsy
     THEN consumer' = "resolved" /\ UNCHANGED results
     ELSE results' = Append(results, Head(out[N])) /\ UNCHANGED consumer
  /\ UNCHANGED <<bodyVars, status, in, buffer>>

PumpDone ==
  /\ consumer = "reading" /\ out[N] = <<>> /\ status[N] = "closed"
  /\ consumer' = "resolved"
  /\ UNCHANGED <<bodyVars, stageVars, results>>

(* Mutant: the helper returns what it has when the stream fails.           *)
PumpSwallows ==
  /\ consumer = "reading" /\ status[N] = "errored"
  /\ consumer' = "resolved"
  /\ UNCHANGED <<bodyVars, stageVars, results>>

(* reader.read() rejects, and so does the helper: its results are lost.    *)
PumpFails ==
  /\ consumer = "reading" /\ status[N] = "errored"
  /\ consumer' = "rejected"
  /\ UNCHANGED <<bodyVars, stageVars, results>>

-----------------------------------------------------------------------------
Network == Receive \/ BodyEnds
Runtime ==
  \/ \E i \in 1..N :
       Transform(i) \/ Pipe(i) \/ Flush(i) \/ Abort(i) \/ Cancel(i)
  \/ PumpValue \/ PumpDone \/ PumpFails

Next ==
  \/ \E line \in Line : WriteLine(line)
  \/ WriteNewline \/ Finish \/ BodyBreaks
  \/ Network \/ Runtime
  \/ consumer # "reading" /\ UNCHANGED vars

(* Written bytes arrive and the runtime settles its promises; the gateway  *)
(* may leave a body open forever.                                          *)
Spec == Init /\ [][Next]_vars /\ WF_vars(Network) /\ WF_vars(Runtime)

-----------------------------------------------------------------------------
TypeOK ==
  /\ stages \in Pipelines
  /\ ended \in BOOLEAN
  /\ served \in Seq(Line \cup {nl})
  /\ \E n \in 0..Len(served) : wire = SubSeq(served, n + 1, Len(served))
  /\ status \in [0..N -> {"open", "closed", "errored", "canceled"}]
  /\ in = [i \in 1..N |-> in[i]] /\ \A i \in 1..N : Len(in[i]) <= 1
  /\ out = [i \in 0..N |-> out[i]]
  /\ consumer \in {"reading", "resolved", "rejected"}

(* What the body's text, taken as a whole, holds for a reader.             *)
Lines == Cut(served).lines
(* The failure, if there is one, is the last line.                         *)
Wrapped == {i \in DOMAIN Lines : "result" \in DOMAIN Lines[i][1]}
Broken == DOMAIN Lines \ Wrapped

Responses == [i \in DOMAIN Lines |-> Property(Lines[i][1], "result")]
JournalText == FlattenSeq([i \in Wrapped |-> Responses[i].content])
Documents ==
  LET pieces == Cut(JournalText).lines
  IN  FlattenSeq([i \in DOMAIN pieces |->
                    IF Parses(pieces[i]) THEN pieces[i] ELSE <<>>])

ReadsDocuments == "decode" \in ToSet(stages)
Expected == IF ReadsDocuments THEN Documents ELSE Responses

(* However the body is cut into chunks and wherever it breaks, the results *)
(* are the responses (or the documents) of the body, from the first, in    *)
(* order, and none that the body does not hold; a response that refuses    *)
(* the read is one of them, but no document                                *)
(* (journal_client.ts:53 and :72, streams.ts:56).                          *)
ResultsInOrder == IsPrefix(results, Expected)

(* The helper resolves with everything the body holds, after the body came *)
(* to its end; or before a value that counts for false (streams.ts:84).    *)
ResolvedMeansAll ==
  consumer = "resolved" =>
    \/ status[0] = "closed" /\ results = Expected
       /\ (ReadsDocuments => Broken = {})
    \/ Len(results) < Len(Expected) /\ Expected[Len(results) + 1] \in Falsy

(* It rejects only when the body broke, or carries the failure of the      *)
(* stream to a stage that cannot take it (streams.ts:56); text that does   *)
(* not parse never ends a read (streams.ts:34).                            *)
RejectedMeansFailure ==
  consumer = "rejected" =>
    status[0] = "errored" \/ (ReadsDocuments /\ Broken # {})

(* Once the body is over, one way or the other, the helper settles: no     *)
(* stage waits for another forever.                                        *)
SettlesAfterBody == (ended \/ status[0] # "open") ~> (consumer # "reading")

(* A stage that throws lets go of the body, even one that would go on.     *)
RejectedReleasesBody == (consumer = "rejected") ~> (status[0] # "open")

(* "Helper to fully read a stream and accumulates its values."             *)
(* (streams.ts:73): when it resolves, the stream is at its end.  The code  *)
(* also resolves at the first value that counts for false.                 *)
FullyRead == consumer = "resolved" => status[N] = "closed" /\ out[N] = <<>>
-----------------------------------------------------------------------------
(* The inductive invariant of the stages.                                  *)

(* A stage closes once all before it have, and nothing is left in them.    *)
ClosedInOrder ==
  /\ status[0] = "closed" => ended /\ wire = <<>>
  /\ \A i \in 1..N : status[i] = "closed" =>
       \A j \in 1..i :
         status[j - 1] = "closed" /\ in[j] = <<>> /\ out[j - 1] = <<>>

Stopped(i) == status[i] \in {"errored", "canceled"}

(* A stage that has stopped holds on to nothing.                           *)
StoppedEmpty ==
  \A i \in 0..N : Stopped(i) => out[i] = <<>> /\ (i > 0 => in[i] = <<>>)

(* Errors come from the body or from a transformer that throws, and        *)
(* cancellations from errors.                                              *)
ErrorsCaused ==
  /\ \A i \in 0..N : status[i] = "errored" =>
       status[0] = "errored"
         \/ \E j \in 1..i : stages[j] \in Throwing /\ status[j] = "errored"
  /\ \A i \in 0..N : status[i] = "canceled" =>
       \E j \in i + 1..N : status[j] = "errored"
  /\ consumer = "rejected" => status[N] = "errored"

(* How the stages come to their ends, whatever goes through them:          *)
(* splitStream and parseJSONStream pass on the end and the errors of what  *)
(* is in front of them and have none of their own (streams.ts:3-71).       *)
Inv == TypeOK /\ ClosedInOrder /\ StoppedEmpty /\ ErrorsCaused

================================================================================
