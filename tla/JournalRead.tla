------------------------------ MODULE JournalRead ------------------------------
(***************************************************************************)
(* The server-streaming handlers of the gateway, JournalProxy.List and     *)
(* JournalProxy.Read (journal_server.go).  Both bodies are the same relay: *)
(* open the RPC upstream under the context of the client's stream, then    *)
(* alternate proxy.Recv() and stream.Send() until one of them fails.       *)
(*                                                                         *)
(* One behaviour is one call.  The handler is the goroutine gRPC starts    *)
(* for the call; the broker, the client and the two connections are its    *)
(* environment, modelled from how the handler uses them.  A response is a  *)
(* member of Resp, a status the broker may fail with a member of           *)
(* BrokerErr; their contents make no difference to the relay.              *)
(***************************************************************************)
EXTENDS Naturals, Sequences

CONSTANTS Resp,       \* responses a broker can stream
          BrokerErr,  \* statuses a broker can fail the RPC with
          Window,     \* messages a hop buffers before its sender blocks
          MaxSent     \* bound: responses in one stream

(* Errors and statuses that do not come from the broker.                   *)
Local == {"nil", "EOF", "OK", "open", "Canceled", "Unavailable", "Unknown",
          "MissingAuthorization"}

ASSUME ReadAssumption ==
  /\ Window \in Nat \ {0}
  /\ MaxSent \in Nat
  /\ BrokerErr \cap Local = {}

VARIABLES
  token,    \* the call's metadata holds an authorization header
  pc,       \* where the handler is
  resp,     \* its local resp, meaningful while pc = "Send"
  upCtx,    \* what the context of the RPC upstream derives from
  ctx,      \* stream.Context(): "live" or "canceled"
  broker,   \* "idle" until the RPC reaches it, "streaming", then "ended"
  sent,     \* responses the broker has streamed, in order
  brokerEnd,\* how the broker itself ended the RPC ("open": it did not)
  up,       \* responses on their way to the handler
  upEnd,    \* what proxy.Recv() reports after them
  down,     \* responses on their way to the client
  downEnd,  \* the status behind them, once the handler returned
  got,      \* responses the client has read
  outcome   \* the status the client's RPC ended with

handlerVars == <<pc, resp, upCtx>>
brokerVars  == <<broker, sent, brokerEnd>>
clientVars  == <<got, outcome>>
vars == <<token, pc, resp, upCtx, ctx, broker, sent, brokerEnd, up, upEnd,
          down, downEnd, got, outcome>>

Init ==
  /\ token \in BOOLEAN
  /\ pc = "Dispatch"
  /\ resp \in Resp /\ upCtx = "nil"
  /\ ctx = "live"
  /\ broker = "idle" /\ sent = <<>> /\ brokerEnd = "open"
  /\ up = <<>> /\ upEnd = "open"
  /\ down = <<>> /\ downEnd = "open"
  /\ got = <<>> /\ outcome = "open"

-----------------------------------------------------------------------------
(* The handler.                                                            *)

(* A plain Go error reaches the client as code Unknown.                    *)
StatusOf(err) ==
  IF err = "nil" THEN "OK"
  ELSE IF err \in {"EOF", "MissingAuthorization"} THEN "Unknown" ELSE err

(* Mutant: every failed Recv passes for the end of the stream.             *)
GracefulAlways(err) == "nil"

(* `if err == io.EOF { err = nil }`                                        *)
Graceful(err) == IF err = "EOF" THEN "nil" ELSE err

(* `return err`: gRPC queues the status behind the responses and cancels   *)
(* the context of the stream.                                              *)
Return(err) ==
  /\ pc' = "Returned"
  /\ downEnd' = StatusOf(err)
  /\ ctx' = "canceled"
  /\ UNCHANGED <<token, resp, upCtx, brokerVars, up, upEnd, down, clientVars>>

(* Without a token PassThroughAuthorizer fails and the broker is not       *)
(* called.                                                                 *)
Unauthorized ==
  /\ pc = "Dispatch" /\ ~token
  /\ Return("MissingAuthorization")

(* Mutant: the authorizer does not look whether there is a token.          *)
DispatchUnchecked ==
  /\ pc = "Dispatch"
  /\ pc' = "Recv" /\ upCtx' = "stream"
  /\ broker' = "streaming"
  /\ UNCHANGED <<token, resp, ctx, sent, brokerEnd, up, upEnd, down, downEnd,
                 clientVars>>

(* Mutant: the RPC upstream is opened with context.Background().           *)
DispatchDetached ==
  /\ pc = "Dispatch" /\ token
  /\ pc' = "Recv" /\ upCtx' = "background"
  /\ broker' = "streaming"
  /\ UNCHANGED <<token, resp, ctx, sent, brokerEnd, up, upEnd, down, downEnd,
                 clientVars>>

(* s.jc.Read(pb.WithDispatchDefault(ctx), req), ctx being stream.Context().*)
Dispatch ==
  /\ pc = "Dispatch" /\ token
  /\ pc' = "Recv" /\ upCtx' = "stream"
  /\ broker' = "streaming"
  /\ UNCHANGED <<token, resp, ctx, sent, brokerEnd, up, upEnd, down, downEnd,
                 clientVars>>

(* No connection to a broker, or the client went away first.               *)
DispatchFails ==
  /\ pc = "Dispatch" /\ token
  /\ \/ Return("Unavailable")
     \/ ctx = "canceled" /\ Return("Canceled")

(* proxy.Recv() yields a response.                                         *)
Recv ==
  /\ pc = "Recv" /\ up # <<>>
  /\ resp' = Head(up) /\ up' = Tail(up)
  /\ pc' = "Send"
  /\ UNCHANGED <<token, upCtx, ctx, brokerVars, upEnd, down, downEnd,
                 clientVars>>

(* The context of the RPC upstream is cancelled with that of the stream.   *)
UpstreamCanceled == ctx = "canceled" /\ upCtx = "stream"

(* Mutant: the end is reported before the responses that precede it.       *)
RecvFailsEarly ==
  /\ pc = "Recv"
  /\ \/ upEnd # "open" /\ Return(Graceful(upEnd))
     \/ UpstreamCanceled /\ Return(Graceful("Canceled"))

(* Mutant: the loop is left on io.EOF only.                                *)
RecvFailsOnEOF ==
  /\ pc = "Recv" /\ up = <<>> /\ upEnd = "EOF"
  /\ Return("nil")

(* proxy.Recv() fails: the stream ended, or its context was cancelled.     *)
RecvFails ==
  /\ pc = "Recv"
  /\ \/ up = <<>> /\ upEnd # "open" /\ Return(Graceful(upEnd))
     \/ UpstreamCanceled /\ Return(Graceful("Canceled"))

(* Mutant: a response that was sent is sent again.                         *)
SendRetried ==
  /\ pc = "Send" /\ Len(down) < Window
  /\ down' = Append(down, resp)
  /\ pc' \in {"Recv", "Send"}
  /\ UNCHANGED <<token, resp, upCtx, ctx, brokerVars, up, upEnd, downEnd,
                 clientVars>>

(* Mutant: a response the client has no room for is dropped.               *)
SendDrops ==
  /\ pc = "Send"
  /\ down' = IF Len(down) < Window THEN Append(down, resp) ELSE down
  /\ pc' = "Recv"
  /\ UNCHANGED <<token, resp, upCtx, ctx, brokerVars, up, upEnd, downEnd,
                 clientVars>>

(* stream.Send(resp) blocks while the client's window is full.             *)
Send ==
  /\ pc = "Send" /\ Len(down) < Window
  /\ down' = Append(down, resp)
  /\ pc' = "Recv"
  /\ UNCHANGED <<token, resp, upCtx, ctx, brokerVars, up, upEnd, downEnd,
                 clientVars>>

SendFails ==
  /\ pc = "Send" /\ ctx = "canceled"
  /\ Return("Canceled")

Handler == Unauthorized \/ Dispatch \/ DispatchFails
             \/ Recv \/ RecvFails \/ Send \/ SendFails

-----------------------------------------------------------------------------
(* The broker and the connection to it.                                    *)

BrokerSend(r) ==
  /\ broker = "streaming" /\ Len(up) < Window /\ Len(sent) < MaxSent
  /\ up' = Append(up, r) /\ sent' = Append(sent, r)
  /\ UNCHANGED <<token, handlerVars, ctx, broker, brokerEnd, upEnd, down,
                 downEnd, clientVars>>

(* The broker closes the stream, with EOF or an error status.              *)
BrokerEnd(end) ==
  /\ broker = "streaming"
  /\ broker' = "ended" /\ brokerEnd' = end /\ upEnd' = end
  /\ UNCHANGED <<token, handlerVars, ctx, sent, up, down, downEnd, clientVars>>

(* The connection breaks: what it still carried may be lost, last first.   *)
UpstreamLost ==
  /\ broker # "idle" /\ upEnd \notin {"Canceled", "Unavailable"}
  /\ broker' = "ended" /\ upEnd' = "Unavailable"
  /\ \E n \in 0..Len(up) : up' = SubSeq(up, 1, n)
  /\ UNCHANGED <<token, handlerVars, ctx, sent, brokerEnd, down, downEnd,
                 clientVars>>

(* A cancelled context resets the upstream RPC, and the broker stops.      *)
CancelUpstream ==
  /\ UpstreamCanceled /\ broker = "streaming"
  /\ broker' = "ended" /\ upEnd' = "Canceled"
  /\ UNCHANGED <<token, handlerVars, ctx, sent, brokerEnd, up, down, downEnd,
                 clientVars>>

-----------------------------------------------------------------------------
(* The client and the connection from it.                                  *)

ClientRead ==
  /\ outcome = "open" /\ down # <<>>
  /\ got' = Append(got, Head(down)) /\ down' = Tail(down)
  /\ UNCHANGED <<token, handlerVars, ctx, brokerVars, up, upEnd, downEnd,
                 outcome>>

(* The status comes after every response.                                  *)
ClientFinish ==
  /\ outcome = "open" /\ down = <<>> /\ downEnd # "open"
  /\ outcome' = downEnd
  /\ UNCHANGED <<token, handlerVars, ctx, brokerVars, up, upEnd, down, downEnd,
                 got>>

(* The client cancels, its deadline passes, or its connection breaks.      *)
ClientGone ==
  /\ outcome = "open"
  /\ outcome' \in {"Canceled", "Unavailable"}
  /\ UNCHANGED <<token, handlerVars, ctx, brokerVars, up, upEnd, down, downEnd,
                 got>>

(* The gateway learns of it some time later.                               *)
CancelArrives ==
  /\ outcome \in {"Canceled", "Unavailable"} /\ ctx = "live"
  /\ ctx' = "canceled"
  /\ UNCHANGED <<token, handlerVars, brokerVars, up, upEnd, down, downEnd,
                 clientVars>>

(* The call is over for everyone.                                          *)
Over == pc = "Returned" /\ outcome # "open" /\ broker # "streaming"

Next ==
  \/ Handler
  \/ \E r \in Resp : BrokerSend(r)
  \/ \E end \in {"EOF"} \cup BrokerErr : BrokerEnd(end)
  \/ UpstreamLost \/ CancelUpstream
  \/ ClientRead \/ ClientFinish \/ ClientGone \/ CancelArrives
  \/ Over /\ UNCHANGED vars

Spec == Init /\ [][Next]_vars

(* A runnable goroutine runs, and gRPC delivers cancellations.  Nothing is *)
(* asked of the broker, which may leave a blocking read open forever, nor  *)
(* of the client.                                                          *)
FairSpec ==
  Spec /\ WF_vars(Handler) /\ WF_vars(CancelArrives) /\ WF_vars(CancelUpstream)

(* A client that keeps reading until it has its status, or goes away.      *)
ClientKeepsReading == WF_vars(ClientRead \/ ClientFinish)

-----------------------------------------------------------------------------
Ends == {"open", "EOF", "Canceled", "Unavailable"} \cup BrokerErr
Statuses == {"open", "OK", "Canceled", "Unavailable", "Unknown"} \cup BrokerErr

TypeOK ==
  /\ token \in BOOLEAN
  /\ pc \in {"Dispatch", "Recv", "Send", "Returned"}
  /\ resp \in Resp /\ upCtx \in {"nil", "stream"}
  /\ ctx \in {"live", "canceled"}
  /\ broker \in {"idle", "streaming", "ended"}
  /\ sent \in Seq(Resp) /\ up \in Seq(Resp)
  /\ down \in Seq(Resp) /\ got \in Seq(Resp)
  /\ brokerEnd \in {"open", "EOF"} \cup BrokerErr
  /\ upEnd \in Ends
  /\ downEnd \in Statuses /\ outcome \in Statuses

(* What the client has read is what the broker streamed, from the start,   *)
(* in order, nothing lost, repeated or invented in between, whatever       *)
(* breaks (the loops at journal_server.go:37 and :61).                     *)
ClientReadsPrefix ==
  /\ Len(got) <= Len(sent)
  /\ \A i \in 1..Len(got) : got[i] = sent[i]

(* A graceful end at the client is a graceful end at the broker, with      *)
(* every response delivered: io.EOF is the only error turned into success  *)
(* (journal_server.go:39 and :63).                                         *)
OKMeansComplete == outcome = "OK" => brokerEnd = "EOF" /\ got = sent

(* A status only the broker can have given is its own, and the responses   *)
(* it streamed before failing still arrive first.                          *)
BrokerErrorFaithful ==
  outcome \in BrokerErr => brokerEnd = outcome /\ got = sent

(* A call that carries no token never reaches a broker, in success or in   *)
(* failure (PassThroughAuthorizer, journal_server.go:19).                  *)
NoTokenNoCall == ~token => broker = "idle" /\ outcome # "OK"

(* Whatever way the client's call ends, the RPC the gateway holds open at  *)
(* the broker ends too, even if the handler was blocked in Recv on a read  *)
(* that has no data or in Send on a full window: both hang off             *)
(* stream.Context() (journal_server.go:54).                                *)
UpstreamReleased == (outcome # "open") ~> (broker # "streaming")

(* Once the upstream stream has ended, a client that keeps reading gets a  *)
(* status.                                                                 *)
EndReachesClient ==
  ClientKeepsReading => ((upEnd # "open") ~> (outcome # "open"))

(* The handler and its two connections implement the abstract stream: what *)
(* the relay buffers, blocks on and tears down is invisible to a client.   *)
Abstract == INSTANCE ResponseStream WITH
              Resp <- Resp, BrokerErr <- BrokerErr, sent <- sent,
              brokerEnd <- brokerEnd, got <- got, outcome <- outcome
ImplementsResponseStream == Abstract!Spec

-----------------------------------------------------------------------------
(* The inductive invariant.  Number the responses of the stream: the       *)
(* client has the first Len(got), its connection the next Len(down), the   *)
(* handler the one after while it is at Send, and the upstream connection  *)
(* those that follow.  Only a broken connection loses any.                 *)

Passed == Len(got) + Len(down)
Held   == IF pc = "Send" THEN 1 ELSE 0

InOrder ==
  /\ \A i \in 1..Len(got) : got[i] = sent[i]
  /\ \A i \in 1..Len(down) : down[i] = sent[Len(got) + i]
  /\ pc = "Send" => resp = sent[Passed + 1]
  /\ pc # "Returned" =>
       \A i \in 1..Len(up) : up[i] = sent[Passed + Held + i]

NoneMissing ==
  /\ Passed + Held <= Len(sent)
  /\ pc # "Returned" => Passed + Held + Len(up) <= Len(sent)
  /\ pc # "Returned" /\ upEnd \in {"open", "EOF"} \cup BrokerErr =>
       Passed + Held + Len(up) = Len(sent)

EndsAgree ==
  /\ broker = "streaming" => upEnd = "open"
  /\ brokerEnd # "open" => broker = "ended"
  /\ upEnd \in {"EOF"} \cup BrokerErr => brokerEnd = upEnd
  /\ pc = "Dispatch" \/ ~token => broker = "idle"
  /\ broker = "idle" =>
       pc \in {"Dispatch", "Returned"} /\ upEnd = "open" /\ sent = <<>>
  /\ downEnd # "open" <=> pc = "Returned"
  /\ downEnd = "OK" => brokerEnd = "EOF" /\ Passed = Len(sent)
  /\ downEnd \in BrokerErr => brokerEnd = downEnd /\ Passed = Len(sent)
  /\ outcome \in {"OK"} \cup BrokerErr => outcome = downEnd /\ down = <<>>

Inv == TypeOK /\ InOrder /\ NoneMissing /\ EndsAgree
================================================================================
