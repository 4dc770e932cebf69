----------------------------- MODULE JournalAppend -----------------------------
(***************************************************************************)
(* The client-streaming handler JournalProxy.Append (journal_server.go).   *)
(* It takes the first request from the client, opens the RPC upstream with *)
(* claims for the journal that request names, relays requests until the    *)
(* client half-closes, and hands the broker's one response back.           *)
(*                                                                         *)
(* One behaviour is one call.  The broker commits an append when the       *)
(* stream it was sent on is half-closed, and may answer before that: it    *)
(* refuses with a response of another status (WRONG_APPEND_OFFSET,         *)
(* NOT_JOURNAL_PRIMARY_BROKER, ...) or fails the RPC.                      *)
(***************************************************************************)
EXTENDS Naturals, Sequences

CONSTANTS Req,        \* requests a client can send
          Committed,  \* the response to an append that was committed
          Refusal,    \* responses to appends that were not
          BrokerErr,  \* statuses a broker can fail the RPC with
          Window,     \* messages a hop buffers before its sender blocks
          MaxSent     \* bound: requests in one append

Local == {"nil", "EOF", "OK", "open", "dropped", "Canceled", "Unavailable",
          "Unknown", "MissingAuthorization"}
Response == {Committed} \cup Refusal
Answer   == Response \cup BrokerErr

ASSUME AppendAssumption ==
  /\ Window \in Nat \ {0}
  /\ MaxSent \in Nat
  /\ Answer \cap Local = {}
  /\ Response \cap BrokerErr = {}
  /\ Committed \notin Refusal

VARIABLES
  token,     \* the call's metadata holds an authorization header
  sent,      \* requests the client has sent
  cq,        \* those on their way to the handler
  cEnd,      \* "EOF" once the client has half-closed
  outcome,   \* what the client's call ended with: a response or a status
  ctx,       \* stream.Context(): "live" or "canceled"
  pc,        \* where the handler is
  req,       \* its local req
  resp,      \* its local resp, meaningful at SendAndClose
  upCtx,     \* what the context of the RPC upstream derives from
  claim,     \* the request whose journal the upstream claims name
  downEnd,   \* what it returned to the client
  uq,        \* requests on their way to the broker
  uClosed,   \* the handler has half-closed the upstream stream
  upEnd,     \* what proxy.CloseAndRecv() would report
  broker,    \* "idle" until the RPC reaches it, "receiving", then "ended"
  bGot,      \* requests the broker has received
  answer,    \* what it answered
  committed  \* the journal holds the append

clientVars  == <<token, sent, cEnd, outcome>>
handlerVars == <<pc, req, resp, upCtx, claim>>
brokerVars  == <<broker, bGot, answer, committed>>
vars == <<token, sent, cq, cEnd, outcome, ctx, pc, req, resp, upCtx, claim,
          downEnd, uq, uClosed, upEnd, broker, bGot, answer, committed>>

Init ==
  /\ token \in BOOLEAN
  /\ sent = <<>> /\ cq = <<>> /\ cEnd = "open" /\ outcome = "open"
  /\ ctx = "live" /\ pc = "RecvFirst" /\ downEnd = "open"
  /\ req = "nil" /\ resp = "nil" /\ upCtx = "nil" /\ claim = "nil"
  /\ uq = <<>> /\ uClosed = FALSE /\ upEnd = "open"
  /\ broker = "idle" /\ bGot = <<>> /\ answer = "open" /\ committed = FALSE

-----------------------------------------------------------------------------
(* The handler.                                                            *)

(* A plain Go error reaches the client as code Unknown.                    *)
StatusOf(err) ==
  IF err \in {"EOF", "MissingAuthorization"} THEN "Unknown" ELSE err

(* `return err`: the call ends and gRPC cancels the stream's context.      *)
Return(err) ==
  /\ pc' = "Returned"
  /\ downEnd' = StatusOf(err)
  /\ ctx' = "canceled"
  /\ UNCHANGED <<clientVars, cq, req, resp, upCtx, claim, uq, uClosed, upEnd,
                 brokerVars>>

(* The first stream.Recv(): the request that decides the claims.           *)
RecvFirst ==
  /\ pc = "RecvFirst" /\ cq # <<>>
  /\ req' = Head(cq) /\ claim' = Head(cq) /\ cq' = Tail(cq)
  /\ pc' = "Dispatch"
  /\ UNCHANGED <<clientVars, ctx, resp, upCtx, downEnd, uq, uClosed, upEnd,
                 brokerVars>>

(* An append of no request at all is an error here, io.EOF included.       *)
RecvFirstFails ==
  /\ pc = "RecvFirst"
  /\ \/ cq = <<>> /\ cEnd = "EOF" /\ Return("EOF")
     \/ ctx = "canceled" /\ Return("Canceled")

(* s.jc.Append(ctx).                                                       *)
Unauthorized == pc = "Dispatch" /\ ~token /\ Return("MissingAuthorization")

(* Mutant: the RPC upstream is opened with context.Background().           *)
DispatchDetached ==
  /\ pc = "Dispatch" /\ token
  /\ pc' = "Send" /\ upCtx' = "background" /\ broker' = "receiving"
  /\ UNCHANGED <<clientVars, cq, ctx, req, resp, claim, downEnd, uq, uClosed,
                 upEnd, bGot, answer, committed>>

(* Mutant: the request read for the claims is not the first to be sent.    *)
DispatchSkipsFirst ==
  /\ pc = "Dispatch" /\ token
  /\ pc' = "Recv" /\ upCtx' = "stream" /\ broker' = "receiving"
  /\ UNCHANGED <<clientVars, cq, ctx, req, resp, claim, downEnd, uq, uClosed,
                 upEnd, bGot, answer, committed>>

Dispatch ==
  /\ pc = "Dispatch" /\ token
  /\ pc' = "Send" /\ upCtx' = "stream" /\ broker' = "receiving"
  /\ UNCHANGED <<clientVars, cq, ctx, req, resp, claim, downEnd, uq, uClosed,
                 upEnd, bGot, answer, committed>>

DispatchFails ==
  /\ pc = "Dispatch" /\ token
  /\ \/ Return("Unavailable")
     \/ ctx = "canceled" /\ Return("Canceled")

(* Mutant: a request that was sent is sent again.                          *)
SendRetried ==
  /\ pc = "Send" /\ upEnd = "open" /\ Len(uq) < Window
  /\ uq' = Append(uq, req)
  /\ pc' \in {"Recv", "Send"}
  /\ UNCHANGED <<clientVars, cq, ctx, req, resp, upCtx, claim, downEnd, uClosed,
                 upEnd, brokerVars>>

(* The context of the RPC upstream is cancelled with that of the stream.   *)
UpstreamCanceled == ctx = "canceled" /\ upCtx = "stream"

(* proxy.Send(req) blocks while the upstream window is full.               *)
Send ==
  /\ pc = "Send" /\ upEnd = "open" /\ Len(uq) < Window
  /\ uq' = Append(uq, req)
  /\ pc' = "Recv"
  /\ UNCHANGED <<clientVars, cq, ctx, req, resp, upCtx, claim, downEnd, uClosed,
                 upEnd, brokerVars>>

(* On a stream that has already ended Send reports io.EOF, whatever ended  *)
(* it; the handler returns that io.EOF.                                    *)
SendFails ==
  /\ pc = "Send"
  /\ \/ upEnd # "open" /\ Return("EOF")
     \/ UpstreamCanceled /\ Return("Canceled")

Recv ==
  /\ pc = "Recv" /\ cq # <<>>
  /\ req' = Head(cq) /\ cq' = Tail(cq)
  /\ pc' = "Send"
  /\ UNCHANGED <<clientVars, ctx, resp, upCtx, claim, downEnd, uq, uClosed,
                 upEnd, brokerVars>>

(* Mutant: the answer is awaited without half-closing upstream.            *)
RecvEOFLeavesOpen ==
  /\ pc = "Recv" /\ cq = <<>> /\ cEnd = "EOF"
  /\ pc' = "CloseAndRecv" /\ req' = "nil"
  /\ UNCHANGED <<clientVars, cq, ctx, resp, upCtx, claim, downEnd, uq, uClosed,
                 upEnd, brokerVars>>

(* io.EOF breaks the loop, and CloseAndRecv half-closes upstream.          *)
RecvEOF ==
  /\ pc = "Recv" /\ cq = <<>> /\ cEnd = "EOF"
  /\ pc' = "CloseAndRecv" /\ req' = "nil" /\ uClosed' = TRUE
  /\ UNCHANGED <<clientVars, cq, ctx, resp, upCtx, claim, downEnd, uq, upEnd,
                 brokerVars>>

(* Mutant: any error of stream.Recv() breaks the loop.                     *)
RecvBreaks ==
  /\ pc = "Recv" /\ ctx = "canceled"
  /\ pc' = "CloseAndRecv" /\ req' = "nil" /\ uClosed' = TRUE
  /\ UNCHANGED <<clientVars, cq, ctx, resp, upCtx, claim, downEnd, uq, upEnd,
                 brokerVars>>

(* Any other error of stream.Recv() abandons the append.                   *)
RecvFails == pc = "Recv" /\ ctx = "canceled" /\ Return("Canceled")

Answered ==
  /\ pc = "CloseAndRecv" /\ upEnd \in Response
  /\ resp' = upEnd
  /\ pc' = "SendAndClose"
  /\ UNCHANGED <<clientVars, cq, ctx, req, upCtx, claim, downEnd, uq, uClosed,
                 upEnd, brokerVars>>

(* Mutant: the error is not looked at, and the zero AppendResponse that    *)
(* comes with it has status OK.                                            *)
AnswerFailsUnchecked ==
  /\ pc = "CloseAndRecv"
  /\ upEnd \notin Response \cup {"open"} \/ UpstreamCanceled
  /\ Return(Committed)

AnswerFails ==
  /\ pc = "CloseAndRecv"
  /\ \/ upEnd \notin Response \cup {"open"} /\ Return(upEnd)
     \/ UpstreamCanceled /\ Return("Canceled")

(* stream.SendAndClose(resp) and `return nil`.                             *)
SendAndClose ==
  /\ pc = "SendAndClose"
  /\ Return(resp) \/ (ctx = "canceled" /\ Return("Canceled"))

Handler ==
  \/ RecvFirst \/ RecvFirstFails \/ Unauthorized \/ Dispatch \/ DispatchFails
  \/ Send \/ SendFails \/ Recv \/ RecvEOF \/ RecvFails
  \/ Answered \/ AnswerFails \/ SendAndClose

-----------------------------------------------------------------------------
(* The broker and the connection to it.                                    *)

BrokerRecv ==
  /\ broker = "receiving" /\ uq # <<>>
  /\ bGot' = Append(bGot, Head(uq)) /\ uq' = Tail(uq)
  /\ UNCHANGED <<clientVars, cq, ctx, handlerVars, downEnd, uClosed, upEnd,
                 broker, answer, committed>>

BrokerCommit ==
  /\ broker = "receiving" /\ uq = <<>> /\ uClosed
  /\ broker' = "ended" /\ answer' = Committed /\ committed' = TRUE
  /\ UNCHANGED <<clientVars, cq, ctx, handlerVars, downEnd, uq, uClosed, upEnd,
                 bGot>>

BrokerRefuse(a) ==
  /\ broker = "receiving"
  /\ broker' = "ended" /\ answer' = a
  /\ UNCHANGED <<clientVars, cq, ctx, handlerVars, downEnd, uq, uClosed, upEnd,
                 bGot, committed>>

BrokerServes == BrokerRecv \/ BrokerCommit

(* The answer reaches the gateway, from now on Send fails.                 *)
AnswerArrives ==
  /\ answer # "open" /\ upEnd = "open"
  /\ upEnd' = answer
  /\ UNCHANGED <<clientVars, cq, ctx, handlerVars, downEnd, uq, uClosed,
                 brokerVars>>

(* The connection breaks, for the gateway first: an answer still under way *)
(* is lost, that of a committed append too.                                *)
UpstreamLost ==
  /\ broker # "idle" /\ upEnd = "open"
  /\ upEnd' = "Unavailable"
  /\ UNCHANGED <<clientVars, cq, ctx, handlerVars, downEnd, uq, uClosed,
                 brokerVars>>

(* A cancelled context resets the upstream RPC.                            *)
CancelUpstream ==
  /\ UpstreamCanceled /\ upEnd = "open"
  /\ upEnd' = "Canceled"
  /\ UNCHANGED <<clientVars, cq, ctx, handlerVars, downEnd, uq, uClosed,
                 brokerVars>>

(* The broker learns that the RPC is gone and drops what it has received.  *)
BrokerCanceled ==
  /\ broker = "receiving" /\ upEnd \in {"Canceled", "Unavailable"}
  /\ broker' = "ended"
  /\ UNCHANGED <<clientVars, cq, ctx, handlerVars, downEnd, uq, uClosed, upEnd,
                 bGot, answer, committed>>

-----------------------------------------------------------------------------
(* The client and the connection from it.                                  *)

ClientSend(r) ==
  /\ outcome = "open" /\ cEnd = "open"
  /\ Len(cq) < Window /\ Len(sent) < MaxSent
  /\ sent' = Append(sent, r) /\ cq' = Append(cq, r)
  /\ UNCHANGED <<token, cEnd, outcome, ctx, handlerVars, downEnd, uq, uClosed,
                 upEnd, brokerVars>>

ClientClose ==
  /\ outcome = "open" /\ cEnd = "open"
  /\ cEnd' = "EOF"
  /\ UNCHANGED <<token, sent, cq, outcome, ctx, handlerVars, downEnd, uq,
                 uClosed, upEnd, brokerVars>>

ClientFinish ==
  /\ outcome = "open" /\ downEnd # "open"
  /\ outcome' = downEnd
  /\ UNCHANGED <<token, sent, cq, cEnd, ctx, handlerVars, downEnd, uq, uClosed,
                 upEnd, brokerVars>>

(* The client cancels, its deadline passes, or its connection breaks.      *)
ClientGone ==
  /\ outcome = "open"
  /\ outcome' \in {"Canceled", "Unavailable"}
  /\ UNCHANGED <<token, sent, cq, cEnd, ctx, handlerVars, downEnd, uq, uClosed,
                 upEnd, brokerVars>>

CancelArrives ==
  /\ outcome \in {"Canceled", "Unavailable"} /\ ctx = "live"
  /\ ctx' = "canceled"
  /\ UNCHANGED <<clientVars, cq, handlerVars, downEnd, uq, uClosed, upEnd,
                 brokerVars>>

(* The call is over for everyone.                                          *)
Over == pc = "Returned" /\ outcome # "open" /\ broker # "receiving"

Next ==
  \/ Handler
  \/ BrokerServes \/ \E a \in Refusal \cup BrokerErr : BrokerRefuse(a)
  \/ AnswerArrives \/ UpstreamLost \/ CancelUpstream \/ BrokerCanceled
  \/ \E r \in Req : ClientSend(r)
  \/ ClientClose \/ ClientFinish \/ ClientGone \/ CancelArrives
  \/ Over /\ UNCHANGED vars

Spec == Init /\ [][Next]_vars

(* A runnable goroutine runs, and gRPC delivers answers, statuses and      *)
(* cancellations.  Nothing is asked of the client or of the broker.        *)
FairSpec ==
  /\ Spec
  /\ WF_vars(Handler) /\ WF_vars(AnswerArrives) /\ WF_vars(CancelUpstream)
  /\ WF_vars(BrokerCanceled) /\ WF_vars(ClientFinish) /\ WF_vars(CancelArrives)

(* A broker that keeps receiving, and commits an append once it is closed. *)
BrokerKeepsServing == WF_vars(BrokerServes)

-----------------------------------------------------------------------------
Statuses == {"open", "Canceled", "Unavailable", "Unknown"} \cup Answer

TypeOK ==
  /\ token \in BOOLEAN /\ uClosed \in BOOLEAN /\ committed \in BOOLEAN
  /\ sent \in Seq(Req) /\ cq \in Seq(Req)
  /\ uq \in Seq(Req) /\ bGot \in Seq(Req)
  /\ cEnd \in {"open", "EOF"}
  /\ ctx \in {"live", "canceled"}
  /\ pc \in {"RecvFirst", "Dispatch", "Send", "Recv", "CloseAndRecv",
             "SendAndClose", "Returned"}
  /\ req \in Req \cup {"nil"} /\ claim \in Req \cup {"nil"}
  /\ resp \in Response \cup {"nil"} /\ upCtx \in {"nil", "stream"}
  /\ broker \in {"idle", "receiving", "ended"}
  /\ answer \in {"open"} \cup Answer
  /\ upEnd \in {"open", "Canceled", "Unavailable"} \cup Answer
  /\ downEnd \in Statuses /\ outcome \in Statuses

(* An append is committed only as a whole and only when the client meant   *)
(* it: the client has half-closed, and the broker holds every request it   *)
(* sent.  A client that cancels or a connection that breaks half-way must  *)
(* not look like its end of stream (journal_server.go:97 and :99).         *)
CommitIsWhole == committed => cEnd = "EOF" /\ bGot = sent

(* The broker receives a prefix of what the client sent, under claims for  *)
(* the journal that the first of those requests names                      *)
(* (journal_server.go:81 and :95).                                         *)
BrokerReceivesPrefix ==
  /\ Len(bGot) <= Len(sent)
  /\ \A i \in 1..Len(bGot) : bGot[i] = sent[i]
  /\ bGot # <<>> => claim = bGot[1]

(* The handler and its connections implement the abstract append: whatever *)
(* is lost, blocked or torn down on the way, all of it is taken or none,   *)
(* and the verdict the client is told is the broker's.  io.EOF of Send and *)
(* of the first Recv, and a missing token (code Unknown at the client),    *)
(* mean that the append was not taken and never will be                    *)
(* (journal_server.go:77, :90 and :95).                                    *)
Verdict == IF answer # "open" THEN answer
           ELSE IF downEnd = "Unknown" THEN "dropped" ELSE "open"

Transaction == INSTANCE AppendTransaction WITH
                 Req <- Req, Committed <- Committed,
                 Refusal <- Refusal, BrokerErr <- BrokerErr,
                 asked <- sent, closed <- (cEnd = "EOF"),
                 stored <- IF committed THEN bGot ELSE <<>>,
                 verdict <- Verdict, outcome <- outcome
ImplementsAppendTransaction == Transaction!Spec

(* Whatever way the client's call ends, the broker does not go on waiting  *)
(* for requests, even if the handler was blocked in Send, in Recv or in    *)
(* CloseAndRecv.                                                           *)
AppendReleased == (outcome # "open") ~> (broker # "receiving")

(* A client that has half-closed gets an outcome, if only its broker       *)
(* serves what it receives: the end of the client's requests is passed on, *)
(* and no end of the upstream stream leaves the handler blocked            *)
(* (journal_server.go:97 and :103).                                        *)
AppendAnswered ==
  BrokerKeepsServing => ((cEnd = "EOF") ~> (outcome # "open"))

(* "The GRPC side of the Gateway proxies requests to our main Gazette      *)
(* cluster": when the broker's answer has come back to the gateway and     *)
(* neither connection broke, it is what the client is given.  The code     *)
(* gives it io.EOF instead when the answer came before the client's last   *)
(* request: Send reports io.EOF and the handler returns it                 *)
(* (journal_server.go:95) without asking CloseAndRecv for the cause.       *)
AnswerReachesClient ==
  /\ pc = "Returned" /\ upEnd \in Answer
  /\ outcome \notin {"Canceled", "Unavailable"}
  => downEnd = upEnd

-----------------------------------------------------------------------------
(* The inductive invariant.  Number the requests of the client: the broker *)
(* has the first Len(bGot), the upstream connection the next Len(uq), the  *)
(* handler the one after while it has one to send, and the client's        *)
(* connection all others, while there is a handler that could take them.   *)

Passed == Len(bGot) + Len(uq)
Held   == IF pc \in {"Dispatch", "Send"} THEN 1 ELSE 0

InOrder ==
  /\ \A i \in 1..Len(bGot) : bGot[i] = sent[i]
  /\ \A i \in 1..Len(uq) : uq[i] = sent[Len(bGot) + i]
  /\ pc \in {"Dispatch", "Send"} => req = sent[Passed + 1]
  /\ pc # "Returned" => \A i \in 1..Len(cq) : cq[i] = sent[Passed + Held + i]

NoneMissing ==
  /\ Passed + Held <= Len(sent)
  /\ pc # "Returned" => Passed + Held + Len(cq) = Len(sent)
  /\ uClosed => cEnd = "EOF" /\ Passed = Len(sent)

(* An RPC upstream is under claims for the first request.                  *)
Claimed == pc = "Dispatch" \/ broker # "idle" => sent # <<>> /\ claim = sent[1]

EndsAgree ==
  /\ pc \in {"RecvFirst", "Dispatch"} => broker = "idle"
  /\ pc \in {"Send", "Recv", "CloseAndRecv", "SendAndClose"} => broker # "idle"
  /\ pc \in {"Send", "Recv"} => ~uClosed
  /\ pc \in {"CloseAndRecv", "SendAndClose"} => uClosed
  /\ broker = "idle" =>
       /\ bGot = <<>> /\ uq = <<>> /\ ~uClosed
       /\ upCtx = "nil" /\ upEnd = "open" /\ answer = "open"
  /\ broker = "receiving" => answer = "open"
  /\ committed <=> answer = Committed
  /\ committed => uClosed /\ uq = <<>>
  /\ upEnd \in Answer => answer = upEnd
  /\ pc = "SendAndClose" => resp = upEnd /\ resp \in Response
  /\ downEnd # "open" <=> pc = "Returned"
  /\ downEnd \in Answer => answer = downEnd
  /\ downEnd = "Unknown" => ~uClosed
  /\ outcome \in Answer \cup {"Unknown"} => downEnd = outcome

(* Every request the client sent is where its number says, the RPC         *)
(* upstream is closed and claimed for what the client meant, and each end  *)
(* that was reported is the broker's (journal_server.go:76-108).           *)
Inv == TypeOK /\ InOrder /\ NoneMissing /\ Claimed /\ EndsAgree
================================================================================
