------------------------------ MODULE UnaryProxy -------------------------------
(***************************************************************************)
(* The unary handlers of both proxies (journal_server.go, shard_server.go) *)
(* and the authorizer every one of them goes through, for any number of    *)
(* calls at once.  The handlers are alike but for the RPC they forward to; *)
(* Replicate forwards nothing.                                             *)
(*                                                                         *)
(* The calls of a proxy share its connection upstream (main.go:90-91),     *)
(* which has room for Slots RPCs, and breaks for all of them.              *)
(***************************************************************************)
EXTENDS Naturals, Sequences, FiniteSets

CONSTANTS Call,       \* calls of clients
          Header,     \* values `authorization` can have in a call's metadata
          BrokerErr,  \* statuses a call can be refused with upstream
          Slots       \* RPCs the connection carries at once

Local == {"open", "OK", "Canceled", "Unavailable", "Unknown"}

ASSUME UnaryAssumption == BrokerErr \cap Local = {} /\ Slots \in Nat \ {0}

VARIABLES
  forwards,  \* the calls of RPCs that are forwarded, all but Replicate
  header,    \* each call's values of `authorization`
  ctx,       \* its context: "live" or "canceled"
  pc,        \* where its handler is
  outgoing,  \* the values of `authorization` of its RPC upstream
  upCtx,     \* what the context of that RPC derives from
  rpc,       \* that RPC upstream: "none", "sent", "ended"
  executed,  \* how often it was carried out there
  answer,    \* what was answered there
  upEnd,     \* what Invoke would return
  downEnd,   \* what the handler returned
  outcome    \* what the client's call ended with

callVars == <<forwards, header>>
upVars   == <<rpc, executed, answer>>
vars == <<forwards, header, ctx, pc, outgoing, upCtx, rpc, executed, answer,
          upEnd, downEnd, outcome>>

All(value) == [c \in Call |-> value]

Init ==
  /\ forwards \in SUBSET Call /\ header \in [Call -> Header]
  /\ ctx = All("live") /\ pc = All("Authorize")
  /\ outgoing = All(<<>>) /\ upCtx = All("nil")
  /\ rpc = All("none") /\ executed = All(0) /\ answer = All("open")
  /\ upEnd = All("open") /\ downEnd = All("open") /\ outcome = All("open")

-----------------------------------------------------------------------------
(* The handler.                                                            *)

(* A plain error of the gateway's own reaches the client as Unknown.       *)
Return(c, end) ==
  /\ pc' = [pc EXCEPT ![c] = "Returned"]
  /\ downEnd' = [downEnd EXCEPT ![c] = end]
  /\ ctx' = [ctx EXCEPT ![c] = "canceled"]
  /\ UNCHANGED <<callVars, outgoing, upCtx, upVars, upEnd, outcome>>

Replicate(c) ==
  pc[c] = "Authorize" /\ c \notin forwards /\ Return(c, "Unknown")

Unauthorized(c) ==
  /\ pc[c] = "Authorize" /\ c \in forwards /\ header[c] = <<>>
  /\ Return(c, "Unknown")

(* Mutant: every value is handed on.                                       *)
AuthorizeAll(c) ==
  /\ pc[c] = "Authorize" /\ c \in forwards /\ header[c] # <<>>
  /\ outgoing' = [outgoing EXCEPT ![c] = @ \o header[c]]
  /\ upCtx' = [upCtx EXCEPT ![c] = "stream"]
  /\ pc' = [pc EXCEPT ![c] = "Invoke"]
  /\ UNCHANGED <<callVars, ctx, upVars, upEnd, downEnd, outcome>>

(* Mutant: the metadata goes into a new context.                           *)
AuthorizeDetached(c) ==
  /\ pc[c] = "Authorize" /\ c \in forwards /\ header[c] # <<>>
  /\ outgoing' = [outgoing EXCEPT ![c] = Append(@, header[c][1])]
  /\ upCtx' = [upCtx EXCEPT ![c] = "background"]
  /\ pc' = [pc EXCEPT ![c] = "Invoke"]
  /\ UNCHANGED <<callVars, ctx, upVars, upEnd, downEnd, outcome>>

(* AppendToOutgoingContext(ctx, "authorization", token[0])                 *)
Authorize(c) ==
  /\ pc[c] = "Authorize" /\ c \in forwards /\ header[c] # <<>>
  /\ outgoing' = [outgoing EXCEPT ![c] = Append(@, header[c][1])]
  /\ upCtx' = [upCtx EXCEPT ![c] = "stream"]
  /\ pc' = [pc EXCEPT ![c] = "Invoke"]
  /\ UNCHANGED <<callVars, ctx, upVars, upEnd, downEnd, outcome>>

UpstreamCanceled(c) == ctx[c] = "canceled" /\ upCtx[c] = "stream"
InUse == {c \in Call : rpc[c] # "none" /\ upEnd[c] = "open"}

(* s.jc.Apply(ctx, req), s.sc.List(ctx, req), ...                          *)
Invoke(c) ==
  /\ pc[c] = "Invoke" /\ Cardinality(InUse) < Slots
  /\ rpc' = [rpc EXCEPT ![c] = "sent"]
  /\ pc' = [pc EXCEPT ![c] = "Wait"]
  /\ UNCHANGED <<callVars, ctx, outgoing, upCtx, executed, answer, upEnd,
                 downEnd, outcome>>

(* No connection, or the call was cancelled while there was no room.       *)
InvokeFails(c) ==
  /\ pc[c] = "Invoke"
  /\ Return(c, "Unavailable") \/ (UpstreamCanceled(c) /\ Return(c, "Canceled"))

(* Mutant: an RPC whose connection broke is made again.                    *)
WaitRetries(c) ==
  \/ /\ pc[c] = "Wait" /\ upEnd[c] \in {"OK"} \cup BrokerErr
     /\ Return(c, upEnd[c])
  \/ /\ pc[c] = "Wait" /\ upEnd[c] = "Unavailable" /\ executed[c] < 2
     /\ pc' = [pc EXCEPT ![c] = "Invoke"]
     /\ upEnd' = [upEnd EXCEPT ![c] = "open"]
     /\ answer' = [answer EXCEPT ![c] = "open"]
     /\ rpc' = [rpc EXCEPT ![c] = "none"]
     /\ UNCHANGED <<callVars, ctx, outgoing, upCtx, executed, downEnd, outcome>>

(* Mutant: the error that comes with an answer is dropped.                 *)
WaitUnchecked(c) ==
  /\ pc[c] = "Wait"
  /\ upEnd[c] # "open" \/ UpstreamCanceled(c)
  /\ Return(c, "OK")

(* `return s.jc.Apply(...)`: the response or the error, as it is.          *)
Wait(c) ==
  /\ pc[c] = "Wait"
  /\ \/ upEnd[c] # "open" /\ Return(c, upEnd[c])
     \/ UpstreamCanceled(c) /\ Return(c, "Canceled")

Handler(c) ==
  \/ Replicate(c) \/ Unauthorized(c) \/ Authorize(c)
  \/ Invoke(c) \/ InvokeFails(c) \/ Wait(c)

-----------------------------------------------------------------------------
(* Upstream: the broker or consumer, and the connection to it.             *)

Executes(c) ==
  /\ rpc[c] = "sent"
  /\ rpc' = [rpc EXCEPT ![c] = "ended"]
  /\ executed' = [executed EXCEPT ![c] = @ + 1]
  /\ answer' = [answer EXCEPT ![c] = "OK"]
  /\ UNCHANGED <<callVars, ctx, pc, outgoing, upCtx, upEnd, downEnd, outcome>>

Refuses(c) ==
  /\ rpc[c] = "sent"
  /\ rpc' = [rpc EXCEPT ![c] = "ended"]
  /\ \E e \in BrokerErr : answer' = [answer EXCEPT ![c] = e]
  /\ UNCHANGED <<callVars, ctx, pc, outgoing, upCtx, executed, upEnd, downEnd,
                 outcome>>

UpEnds(c, end) ==
  /\ upEnd' = [upEnd EXCEPT ![c] = end]
  /\ UNCHANGED <<callVars, ctx, pc, outgoing, upCtx, upVars, downEnd, outcome>>

AnswerArrives(c) == c \in InUse /\ answer[c] # "open" /\ UpEnds(c, answer[c])

CancelUpstream(c) == c \in InUse /\ UpstreamCanceled(c) /\ UpEnds(c, "Canceled")

(* Every RPC on the connection fails, answered or not.                     *)
ConnectionBreaks ==
  /\ InUse # {}
  /\ upEnd' = [c \in Call |-> IF c \in InUse THEN "Unavailable" ELSE upEnd[c]]
  /\ UNCHANGED <<callVars, ctx, pc, outgoing, upCtx, upVars, downEnd, outcome>>

(* The RPC is dropped there before it was carried out.                     *)
Dropped(c) ==
  /\ rpc[c] = "sent" /\ upEnd[c] \in {"Canceled", "Unavailable"}
  /\ rpc' = [rpc EXCEPT ![c] = "ended"]
  /\ UNCHANGED <<callVars, ctx, pc, outgoing, upCtx, executed, answer, upEnd,
                 downEnd, outcome>>

-----------------------------------------------------------------------------
(* The client, and the connection from it.                                 *)

ClientEnds(c, end) ==
  /\ outcome[c] = "open"
  /\ outcome' = [outcome EXCEPT ![c] = end]
  /\ UNCHANGED <<callVars, ctx, pc, outgoing, upCtx, upVars, upEnd, downEnd>>

ClientFinish(c) == downEnd[c] # "open" /\ ClientEnds(c, downEnd[c])
ClientGone(c)   == ClientEnds(c, "Canceled")

CancelArrives(c) ==
  /\ outcome[c] = "Canceled" /\ ctx[c] = "live"
  /\ ctx' = [ctx EXCEPT ![c] = "canceled"]
  /\ UNCHANGED <<callVars, pc, outgoing, upCtx, upVars, upEnd, downEnd,
                 outcome>>

Over ==
  \A c \in Call :
    pc[c] = "Returned" /\ outcome[c] # "open" /\ rpc[c] # "sent"

Next ==
  \/ \E c \in Call :
       \/ Handler(c)
       \/ Executes(c) \/ Refuses(c) \/ Dropped(c)
       \/ AnswerArrives(c) \/ CancelUpstream(c)
       \/ ClientFinish(c) \/ ClientGone(c) \/ CancelArrives(c)
  \/ ConnectionBreaks
  \/ Over /\ UNCHANGED vars

Spec == Init /\ [][Next]_vars

(* A handler that can go on goes on: one waiting for room takes it when    *)
(* there is some.  gRPC delivers answers, statuses and cancellations.      *)
(* Nothing is asked of those upstream, who may take forever to answer.     *)
FairSpec ==
  /\ Spec
  /\ \A c \in Call :
       /\ WF_vars(Authorize(c)) /\ WF_vars(Invoke(c)) /\ WF_vars(Wait(c))
       /\ WF_vars(AnswerArrives(c)) /\ WF_vars(CancelUpstream(c))
       /\ WF_vars(ClientFinish(c)) /\ WF_vars(CancelArrives(c))

-----------------------------------------------------------------------------
Answer == {"open", "OK"} \cup BrokerErr
Ends   == {"Canceled", "Unavailable", "Unknown"} \cup Answer

TypeOK ==
  /\ forwards \subseteq Call /\ header \in [Call -> Header]
  /\ ctx \in [Call -> {"live", "canceled"}]
  /\ pc \in [Call -> {"Authorize", "Invoke", "Wait", "Returned"}]
  /\ outgoing \in [Call -> {<<>>} \cup {<<h[1]>> : h \in Header \ {<<>>}}]
  /\ upCtx \in [Call -> {"nil", "stream"}]
  /\ rpc \in [Call -> {"none", "sent", "ended"}]
  /\ executed \in [Call -> Nat]
  /\ answer \in [Call -> Answer] /\ upEnd \in [Call -> Ends \ {"Unknown"}]
  /\ downEnd \in [Call -> Ends] /\ outcome \in [Call -> Ends]

(* Whatever was done upstream was done under the first token its caller    *)
(* gave and no other, and never for a Replicate or for a caller without    *)
(* one (journal_server.go:19, :22 and :115).                               *)
OwnToken ==
  \A c \in Call : rpc[c] # "none" =>
    c \in forwards /\ header[c] # <<>> /\ outgoing[c] = <<header[c][1]>>

(* A call that succeeded was carried out; one that was refused, upstream   *)
(* or by the gateway itself, was not.  Only a call that was cut short      *)
(* leaves open which (journal_server.go:50 and :112).                      *)
OutcomeTrue ==
  \A c \in Call :
    /\ outcome[c] = "OK" => executed[c] > 0
    /\ outcome[c] \in BrokerErr \cup {"Unknown"} => executed[c] = 0

(* No call is carried out twice, in particular not when the connection     *)
(* breaks between its execution and its answer.                            *)
AtMostOnce == \A c \in Call : executed[c] <= 1

(* Calls whose clients have gone do not keep others from being made, even  *)
(* if those upstream never answer them.                                    *)
AbandonedDoNotStarve ==
  \A c \in Call :
    (pc[c] = "Invoke" /\ \A d \in Call \ {c} : outcome[d] # "open")
      ~> (pc[c] # "Invoke")

-----------------------------------------------------------------------------
(* The inductive invariant.                                                *)

(* The connection carries no more RPCs than it has room for.               *)
RoomKept == IsFiniteSet(InUse) /\ Cardinality(InUse) <= Slots

(* A call gets upstream only through its authorizer.                       *)
Authorized ==
  \A c \in Call :
    /\ pc[c] = "Authorize" => outgoing[c] = <<>>
    /\ pc[c] \in {"Authorize", "Invoke"} => rpc[c] = "none"
    /\ pc[c] = "Wait" => rpc[c] # "none"
    /\ pc[c] = "Invoke" \/ rpc[c] # "none" =>
         c \in forwards /\ header[c] # <<>> /\ outgoing[c] = <<header[c][1]>>

(* Each end that is reported is the one the call had upstream, or the      *)
(* gateway's own for a call that it never made there.                      *)
EndsAgree ==
  \A c \in Call :
    /\ executed[c] = IF answer[c] = "OK" THEN 1 ELSE 0
    /\ answer[c] # "open" => rpc[c] = "ended"
    /\ upEnd[c] # "open" => rpc[c] # "none"
    /\ upEnd[c] \in {"OK"} \cup BrokerErr => answer[c] = upEnd[c]
    /\ downEnd[c] # "open" <=> pc[c] = "Returned"
    /\ downEnd[c] \in {"OK"} \cup BrokerErr => answer[c] = downEnd[c]
    /\ downEnd[c] = "Unknown" => rpc[c] = "none"
    /\ outcome[c] \in {"OK", "Unknown"} \cup BrokerErr =>
         downEnd[c] = outcome[c]

(* Calls that share a connection do not share anything else: each has its  *)
(* own token, its own answer and its own end (journal_server.go:14-23 and  *)
(* :49-51).                                                                *)
Inv == TypeOK /\ RoomKept /\ Authorized /\ EndsAgree
================================================================================
