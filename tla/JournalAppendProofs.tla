-------------------------- MODULE JournalAppendProofs --------------------------
(***************************************************************************)
(* Theorems about JournalProxy.Append, for every set of requests,          *)
(* responses and statuses, every window and every length of append: type   *)
(* correctness, the inductive invariant Inv of JournalAppend, the safety   *)
(* properties that follow from it, and the refinement of                   *)
(* AppendTransaction.                                                      *)
(***************************************************************************)
EXTENDS JournalAppend, TLAPS

USE DEF Local, Response, Answer, brokerVars, clientVars, handlerVars,
        UpstreamCanceled

-----------------------------------------------------------------------------
(* Type correctness.                                                       *)

LEMMA TypeInit == Init => TypeOK
<1>1. \A S : <<>> \in Seq(S)
  OBVIOUS
<1>2. QED
  BY <1>1 DEF Init, TypeOK, Statuses

(* What a handler returns reaches the client as one of Statuses.           *)
LEMMA ReturnTyped ==
  ASSUME TypeOK, NEW err, Return(err), StatusOf(err) \in Statuses
  PROVE  TypeOK'
  BY DEF TypeOK, Return, Statuses

(* That the handler has a response to return at SendAndClose is more than  *)
(* its type, so TypeOK alone is not inductive.                             *)
LEMMA TypeNext == Inv /\ [Next]_vars => TypeOK'
<1> SUFFICES ASSUME Inv, [Next]_vars PROVE TypeOK'
  OBVIOUS
<1>0. TypeOK
  BY DEF Inv
<1>1. CASE RecvFirst
  BY <1>1, <1>0 DEF RecvFirst, TypeOK
<1>2. CASE RecvFirstFails
  BY <1>2, <1>0, ReturnTyped DEF RecvFirstFails, StatusOf, Statuses
<1>3. CASE Unauthorized
  BY <1>3, <1>0, ReturnTyped DEF Unauthorized, StatusOf, Statuses
<1>4. CASE Dispatch
  BY <1>4, <1>0 DEF Dispatch, TypeOK
<1>5. CASE DispatchFails
  BY <1>5, <1>0, ReturnTyped DEF DispatchFails, StatusOf, Statuses
<1>6. CASE Send
  <2>1. req \in Req
    BY <1>6 DEF Send, Inv, TypeOK, InOrder, NoneMissing, Passed, Held
  <2>2. uq' \in Seq(Req)
    BY <1>6, <1>0, <2>1 DEF Send, TypeOK
  <2>3. QED
    BY <1>6, <1>0, <2>2 DEF Send, TypeOK
<1>7. CASE SendFails
  BY <1>7, <1>0, ReturnTyped DEF SendFails, StatusOf, Statuses
<1>8. CASE Recv
  BY <1>8, <1>0 DEF Recv, TypeOK
<1>9. CASE RecvEOF
  BY <1>9, <1>0 DEF RecvEOF, TypeOK
<1>10. CASE RecvFails
  BY <1>10, <1>0, ReturnTyped DEF RecvFails, StatusOf, Statuses
<1>11. CASE Answered
  BY <1>11, <1>0 DEF Answered, TypeOK
<1>12. CASE AnswerFails
  <2>1. CASE upEnd \notin Response \cup {"open"} /\ Return(upEnd)
    <3>1. upEnd \in Statuses
      BY <1>0 DEF TypeOK, Statuses
    <3>2. QED
      BY <1>0, <2>1, <3>1, ReturnTyped DEF StatusOf, Statuses
  <2>2. CASE Return("Canceled")
    BY <1>0, <2>2, ReturnTyped DEF StatusOf, Statuses
  <2>3. QED
    BY <1>12, <2>1, <2>2 DEF AnswerFails
<1>13. CASE SendAndClose
  <2>1. CASE Return(resp)
    BY <1>0, <1>13, <2>1, ReturnTyped
       DEF SendAndClose, Inv, EndsAgree, StatusOf, Statuses
  <2>2. CASE Return("Canceled")
    BY <1>0, <2>2, ReturnTyped DEF StatusOf, Statuses
  <2>3. QED
    BY <1>13, <2>1, <2>2 DEF SendAndClose
<1>14. CASE BrokerRecv
  BY <1>14, <1>0 DEF BrokerRecv, TypeOK
<1>15. CASE BrokerCommit
  BY <1>15, <1>0 DEF BrokerCommit, TypeOK
<1>16. ASSUME NEW a \in Refusal \cup BrokerErr, BrokerRefuse(a) PROVE TypeOK'
  BY <1>16, <1>0 DEF BrokerRefuse, TypeOK
<1>17. CASE AnswerArrives
  BY <1>17, <1>0 DEF AnswerArrives, TypeOK
<1>18. CASE UpstreamLost
  BY <1>18, <1>0 DEF UpstreamLost, TypeOK
<1>19. CASE CancelUpstream
  BY <1>19, <1>0 DEF CancelUpstream, TypeOK
<1>20. CASE BrokerCanceled
  BY <1>20, <1>0 DEF BrokerCanceled, TypeOK
<1>21. ASSUME NEW r \in Req, ClientSend(r) PROVE TypeOK'
  BY <1>21, <1>0 DEF ClientSend, TypeOK
<1>22. CASE ClientClose
  BY <1>22, <1>0 DEF ClientClose, TypeOK
<1>23. CASE ClientFinish
  BY <1>23, <1>0 DEF ClientFinish, TypeOK
<1>24. CASE ClientGone
  BY <1>24, <1>0 DEF ClientGone, TypeOK, Statuses
<1>25. CASE CancelArrives
  BY <1>25, <1>0 DEF CancelArrives, TypeOK
<1>26. CASE UNCHANGED vars
  BY <1>26, <1>0 DEF vars, TypeOK
<1>27. QED
  BY <1>1, <1>2, <1>3, <1>4, <1>5, <1>6, <1>7, <1>8, <1>9, <1>10, <1>11,
     <1>12, <1>13, <1>14, <1>15, <1>16, <1>17, <1>18, <1>19, <1>20, <1>21,
     <1>22, <1>23, <1>24, <1>25, <1>26
     DEF Next, Handler, BrokerServes

-----------------------------------------------------------------------------
(* The inductive invariant.                                                *)

LEMMA InvInit == Init => Inv
<1> SUFFICES ASSUME Init PROVE Inv
  OBVIOUS
<1>1. InOrder /\ NoneMissing /\ Claimed
  BY DEF Init, InOrder, NoneMissing, Claimed, Passed, Held
<1>2. EndsAgree
  BY AppendAssumption DEF Init, EndsAgree
<1>3. QED
  BY <1>1, <1>2, TypeInit DEF Inv

(* The part of Inv that is not its type.                                   *)
Flow == InOrder /\ NoneMissing /\ Claimed /\ EndsAgree

(* A handler that returns keeps it, if what it returns is true: an answer  *)
(* is the broker's, and Unknown means that the RPC upstream was not closed.*)
LEMMA ReturnKeeps ==
  ASSUME Inv, pc # "Returned", NEW err, Return(err),
         StatusOf(err) \in Statuses \ {"open"},
         StatusOf(err) \in Answer => answer = StatusOf(err),
         StatusOf(err) = "Unknown" => ~uClosed
  PROVE  Flow'
<1>1. /\ pc' = "Returned" /\ downEnd' = StatusOf(err)
      /\ UNCHANGED <<clientVars, cq, uq, uClosed, upEnd, upCtx, brokerVars,
                     claim>>
  BY DEF Return
<1>2. Passed' = Passed /\ Held' = 0 /\ Passed \in Nat /\ Held \in {0, 1}
  BY <1>1 DEF Passed, Held, Inv, TypeOK
<1>3. InOrder'
  BY <1>1, <1>2 DEF Inv, InOrder
<1>4. NoneMissing'
  BY <1>1, <1>2 DEF Inv, TypeOK, NoneMissing
<1>5. Claimed'
  BY <1>1 DEF Inv, Claimed
<1>6. EndsAgree'
  BY <1>1, AppendAssumption DEF Inv, EndsAgree, Statuses
<1>7. QED
  BY <1>3, <1>4, <1>5, <1>6 DEF Flow

LEMMA FlowNext == Inv /\ [Next]_vars => Flow'
<1> SUFFICES ASSUME Inv, [Next]_vars PROVE Flow'
  OBVIOUS
<1>1. CASE RecvFirst
  <2>1. InOrder'
    BY <1>1 DEF RecvFirst, Inv, TypeOK, InOrder, NoneMissing, Passed, Held
  <2>2. NoneMissing'
    BY <1>1 DEF RecvFirst, Inv, TypeOK, NoneMissing, EndsAgree, Passed, Held
  <2>3. Claimed'
    <3>1. pc' = "Dispatch" /\ broker' = "idle" /\ sent' = sent /\ claim' = req'
      BY <1>1 DEF RecvFirst, Inv, EndsAgree
    <3>2. Passed' = 0 /\ Held' = 1
      BY <1>1, <3>1 DEF RecvFirst, Inv, EndsAgree, Passed, Held
    <3>3. QED
      BY <2>1, <2>2, <3>1, <3>2 DEF Inv, TypeOK, InOrder, NoneMissing, Claimed
  <2>4. EndsAgree'
    BY <1>1, AppendAssumption DEF RecvFirst, Inv, TypeOK, EndsAgree
  <2>5. QED
    BY <2>1, <2>2, <2>3, <2>4 DEF Flow
<1>2. CASE RecvFirstFails
  BY <1>2, ReturnKeeps, AppendAssumption
     DEF RecvFirstFails, StatusOf, Statuses, Inv, TypeOK, EndsAgree
<1>3. CASE Unauthorized
  BY <1>3, ReturnKeeps, AppendAssumption
     DEF Unauthorized, StatusOf, Statuses, Inv, TypeOK, EndsAgree
<1>4. CASE Dispatch
  <2>1. InOrder'
    BY <1>4 DEF Dispatch, Inv, TypeOK, InOrder, NoneMissing, Passed, Held
  <2>2. NoneMissing'
    BY <1>4 DEF Dispatch, Inv, TypeOK, NoneMissing, EndsAgree, Passed, Held
  <2>3. Claimed'
    BY <1>4 DEF Dispatch, Inv, TypeOK, Claimed, EndsAgree
  <2>4. EndsAgree'
    BY <1>4, AppendAssumption DEF Dispatch, Inv, TypeOK, EndsAgree
  <2>5. QED
    BY <2>1, <2>2, <2>3, <2>4 DEF Flow
<1>5. CASE DispatchFails
  BY <1>5, ReturnKeeps, AppendAssumption
     DEF DispatchFails, StatusOf, Statuses, Inv, TypeOK, EndsAgree
<1>6. CASE Send
  <2>1. InOrder'
    <3>1. uq' = Append(uq, req) /\ Len(uq') = Len(uq) + 1
      BY <1>6 DEF Send, Inv, TypeOK
    <3>2. /\ \A i \in 1..Len(uq) : uq'[i] = uq[i]
          /\ uq'[Len(uq) + 1] = req
      BY <3>1 DEF Inv, TypeOK
    <3>3. Passed' = Passed + 1 /\ Held = 1 /\ Held' = 0
      BY <1>6, <3>1 DEF Send, Passed, Held, Inv, TypeOK
    <3>4. \A i \in 1..Len(uq') : uq'[i] = sent[Len(bGot) + i]
      <4>1. req = sent[Len(bGot) + (Len(uq) + 1)]
        BY <1>6 DEF Send, Inv, InOrder, Passed, TypeOK
      <4>2. \A i \in 1..Len(uq) : uq[i] = sent[Len(bGot) + i]
        BY DEF Inv, InOrder
      <4>3. Len(uq) \in Nat
        BY DEF Inv, TypeOK
      <4>4. \A i \in 1..Len(uq') : i \in 1..Len(uq) \/ i = Len(uq) + 1
        BY <3>1, <4>3
      <4>5. sent[Len(bGot) + (Len(uq) + 1)] = uq'[Len(uq) + 1]
        BY <3>2, <4>1
      <4>6. \A i \in 1..Len(uq) : uq'[i] = sent[Len(bGot) + i]
        BY <3>2, <4>2
      <4>7. QED
        BY <4>4, <4>5, <4>6
    <3>5. QED
      BY <1>6, <3>3, <3>4 DEF Send, Inv, InOrder, Passed, TypeOK
  <2>2. NoneMissing'
    BY <1>6 DEF Send, Inv, TypeOK, NoneMissing, EndsAgree, Passed, Held
  <2>3. Claimed'
    BY <1>6 DEF Send, Inv, TypeOK, Claimed, EndsAgree
  <2>4. EndsAgree'
    BY <1>6, AppendAssumption DEF Send, Inv, TypeOK, EndsAgree
  <2>5. QED
    BY <2>1, <2>2, <2>3, <2>4 DEF Flow
<1>7. CASE SendFails
  BY <1>7, ReturnKeeps, AppendAssumption
     DEF SendFails, StatusOf, Statuses, Inv, TypeOK, EndsAgree
<1>8. CASE Recv
  <2>1. InOrder'
    BY <1>8 DEF Recv, Inv, TypeOK, InOrder, NoneMissing, Passed, Held
  <2>2. NoneMissing'
    BY <1>8 DEF Recv, Inv, TypeOK, NoneMissing, EndsAgree, Passed, Held
  <2>3. Claimed'
    BY <1>8 DEF Recv, Inv, TypeOK, Claimed, EndsAgree
  <2>4. EndsAgree'
    BY <1>8, AppendAssumption DEF Recv, Inv, TypeOK, EndsAgree
  <2>5. QED
    BY <2>1, <2>2, <2>3, <2>4 DEF Flow
<1>9. CASE RecvEOF
  <2>1. InOrder'
    BY <1>9 DEF RecvEOF, Inv, TypeOK, InOrder, NoneMissing, Passed, Held
  <2>2. NoneMissing'
    BY <1>9 DEF RecvEOF, Inv, TypeOK, NoneMissing, EndsAgree, Passed, Held
  <2>3. Claimed'
    BY <1>9 DEF RecvEOF, Inv, TypeOK, Claimed, EndsAgree
  <2>4. EndsAgree'
    BY <1>9, AppendAssumption DEF RecvEOF, Inv, TypeOK, EndsAgree
  <2>5. QED
    BY <2>1, <2>2, <2>3, <2>4 DEF Flow
<1>10. CASE RecvFails
  BY <1>10, ReturnKeeps, AppendAssumption
     DEF RecvFails, StatusOf, Statuses, Inv, TypeOK, EndsAgree
<1>11. CASE Answered
  <2>1. InOrder'
    BY <1>11 DEF Answered, Inv, TypeOK, InOrder, NoneMissing, Passed, Held
  <2>2. NoneMissing'
    BY <1>11 DEF Answered, Inv, TypeOK, NoneMissing, EndsAgree, Passed, Held
  <2>3. Claimed'
    BY <1>11 DEF Answered, Inv, TypeOK, Claimed, EndsAgree
  <2>4. EndsAgree'
    BY <1>11, AppendAssumption DEF Answered, Inv, TypeOK, EndsAgree
  <2>5. QED
    BY <2>1, <2>2, <2>3, <2>4 DEF Flow
<1>12. CASE AnswerFails
  BY <1>12, ReturnKeeps, AppendAssumption
     DEF AnswerFails, StatusOf, Statuses, Inv, TypeOK, EndsAgree
<1>13. CASE SendAndClose
  BY <1>13, ReturnKeeps, AppendAssumption
     DEF SendAndClose, StatusOf, Statuses, Inv, TypeOK, EndsAgree
<1>14. CASE BrokerRecv
  <2>1. InOrder'
    BY <1>14 DEF BrokerRecv, Inv, TypeOK, InOrder, NoneMissing, Passed, Held
  <2>2. NoneMissing'
    BY <1>14 DEF BrokerRecv, Inv, TypeOK, NoneMissing, EndsAgree, Passed, Held
  <2>3. Claimed'
    BY <1>14 DEF BrokerRecv, Inv, TypeOK, Claimed, EndsAgree
  <2>4. EndsAgree'
    BY <1>14, AppendAssumption DEF BrokerRecv, Inv, TypeOK, EndsAgree
  <2>5. QED
    BY <2>1, <2>2, <2>3, <2>4 DEF Flow
<1>15. CASE BrokerCommit
  <2>1. InOrder'
    BY <1>15 DEF BrokerCommit, Inv, TypeOK, InOrder, NoneMissing, Passed, Held
  <2>2. NoneMissing'
    BY <1>15 DEF BrokerCommit, Inv, TypeOK, NoneMissing, EndsAgree, Passed, Held
  <2>3. Claimed'
    BY <1>15 DEF BrokerCommit, Inv, TypeOK, Claimed, EndsAgree
  <2>4. EndsAgree'
    BY <1>15, AppendAssumption DEF BrokerCommit, Inv, TypeOK, EndsAgree
  <2>5. QED
    BY <2>1, <2>2, <2>3, <2>4 DEF Flow
<1>16. ASSUME NEW a \in Refusal \cup BrokerErr, BrokerRefuse(a) PROVE Flow'
  <2>1. InOrder'
    BY <1>16 DEF BrokerRefuse, Inv, TypeOK, InOrder, NoneMissing, Passed, Held
  <2>2. NoneMissing'
    BY <1>16 DEF BrokerRefuse, Inv, TypeOK, NoneMissing, EndsAgree, Passed, Held
  <2>3. Claimed'
    BY <1>16 DEF BrokerRefuse, Inv, TypeOK, Claimed, EndsAgree
  <2>4. EndsAgree'
    BY <1>16, AppendAssumption DEF BrokerRefuse, Inv, TypeOK, EndsAgree
  <2>5. QED
    BY <2>1, <2>2, <2>3, <2>4 DEF Flow
<1>17. CASE AnswerArrives
  <2>1. InOrder'
    BY <1>17 DEF AnswerArrives, Inv, TypeOK, InOrder, NoneMissing, Passed, Held
  <2>2. NoneMissing'
    BY <1>17
       DEF AnswerArrives, Inv, TypeOK, NoneMissing, EndsAgree, Passed, Held
  <2>3. Claimed'
    BY <1>17 DEF AnswerArrives, Inv, TypeOK, Claimed, EndsAgree
  <2>4. EndsAgree'
    BY <1>17, AppendAssumption DEF AnswerArrives, Inv, TypeOK, EndsAgree
  <2>5. QED
    BY <2>1, <2>2, <2>3, <2>4 DEF Flow
<1>18. CASE UpstreamLost
  <2>1. InOrder'
    BY <1>18 DEF UpstreamLost, Inv, TypeOK, InOrder, NoneMissing, Passed, Held
  <2>2. NoneMissing'
    BY <1>18 DEF UpstreamLost, Inv, TypeOK, NoneMissing, EndsAgree, Passed, Held
  <2>3. Claimed'
    BY <1>18 DEF UpstreamLost, Inv, TypeOK, Claimed, EndsAgree
  <2>4. EndsAgree'
    BY <1>18, AppendAssumption DEF UpstreamLost, Inv, TypeOK, EndsAgree
  <2>5. QED
    BY <2>1, <2>2, <2>3, <2>4 DEF Flow
<1>19. CASE CancelUpstream
  <2>1. InOrder'
    BY <1>19 DEF CancelUpstream, Inv, TypeOK, InOrder, NoneMissing, Passed, Held
  <2>2. NoneMissing'
    BY <1>19
       DEF CancelUpstream, Inv, TypeOK, NoneMissing, EndsAgree, Passed, Held
  <2>3. Claimed'
    BY <1>19 DEF CancelUpstream, Inv, TypeOK, Claimed, EndsAgree
  <2>4. EndsAgree'
    BY <1>19, AppendAssumption DEF CancelUpstream, Inv, TypeOK, EndsAgree
  <2>5. QED
    BY <2>1, <2>2, <2>3, <2>4 DEF Flow
<1>20. CASE BrokerCanceled
  <2>1. InOrder'
    BY <1>20 DEF BrokerCanceled, Inv, TypeOK, InOrder, NoneMissing, Passed, Held
  <2>2. NoneMissing'
    BY <1>20
       DEF BrokerCanceled, Inv, TypeOK, NoneMissing, EndsAgree, Passed, Held
  <2>3. Claimed'
    BY <1>20 DEF BrokerCanceled, Inv, TypeOK, Claimed, EndsAgree
  <2>4. EndsAgree'
    BY <1>20, AppendAssumption DEF BrokerCanceled, Inv, TypeOK, EndsAgree
  <2>5. QED
    BY <2>1, <2>2, <2>3, <2>4 DEF Flow
<1>21. ASSUME NEW r \in Req, ClientSend(r) PROVE Flow'
  <2> USE <1>21
  <2>0. /\ sent' = Append(sent, r) /\ Len(sent') = Len(sent) + 1
        /\ \A i \in 1..Len(sent) : sent'[i] = sent[i]
        /\ sent'[Len(sent) + 1] = r
    BY DEF ClientSend, Inv, TypeOK
  <2>1. /\ cq' = Append(cq, r) /\ Len(cq') = Len(cq) + 1
        /\ \A i \in 1..Len(cq) : cq'[i] = cq[i]
        /\ cq'[Len(cq) + 1] = r
    BY DEF ClientSend, Inv, TypeOK
  <2>2. /\ UNCHANGED <<pc, req, bGot, uq, uClosed, cEnd, broker, claim>>
        /\ Passed' = Passed /\ Held' = Held
    BY DEF ClientSend, Passed, Held
  <2>3. /\ Passed \in Nat /\ Held \in Nat
        /\ Len(sent) \in Nat /\ Len(cq) \in Nat
    BY DEF Inv, TypeOK, Passed, Held
  <2>4. InOrder'
    <3>1. /\ \A i \in 1..Len(bGot) : bGot[i] = sent'[i]
          /\ \A i \in 1..Len(uq) : uq[i] = sent'[Len(bGot) + i]
          /\ pc \in {"Dispatch", "Send"} => req = sent'[Passed + 1]
      BY <2>0 DEF Inv, TypeOK, InOrder, NoneMissing, Passed, Held
    <3>2. ASSUME pc # "Returned", NEW i \in 1..Len(cq')
          PROVE  cq'[i] = sent'[Passed + Held + i]
      <4>1. Passed + Held + Len(cq) = Len(sent)
        BY <3>2 DEF Inv, NoneMissing
      <4>2. CASE i = Len(cq) + 1
        BY <2>0, <2>1, <2>3, <4>1, <4>2
      <4>3. CASE i \in 1..Len(cq)
        <5>1. Passed + Held + i \in 1..Len(sent)
          BY <2>3, <4>1, <4>3
        <5>2. cq[i] = sent[Passed + Held + i]
          BY <3>2, <4>3 DEF Inv, InOrder
        <5>3. QED
          BY <2>0, <2>1, <4>3, <5>1, <5>2
      <4>4. QED
        BY <2>1, <2>3, <3>2, <4>2, <4>3
    <3>3. QED
      BY <2>2, <3>1, <3>2 DEF InOrder
  <2>5. NoneMissing'
    <3>1. ~uClosed
      BY DEF ClientSend, Inv, NoneMissing
    <3>2. QED
      BY <2>0, <2>1, <2>2, <2>3, <3>1 DEF Inv, NoneMissing
  <2>6. Claimed'
    BY <2>0, <2>2 DEF Inv, TypeOK, Claimed
  <2>7. EndsAgree'
    BY AppendAssumption DEF ClientSend, Inv, TypeOK, EndsAgree
  <2>8. QED
    BY <2>4, <2>5, <2>6, <2>7 DEF Flow
<1>22. CASE ClientClose
  <2>1. InOrder'
    BY <1>22 DEF ClientClose, Inv, TypeOK, InOrder, NoneMissing, Passed, Held
  <2>2. NoneMissing'
    BY <1>22 DEF ClientClose, Inv, TypeOK, NoneMissing, EndsAgree, Passed, Held
  <2>3. Claimed'
    BY <1>22 DEF ClientClose, Inv, TypeOK, Claimed, EndsAgree
  <2>4. EndsAgree'
    BY <1>22, AppendAssumption DEF ClientClose, Inv, TypeOK, EndsAgree
  <2>5. QED
    BY <2>1, <2>2, <2>3, <2>4 DEF Flow
<1>23. CASE ClientFinish
  <2>1. InOrder'
    BY <1>23 DEF ClientFinish, Inv, TypeOK, InOrder, NoneMissing, Passed, Held
  <2>2. NoneMissing'
    BY <1>23 DEF ClientFinish, Inv, TypeOK, NoneMissing, EndsAgree, Passed, Held
  <2>3. Claimed'
    BY <1>23 DEF ClientFinish, Inv, TypeOK, Claimed, EndsAgree
  <2>4. EndsAgree'
    BY <1>23, AppendAssumption DEF ClientFinish, Inv, TypeOK, EndsAgree
  <2>5. QED
    BY <2>1, <2>2, <2>3, <2>4 DEF Flow
<1>24. CASE ClientGone
  <2>1. InOrder'
    BY <1>24 DEF ClientGone, Inv, TypeOK, InOrder, NoneMissing, Passed, Held
  <2>2. NoneMissing'
    BY <1>24 DEF ClientGone, Inv, TypeOK, NoneMissing, EndsAgree, Passed, Held
  <2>3. Claimed'
    BY <1>24 DEF ClientGone, Inv, TypeOK, Claimed, EndsAgree
  <2>4. EndsAgree'
    BY <1>24, AppendAssumption DEF ClientGone, Inv, TypeOK, EndsAgree
  <2>5. QED
    BY <2>1, <2>2, <2>3, <2>4 DEF Flow
<1>25. CASE CancelArrives
  <2>1. InOrder'
    BY <1>25 DEF CancelArrives, Inv, TypeOK, InOrder, NoneMissing, Passed, Held
  <2>2. NoneMissing'
    BY <1>25
       DEF CancelArrives, Inv, TypeOK, NoneMissing, EndsAgree, Passed, Held
  <2>3. Claimed'
    BY <1>25 DEF CancelArrives, Inv, TypeOK, Claimed, EndsAgree
  <2>4. EndsAgree'
    BY <1>25, AppendAssumption DEF CancelArrives, Inv, TypeOK, EndsAgree
  <2>5. QED
    BY <2>1, <2>2, <2>3, <2>4 DEF Flow
<1>26. CASE UNCHANGED vars
  <2>1. InOrder'
    BY <1>26 DEF vars, Inv, TypeOK, InOrder, NoneMissing, Passed, Held
  <2>2. NoneMissing'
    BY <1>26 DEF vars, Inv, TypeOK, NoneMissing, EndsAgree, Passed, Held
  <2>3. Claimed'
    BY <1>26 DEF vars, Inv, TypeOK, Claimed, EndsAgree
  <2>4. EndsAgree'
    BY <1>26, AppendAssumption DEF vars, Inv, TypeOK, EndsAgree
  <2>5. QED
    BY <2>1, <2>2, <2>3, <2>4 DEF Flow
<1>27. QED
  BY <1>1, <1>2, <1>3, <1>4, <1>5, <1>6, <1>7, <1>8, <1>9, <1>10, <1>11, <1>12,
     <1>13, <1>14, <1>15, <1>16, <1>17, <1>18, <1>19, <1>20, <1>21, <1>22,
     <1>23, <1>24, <1>25, <1>26
     DEF Next, Handler, BrokerServes

LEMMA InvNext == Inv /\ [Next]_vars => Inv'
  BY TypeNext, FlowNext DEF Inv, Flow

(* The inductive invariant holds.                                          *)
THEOREM InvCorrect == Spec => []Inv
  BY InvInit, InvNext, PTL DEF Spec

(* Every variable keeps its type.                                          *)
THEOREM TypeCorrect == Spec => []TypeOK
<1>1. Inv => TypeOK
  BY DEF Inv
<1>2. QED
  BY <1>1, InvCorrect, PTL

(* An append is committed only as a whole and only when the client meant   *)
(* it.                                                                     *)
THEOREM CommitsWhole == Spec => []CommitIsWhole
<1>1. Inv => CommitIsWhole
  <2> SUFFICES ASSUME Inv, committed PROVE cEnd = "EOF" /\ bGot = sent
    BY DEF CommitIsWhole
  <2>1. cEnd = "EOF" /\ Len(bGot) = Len(sent)
    BY DEF Inv, TypeOK, NoneMissing, EndsAgree, Passed
  <2>2. QED
    BY <2>1 DEF Inv, TypeOK, InOrder
<1>2. QED
  BY <1>1, InvCorrect, PTL

(* The broker receives a prefix of what the client sent, under claims for  *)
(* the journal that the first of those requests names.                     *)
THEOREM ReceivesPrefix == Spec => []BrokerReceivesPrefix
<1>1. Inv => BrokerReceivesPrefix
  <2> SUFFICES ASSUME Inv PROVE BrokerReceivesPrefix
    OBVIOUS
  <2>1. Len(bGot) <= Len(sent) /\ \A i \in 1..Len(bGot) : bGot[i] = sent[i]
    BY DEF Inv, TypeOK, InOrder, NoneMissing, Passed, Held
  <2>2. bGot # <<>> => claim = bGot[1]
    BY <2>1 DEF Inv, TypeOK, Claimed, EndsAgree
  <2>3. QED
    BY <2>1, <2>2 DEF BrokerReceivesPrefix
<1>2. QED
  BY <1>1, InvCorrect, PTL

-----------------------------------------------------------------------------
(* Refinement.                                                             *)

Stored == IF committed THEN bGot ELSE <<>>

(* A handler's return that is no answer leaves the journal's verdict as it *)
(* is, or is the end of an append that nobody will take.                   *)
LEMMA ReturnRefines ==
  ASSUME Inv, NEW err, Return(err), pc # "Returned",
         StatusOf(err) \in {"Canceled", "Unavailable", "Unknown"} \cup Answer,
         StatusOf(err) \in Answer => answer = StatusOf(err)
  PROVE  [Transaction!Next]_(Transaction!vars)
<1>1. /\ UNCHANGED <<sent, cEnd, outcome, Stored, answer>>
      /\ downEnd = "open" /\ downEnd' = StatusOf(err)
  BY DEF Return, Stored, Inv, EndsAgree
<1>2. CASE answer # "open" \/ StatusOf(err) # "Unknown"
  <2>1. UNCHANGED Verdict
    BY <1>1, <1>2, AppendAssumption DEF Verdict
  <2>2. QED
    BY <1>1, <2>1 DEF Transaction!vars, Stored
<1>3. CASE answer = "open" /\ StatusOf(err) = "Unknown"
  <2>1. Verdict = "open" /\ Verdict' = "dropped"
    BY <1>1, <1>3 DEF Verdict
  <2>2. Transaction!Drop
    BY <1>1, <2>1 DEF Transaction!Drop, Stored
  <2>3. QED
    BY <2>2 DEF Transaction!Next
<1>4. QED
  BY <1>2, <1>3

LEMMA RefinementStep ==
  Inv /\ [Next]_vars => [Transaction!Next]_(Transaction!vars)
<1> SUFFICES ASSUME Inv, [Next]_vars
             PROVE  [Transaction!Next]_(Transaction!vars)
  OBVIOUS
<1> USE DEF Transaction!vars
<1>1. CASE RecvFirst \/ Dispatch \/ Send \/ Recv \/ RecvEOF \/ Answered
  BY <1>1 DEF RecvFirst, Dispatch, Send, Recv, RecvEOF, Answered, Verdict
<1>2. CASE \/ RecvFirstFails \/ Unauthorized \/ DispatchFails
           \/ SendFails \/ RecvFails
  BY <1>2, ReturnRefines, AppendAssumption
     DEF RecvFirstFails, Unauthorized, DispatchFails, SendFails, RecvFails,
         StatusOf
<1>3. CASE AnswerFails
  BY <1>3, ReturnRefines, AppendAssumption
     DEF AnswerFails, StatusOf, Inv, TypeOK, EndsAgree
<1>4. CASE SendAndClose
  BY <1>4, ReturnRefines, AppendAssumption
     DEF SendAndClose, StatusOf, Inv, TypeOK, EndsAgree
<1>5. CASE BrokerRecv
  BY <1>5, AppendAssumption DEF BrokerRecv, Verdict, Inv, EndsAgree
<1>6. CASE BrokerCommit
  <2>1. cEnd = "EOF" /\ bGot = sent
    <3>1. cEnd = "EOF" /\ Len(bGot) = Len(sent)
      BY <1>6 DEF BrokerCommit, Inv, TypeOK, NoneMissing, Passed
    <3>2. QED
      BY <3>1 DEF Inv, TypeOK, InOrder
  <2>2. Verdict = "open" /\ Verdict' = Committed
    BY <1>6, AppendAssumption DEF BrokerCommit, Verdict, Inv, EndsAgree
  <2>3. Transaction!Commit
    BY <1>6, <2>1, <2>2 DEF BrokerCommit, Transaction!Commit
  <2>4. QED
    BY <2>3 DEF Transaction!Next
<1>7. ASSUME NEW a \in Refusal \cup BrokerErr, BrokerRefuse(a)
      PROVE  Transaction!Next
  <2>1. Verdict \in {"open", "dropped"} /\ Verdict' = a
    BY <1>7, AppendAssumption DEF BrokerRefuse, Verdict, Inv, EndsAgree
  <2>2. ~committed
    BY <1>7, AppendAssumption DEF BrokerRefuse, Inv, EndsAgree
  <2>3. Transaction!Refuse
    BY <1>7, <2>1, <2>2 DEF BrokerRefuse, Transaction!Refuse
  <2>4. QED
    BY <2>3 DEF Transaction!Next
<1>8. CASE AnswerArrives \/ UpstreamLost \/ CancelUpstream \/ BrokerCanceled
  BY <1>8 DEF AnswerArrives, UpstreamLost, CancelUpstream, BrokerCanceled,
     Verdict
<1>9. ASSUME NEW r \in Req, ClientSend(r) PROVE Transaction!Next
  <2>1. Transaction!Ask
    BY <1>9 DEF ClientSend, Transaction!Ask, Verdict
  <2>2. QED
    BY <2>1 DEF Transaction!Next
<1>10. CASE ClientClose
  BY <1>10 DEF ClientClose, Transaction!Close, Transaction!Next, Verdict
<1>11. CASE ClientFinish
  <2>1. UNCHANGED <<sent, cEnd, Stored, Verdict>>
    BY <1>11 DEF ClientFinish, Stored, Verdict
  <2>2. CASE downEnd \in {"Canceled", "Unavailable"}
    <3>1. Transaction!CutShort
      BY <1>11, <2>1, <2>2 DEF ClientFinish, Transaction!CutShort, Stored
    <3>2. QED
      BY <3>1 DEF Transaction!Next
  <2>3. CASE downEnd \in Answer
    <3>1. Verdict = downEnd /\ Verdict \notin {"open", "dropped"}
      BY <2>3, AppendAssumption DEF Verdict, Inv, EndsAgree
    <3>2. Transaction!Tell
      BY <1>11, <2>1, <3>1 DEF ClientFinish, Transaction!Tell, Stored
    <3>3. QED
      BY <3>2 DEF Transaction!Next
  <2>4. CASE downEnd = "Unknown"
    <3>1. Verdict \notin {"open", Committed}
      BY <2>4, AppendAssumption DEF Verdict, Inv, EndsAgree
    <3>2. Transaction!TellNotTaken
      BY <1>11, <2>1, <2>4, <3>1
         DEF ClientFinish, Transaction!TellNotTaken, Stored
    <3>3. QED
      BY <3>2 DEF Transaction!Next
  <2>5. QED
    BY <1>11, <2>2, <2>3, <2>4 DEF ClientFinish, Inv, TypeOK, Statuses
<1>12. CASE ClientGone
  BY <1>12 DEF ClientGone, Transaction!CutShort, Transaction!Next, Verdict
<1>13. CASE CancelArrives
  BY <1>13 DEF CancelArrives, Verdict
<1>14. CASE UNCHANGED vars
  BY <1>14 DEF vars, Verdict
<1>15. QED
  BY <1>1, <1>2, <1>3, <1>4, <1>5, <1>6, <1>7, <1>8, <1>9, <1>10, <1>11,
     <1>12, <1>13, <1>14
     DEF Next, Handler, BrokerServes

(* The handler, with its buffers, its blocking and its cancellations,      *)
(* implements an append that is taken whole or not at all, and whose       *)
(* client is told the truth about it.                                      *)
THEOREM Refines == Spec => ImplementsAppendTransaction
<1>1. Init => Transaction!Init
  BY DEF Init, Transaction!Init, Verdict
<1>2. QED
  BY <1>1, RefinementStep, InvCorrect, PTL
     DEF Spec, ImplementsAppendTransaction, Transaction!Spec
================================================================================
