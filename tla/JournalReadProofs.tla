--------------------------- MODULE JournalReadProofs ---------------------------
(***************************************************************************)
(* Theorems about the relay of JournalProxy.List and JournalProxy.Read,    *)
(* for every set of responses and statuses, every window and every length  *)
(* of stream: type correctness, the inductive invariant Inv of             *)
(* JournalRead, and the safety properties that follow from it.             *)
(***************************************************************************)
EXTENDS JournalRead, TLAPS

USE DEF Local, brokerVars, clientVars, handlerVars, UpstreamCanceled

(* What a handler returns reaches the client as one of Statuses.           *)
LEMMA ReturnTyped ==
  ASSUME TypeOK, NEW err, Return(err),
         err \in (Ends \ {"open"}) \cup {"nil", "MissingAuthorization"}
  PROVE  TypeOK'
  BY DEF TypeOK, Return, StatusOf, Ends, Statuses

LEMMA GracefulTyped ==
  ASSUME NEW err, err \in Ends \ {"open"}
  PROVE  Graceful(err) \in
           (Ends \ {"open"}) \cup {"nil", "MissingAuthorization"}
  BY DEF Graceful, Ends

LEMMA TypeInit == Init => TypeOK
  BY DEF Init, TypeOK, Ends, Statuses

LEMMA TypeNext == TypeOK /\ [Next]_vars => TypeOK'
<1> SUFFICES ASSUME TypeOK, [Next]_vars PROVE TypeOK'
  OBVIOUS
<1>1. CASE Unauthorized
  BY <1>1, ReturnTyped DEF Unauthorized
<1>2. CASE Dispatch
  BY <1>2 DEF Dispatch, TypeOK
<1>3. CASE DispatchFails
  BY <1>3, ReturnTyped DEF DispatchFails, Ends
<1>4. CASE Recv
  BY <1>4 DEF Recv, TypeOK
<1>5. CASE RecvFails
  <2>1. upEnd \in Ends
    BY DEF TypeOK
  <2>2. CASE up = <<>> /\ upEnd # "open" /\ Return(Graceful(upEnd))
    BY <2>1, <2>2, GracefulTyped, ReturnTyped
  <2>3. CASE ctx = "canceled" /\ Return(Graceful("Canceled"))
    BY <2>3, GracefulTyped, ReturnTyped DEF Ends
  <2>4. QED
    BY <1>5, <2>2, <2>3 DEF RecvFails
<1>6. CASE Send
  BY <1>6 DEF Send, TypeOK
<1>7. CASE SendFails
  BY <1>7, ReturnTyped DEF SendFails, Ends
<1>8. ASSUME NEW r \in Resp, BrokerSend(r) PROVE TypeOK'
  BY <1>8 DEF BrokerSend, TypeOK
<1>9. ASSUME NEW end \in {"EOF"} \cup BrokerErr, BrokerEnd(end) PROVE TypeOK'
  BY <1>9 DEF BrokerEnd, TypeOK, Ends
<1>10. CASE UpstreamLost
  BY <1>10 DEF UpstreamLost, TypeOK, Ends
<1>11. CASE CancelUpstream
  BY <1>11 DEF CancelUpstream, TypeOK, Ends
<1>12. CASE ClientRead
  BY <1>12 DEF ClientRead, TypeOK
<1>13. CASE ClientFinish
  BY <1>13 DEF ClientFinish, TypeOK
<1>14. CASE ClientGone
  BY <1>14 DEF ClientGone, TypeOK, Statuses
<1>15. CASE CancelArrives
  BY <1>15 DEF CancelArrives, TypeOK
<1>16. CASE UNCHANGED vars
  BY <1>16 DEF vars, TypeOK
<1>17. QED
  BY <1>1, <1>2, <1>3, <1>4, <1>5, <1>6, <1>7, <1>8, <1>9, <1>10, <1>11,
     <1>12, <1>13, <1>14, <1>15, <1>16 DEF Next, Handler

(* Every variable keeps its type.                                          *)
THEOREM TypeCorrect == Spec => []TypeOK
  BY TypeInit, TypeNext, PTL DEF Spec

-----------------------------------------------------------------------------
(* The inductive invariant.                                                *)

LEMMA InvInit == Init => Inv
<1> SUFFICES ASSUME Init PROVE Inv
  OBVIOUS
<1>1. TypeOK
  BY TypeInit
<1>2. InOrder /\ NoneMissing
  BY DEF Init, InOrder, NoneMissing, Passed, Held
<1>3. EndsAgree
  BY ReadAssumption DEF Init, EndsAgree
<1>4. QED
  BY <1>1, <1>2, <1>3 DEF Inv

(* The part of Inv that is not its type.                                   *)
Flow == InOrder /\ NoneMissing /\ EndsAgree

LEMMA FlowNext == Inv /\ [Next]_vars => Flow'
<1> SUFFICES ASSUME Inv, [Next]_vars PROVE Flow'
  OBVIOUS
<1> USE DEF Flow
<1>1. CASE Unauthorized
  <2>1. InOrder'
    BY <1>1
       DEF Unauthorized, Return, StatusOf, Inv, TypeOK, InOrder, NoneMissing,
           Passed, Held
  <2>2. NoneMissing'
    BY <1>1
       DEF Unauthorized, Return, StatusOf, Inv, TypeOK, NoneMissing, Passed,
           Held
  <2>3. EndsAgree'
    BY <1>1, ReadAssumption
       DEF Unauthorized, Return, StatusOf, Inv, TypeOK, EndsAgree, NoneMissing,
           Passed, Held, Ends, Statuses
  <2>4. QED
    BY <2>1, <2>2, <2>3
<1>2. CASE Dispatch
  <2>1. InOrder'
    BY <1>2 DEF Dispatch, Inv, TypeOK, InOrder, NoneMissing, Passed, Held
  <2>2. NoneMissing'
    BY <1>2 DEF Dispatch, Inv, TypeOK, NoneMissing, Passed, Held
  <2>3. EndsAgree'
    BY <1>2, ReadAssumption
       DEF Dispatch, Inv, TypeOK, EndsAgree, NoneMissing, Passed, Held, Ends,
           Statuses
  <2>4. QED
    BY <2>1, <2>2, <2>3
<1>3. CASE DispatchFails
  <2>1. InOrder'
    BY <1>3
       DEF DispatchFails, Return, StatusOf, Inv, TypeOK, InOrder, NoneMissing,
           Passed, Held
  <2>2. NoneMissing'
    BY <1>3
       DEF DispatchFails, Return, StatusOf, Inv, TypeOK, NoneMissing, Passed,
           Held
  <2>3. EndsAgree'
    BY <1>3, ReadAssumption
       DEF DispatchFails, Return, StatusOf, Inv, TypeOK, EndsAgree,
           NoneMissing, Passed, Held, Ends, Statuses
  <2>4. QED
    BY <2>1, <2>2, <2>3
<1>4. CASE Recv
  <2>1. InOrder'
    <3>1. Len(up) > 0 /\ Len(up') = Len(up) - 1 /\ resp' = up[1]
      BY <1>4 DEF Recv, Inv, TypeOK
    <3>2. \A i \in 1..Len(up') : up'[i] = up[i + 1]
      BY <1>4 DEF Recv, Inv, TypeOK
    <3>3. Passed' = Passed /\ Held = 0 /\ Held' = 1 /\ Passed \in Nat
      BY <1>4 DEF Recv, Inv, TypeOK, Passed, Held
    <3>4. \A i \in 1..Len(up) : up[i] = sent[Passed + i]
      BY <1>4, <3>3 DEF Recv, Inv, InOrder
    <3>5. UNCHANGED <<got, down, sent>>
      BY <1>4 DEF Recv
    <3>6. resp' = sent[Passed + 1]
      BY <3>1, <3>4 DEF Inv, TypeOK
    <3>7. ASSUME NEW i \in 1..Len(up')
          PROVE  up'[i] = sent[Passed + 1 + i]
      <4>1. i + 1 \in 1..Len(up) /\ Passed + (i + 1) = Passed + 1 + i
        BY <3>1, <3>3 DEF Inv, TypeOK
      <4>2. QED
        BY <3>2, <3>4, <4>1
    <3>8. QED
      BY <3>3, <3>5, <3>6, <3>7 DEF Inv, InOrder
  <2>2. NoneMissing'
    BY <1>4 DEF Recv, Inv, TypeOK, NoneMissing, Passed, Held
  <2>3. EndsAgree'
    BY <1>4, ReadAssumption
       DEF Recv, Inv, TypeOK, EndsAgree, NoneMissing, Passed, Held, Ends,
           Statuses
  <2>4. QED
    BY <2>1, <2>2, <2>3
<1>5. CASE RecvFails
  <2>1. InOrder'
    BY <1>5
       DEF RecvFails, Return, StatusOf, Graceful, Inv, TypeOK, InOrder,
           NoneMissing, Passed, Held
  <2>2. NoneMissing'
    BY <1>5
       DEF RecvFails, Return, StatusOf, Graceful, Inv, TypeOK, NoneMissing,
           Passed, Held
  <2>3. EndsAgree'
    BY <1>5, ReadAssumption
       DEF RecvFails, Return, StatusOf, Graceful, Inv, TypeOK, EndsAgree,
           NoneMissing, Passed, Held, Ends, Statuses
  <2>4. QED
    BY <2>1, <2>2, <2>3
<1>6. CASE Send
  <2>1. InOrder'
    BY <1>6 DEF Send, Inv, TypeOK, InOrder, NoneMissing, Passed, Held
  <2>2. NoneMissing'
    BY <1>6 DEF Send, Inv, TypeOK, NoneMissing, Passed, Held
  <2>3. EndsAgree'
    BY <1>6, ReadAssumption
       DEF Send, Inv, TypeOK, EndsAgree, NoneMissing, Passed, Held, Ends,
           Statuses
  <2>4. QED
    BY <2>1, <2>2, <2>3
<1>7. CASE SendFails
  <2>1. InOrder'
    BY <1>7
       DEF SendFails, Return, StatusOf, Inv, TypeOK, InOrder, NoneMissing,
           Passed, Held
  <2>2. NoneMissing'
    BY <1>7
       DEF SendFails, Return, StatusOf, Inv, TypeOK, NoneMissing, Passed, Held
  <2>3. EndsAgree'
    BY <1>7, ReadAssumption
       DEF SendFails, Return, StatusOf, Inv, TypeOK, EndsAgree, NoneMissing,
           Passed, Held, Ends, Statuses
  <2>4. QED
    BY <2>1, <2>2, <2>3
<1>8. ASSUME NEW r \in Resp, BrokerSend(r) PROVE Flow'
  <2>1. InOrder'
    <3>1. \A i \in 1..Len(got') : got'[i] = sent'[i]
      BY <1>8 DEF BrokerSend, Inv, TypeOK, InOrder, NoneMissing, Passed, Held
    <3>2. \A i \in 1..Len(down') : down'[i] = sent'[Len(got') + i]
      BY <1>8 DEF BrokerSend, Inv, TypeOK, InOrder, NoneMissing, Passed, Held
    <3>3. pc' = "Send" => resp' = sent'[Passed' + 1]
      BY <1>8 DEF BrokerSend, Inv, TypeOK, InOrder, NoneMissing, Passed, Held
    <3>4. pc' # "Returned" =>
            \A i \in 1..Len(up') : up'[i] = sent'[Passed' + Held' + i]
      <4>1. pc # "Returned" => Len(sent) = Passed + Held + Len(up)
        BY <1>8, ReadAssumption DEF BrokerSend, Inv, NoneMissing, EndsAgree
      <4>2. up' = Append(up, r) /\ sent' = Append(sent, r)
        BY <1>8 DEF BrokerSend
      <4>3. pc' = pc /\ Passed' = Passed /\ Held' = Held
        BY <1>8 DEF BrokerSend, Passed, Held
      <4>4. Passed \in Nat /\ Held \in Nat
        BY DEF Inv, TypeOK, Passed, Held
      <4>5. SUFFICES ASSUME pc # "Returned", NEW i \in 1..Len(up')
                     PROVE  up'[i] = sent'[Passed + Held + i]
        BY <4>3
      <4>6. CASE i = Len(up) + 1
        BY <4>1, <4>2, <4>4, <4>5, <4>6 DEF Inv, TypeOK
      <4>7. CASE i \in 1..Len(up)
        <5>1. up'[i] = up[i]
          BY <4>2, <4>7 DEF Inv, TypeOK
        <5>2. up[i] = sent[Passed + Held + i]
          BY <4>5, <4>7 DEF Inv, InOrder
        <5>3. Passed + Held + i \in 1..Len(sent)
          BY <4>1, <4>4, <4>5, <4>7 DEF Inv, TypeOK
        <5>4. sent'[Passed + Held + i] = sent[Passed + Held + i]
          BY <4>2, <5>3 DEF Inv, TypeOK
        <5>5. QED
          BY <5>1, <5>2, <5>4
      <4>8. i \in 1..Len(up) \/ i = Len(up) + 1
        BY <4>2, <4>5 DEF Inv, TypeOK
      <4>9. QED
        BY <4>6, <4>7, <4>8
    <3>5. QED
      BY <3>1, <3>2, <3>3, <3>4 DEF InOrder
  <2>2. NoneMissing'
    <3>1. Len(sent') = Len(sent) + 1 /\ Len(up') = Len(up) + 1
      BY <1>8 DEF BrokerSend, Inv, TypeOK
    <3>2. UNCHANGED <<pc, upEnd>> /\ Passed' = Passed /\ Held' = Held
      BY <1>8 DEF BrokerSend, Passed, Held
    <3>3. /\ Passed \in Nat /\ Held \in Nat
          /\ Len(sent) \in Nat /\ Len(up) \in Nat
      BY DEF Inv, TypeOK, Passed, Held
    <3>4. QED
      BY <3>1, <3>2, <3>3 DEF Inv, NoneMissing
  <2>3. EndsAgree'
    BY <1>8, ReadAssumption
       DEF BrokerSend, Inv, TypeOK, EndsAgree, NoneMissing, Passed, Held, Ends,
           Statuses
  <2>4. QED
    BY <2>1, <2>2, <2>3
<1>9. ASSUME NEW end \in {"EOF"} \cup BrokerErr, BrokerEnd(end) PROVE Flow'
  <2>1. InOrder'
    BY <1>9 DEF BrokerEnd, Inv, TypeOK, InOrder, NoneMissing, Passed, Held
  <2>2. NoneMissing'
    BY <1>9, ReadAssumption
       DEF BrokerEnd, Inv, TypeOK, NoneMissing, EndsAgree, Ends,
       Passed, Held
  <2>3. EndsAgree'
    BY <1>9, ReadAssumption
       DEF BrokerEnd, Inv, TypeOK, EndsAgree, NoneMissing, Passed, Held, Ends,
           Statuses
  <2>4. QED
    BY <2>1, <2>2, <2>3
<1>10. CASE UpstreamLost
  <2>1. InOrder'
    <3>1. UNCHANGED <<got, down, sent, resp, pc>>
      BY <1>10 DEF UpstreamLost
    <3>2. Passed' = Passed /\ Held' = Held
      BY <3>1 DEF Passed, Held
    <3>3. Len(up') <= Len(up) /\ \A i \in 1..Len(up') : up'[i] = up[i]
      BY <1>10 DEF UpstreamLost, Inv, TypeOK
    <3>4. ASSUME pc # "Returned", NEW i \in 1..Len(up')
          PROVE  up'[i] = sent[Passed + Held + i]
      <4>1. i \in 1..Len(up)
        BY <3>3, TypeNext DEF Inv, TypeOK
      <4>2. QED
        BY <3>3, <3>4, <4>1 DEF Inv, InOrder
    <3>5. QED
      BY <3>1, <3>2, <3>4 DEF Inv, InOrder
  <2>2. NoneMissing'
    BY <1>10, ReadAssumption
       DEF UpstreamLost, Inv, TypeOK, NoneMissing, EndsAgree, Ends,
       Passed, Held
  <2>3. EndsAgree'
    BY <1>10, ReadAssumption
       DEF UpstreamLost, Inv, TypeOK, EndsAgree, NoneMissing, Passed, Held,
           Ends, Statuses
  <2>4. QED
    BY <2>1, <2>2, <2>3
<1>11. CASE CancelUpstream
  <2>1. InOrder'
    BY <1>11 DEF CancelUpstream, Inv, TypeOK, InOrder, NoneMissing, Passed, Held
  <2>2. NoneMissing'
    BY <1>11, ReadAssumption
       DEF CancelUpstream, Inv, TypeOK, NoneMissing, EndsAgree, Ends,
       Passed, Held
  <2>3. EndsAgree'
    BY <1>11, ReadAssumption
       DEF CancelUpstream, Inv, TypeOK, EndsAgree, NoneMissing, Passed, Held,
           Ends, Statuses
  <2>4. QED
    BY <2>1, <2>2, <2>3
<1>12. CASE ClientRead
  <2>1. InOrder'
    <3>1. \A i \in 1..Len(got') : got'[i] = sent'[i]
      <4>1. got' = Append(got, down[1]) /\ sent' = sent /\ Len(down) > 0
        BY <1>12 DEF ClientRead, Inv, TypeOK
      <4>2. down[1] = sent[Len(got) + 1]
        BY <4>1 DEF Inv, TypeOK, InOrder
      <4>3. \A i \in 1..Len(got) : got[i] = sent[i]
        BY DEF Inv, InOrder
      <4>4. QED
        BY <4>1, <4>2, <4>3 DEF Inv, TypeOK
    <3>2. \A i \in 1..Len(down') : down'[i] = sent'[Len(got') + i]
      BY <1>12 DEF ClientRead, Inv, TypeOK, InOrder, NoneMissing, Passed, Held
    <3>3. pc' = "Send" => resp' = sent'[Passed' + 1]
      BY <1>12 DEF ClientRead, Inv, TypeOK, InOrder, NoneMissing, Passed, Held
    <3>4. pc' # "Returned" =>
            \A i \in 1..Len(up') : up'[i] = sent'[Passed' + Held' + i]
      BY <1>12 DEF ClientRead, Inv, TypeOK, InOrder, NoneMissing, Passed, Held
    <3>5. QED
      BY <3>1, <3>2, <3>3, <3>4 DEF InOrder
  <2>2. NoneMissing'
    BY <1>12 DEF ClientRead, Inv, TypeOK, NoneMissing, Passed, Held
  <2>3. EndsAgree'
    BY <1>12, ReadAssumption
       DEF ClientRead, Inv, TypeOK, EndsAgree, NoneMissing, Passed, Held, Ends,
           Statuses
  <2>4. QED
    BY <2>1, <2>2, <2>3
<1>13. CASE ClientFinish
  <2>1. InOrder'
    BY <1>13 DEF ClientFinish, Inv, TypeOK, InOrder, NoneMissing, Passed, Held
  <2>2. NoneMissing'
    BY <1>13 DEF ClientFinish, Inv, TypeOK, NoneMissing, Passed, Held
  <2>3. EndsAgree'
    BY <1>13, ReadAssumption
       DEF ClientFinish, Inv, TypeOK, EndsAgree, NoneMissing, Passed, Held,
           Ends, Statuses
  <2>4. QED
    BY <2>1, <2>2, <2>3
<1>14. CASE ClientGone
  <2>1. InOrder'
    BY <1>14 DEF ClientGone, Inv, TypeOK, InOrder, NoneMissing, Passed, Held
  <2>2. NoneMissing'
    BY <1>14 DEF ClientGone, Inv, TypeOK, NoneMissing, Passed, Held
  <2>3. EndsAgree'
    BY <1>14, ReadAssumption
       DEF ClientGone, Inv, TypeOK, EndsAgree, NoneMissing, Passed, Held, Ends,
           Statuses
  <2>4. QED
    BY <2>1, <2>2, <2>3
<1>15. CASE CancelArrives
  <2>1. InOrder'
    BY <1>15 DEF CancelArrives, Inv, TypeOK, InOrder, NoneMissing, Passed, Held
  <2>2. NoneMissing'
    BY <1>15 DEF CancelArrives, Inv, TypeOK, NoneMissing, Passed, Held
  <2>3. EndsAgree'
    BY <1>15, ReadAssumption
       DEF CancelArrives, Inv, TypeOK, EndsAgree, NoneMissing, Passed, Held,
           Ends, Statuses
  <2>4. QED
    BY <2>1, <2>2, <2>3
<1>16. CASE UNCHANGED vars
  <2>1. InOrder'
    BY <1>16 DEF vars, Inv, TypeOK, InOrder, NoneMissing, Passed, Held
  <2>2. NoneMissing'
    BY <1>16 DEF vars, Inv, TypeOK, NoneMissing, Passed, Held
  <2>3. EndsAgree'
    BY <1>16, ReadAssumption
       DEF vars, Inv, TypeOK, EndsAgree, NoneMissing, Passed, Held, Ends,
           Statuses
  <2>4. QED
    BY <2>1, <2>2, <2>3
<1>17. QED
  BY <1>1, <1>2, <1>3, <1>4, <1>5, <1>6, <1>7, <1>8, <1>9, <1>10, <1>11,
     <1>12, <1>13, <1>14, <1>15, <1>16
     DEF Next, Handler

LEMMA InvNext == Inv /\ [Next]_vars => Inv'
  BY TypeNext, FlowNext DEF Inv, Flow

(* The inductive invariant holds.                                          *)
THEOREM InvCorrect == Spec => []Inv
  BY InvInit, InvNext, PTL DEF Spec

(* The client reads a prefix of what the broker streamed.                  *)
THEOREM ReadsPrefix == Spec => []ClientReadsPrefix
<1>1. Inv => ClientReadsPrefix
  BY DEF Inv, TypeOK, InOrder, NoneMissing, Passed, Held, ClientReadsPrefix
<1>2. QED
  BY <1>1, InvCorrect, PTL

(* A graceful end at the client is one at the broker, with everything      *)
(* delivered.                                                              *)
THEOREM CompleteOnOK == Spec => []OKMeansComplete
<1>1. Inv => OKMeansComplete
  BY DEF Inv, TypeOK, InOrder, EndsAgree, Passed, OKMeansComplete
<1>2. QED
  BY <1>1, InvCorrect, PTL

(* A failure reported as the broker's is the broker's, after everything it *)
(* streamed.                                                               *)
THEOREM FaithfulErrors == Spec => []BrokerErrorFaithful
<1>1. Inv => BrokerErrorFaithful
  BY ReadAssumption
     DEF Inv, TypeOK, InOrder, EndsAgree, Passed, BrokerErrorFaithful
<1>2. QED
  BY <1>1, InvCorrect, PTL

(* A call without a token reaches no broker and cannot succeed.            *)
THEOREM UnauthorizedNeverCalls == Spec => []NoTokenNoCall
<1>1. Inv => NoTokenNoCall
  BY DEF Inv, TypeOK, EndsAgree, NoTokenNoCall
<1>2. QED
  BY <1>1, InvCorrect, PTL

-----------------------------------------------------------------------------
(* Refinement.                                                             *)

LEMMA RefinementStep == Inv /\ [Next]_vars => [Abstract!Next]_(Abstract!vars)
<1> SUFFICES ASSUME Inv, [Next]_vars PROVE [Abstract!Next]_(Abstract!vars)
  OBVIOUS
<1> USE DEF Abstract!vars
<1>1. CASE Handler
  BY <1>1 DEF Handler, Unauthorized, Dispatch, DispatchFails, Recv, RecvFails,
     Send, SendFails, Return
<1>2. ASSUME NEW r \in Resp, BrokerSend(r) PROVE Abstract!Produce
  BY <1>2 DEF BrokerSend, Abstract!Produce, Inv, TypeOK, EndsAgree
<1>3. ASSUME NEW end \in {"EOF"} \cup BrokerErr, BrokerEnd(end)
      PROVE  Abstract!End
  BY <1>3 DEF BrokerEnd, Abstract!End, Inv, TypeOK, EndsAgree
<1>4. CASE UpstreamLost
  BY <1>4 DEF UpstreamLost
<1>5. CASE CancelUpstream
  BY <1>5 DEF CancelUpstream
<1>6. CASE ClientRead
  <2>1. got' = Append(got, down[1]) /\ Len(down) > 0
    BY <1>6 DEF ClientRead, Inv, TypeOK
  <2>2. down[1] = sent[Len(got) + 1] /\ Len(got) < Len(sent)
    BY <2>1 DEF Inv, TypeOK, InOrder, NoneMissing, Passed, Held
  <2>3. Abstract!Deliver
    BY <1>6, <2>1, <2>2 DEF ClientRead, Abstract!Deliver
  <2>4. QED
    BY <2>3 DEF Abstract!Next
<1>7. CASE ClientFinish
  <2>1. CASE downEnd \in {"OK"} \cup BrokerErr
    <3>1. got = sent
      BY <1>7, <2>1, ReadAssumption
         DEF ClientFinish, Inv, TypeOK, InOrder, EndsAgree, Passed
    <3>2. brokerEnd = IF downEnd = "OK" THEN "EOF" ELSE downEnd
      BY <2>1, ReadAssumption DEF Inv, EndsAgree
    <3>3. Abstract!Finish
      BY <1>7, <2>1, <3>1, <3>2, ReadAssumption
         DEF ClientFinish, Abstract!Finish
    <3>4. QED
      BY <3>3 DEF Abstract!Next
  <2>2. CASE downEnd \in {"Canceled", "Unavailable", "Unknown"}
    BY <1>7, <2>2 DEF ClientFinish, Abstract!CutShort, Abstract!Next
  <2>3. QED
    BY <1>7, <2>1, <2>2 DEF ClientFinish, Inv, TypeOK, Statuses
<1>8. CASE ClientGone
  BY <1>8 DEF ClientGone, Abstract!CutShort, Abstract!Next
<1>9. CASE CancelArrives
  BY <1>9 DEF CancelArrives
<1>10. CASE UNCHANGED vars
  BY <1>10 DEF vars
<1>11. QED
  BY <1>1, <1>2, <1>3, <1>4, <1>5, <1>6, <1>7, <1>8, <1>9, <1>10
     DEF Next, Abstract!Next

(* The relay, with its buffers, its blocking and its cancellations,        *)
(* implements the stream a client sees.                                    *)
THEOREM Refines == Spec => ImplementsResponseStream
<1>1. Init => Abstract!Init
  BY DEF Init, Abstract!Init
<1>2. QED
  BY <1>1, RefinementStep, InvCorrect, PTL
     DEF Spec, ImplementsResponseStream, Abstract!Spec
================================================================================
