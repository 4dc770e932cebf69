------------------------------ MODULE GatewayProofs ----------------------------
(***************************************************************************)
(* Theorems about the life of a gateway process, for any tasks of the      *)
(* server and any number of signals and calls: type correctness, the       *)
(* inductive invariant Inv of Gateway, and the truth of the exit status.   *)
(***************************************************************************)
EXTENDS Gateway, TLAPS

USE DEF Frontend, Handler, Serving, Task, Alive

-----------------------------------------------------------------------------
(* Where the steps of Execute are.                                         *)

LEMMA StepNumbers ==
  ASSUME NEW s \in 1..Len(Steps)
  PROVE  /\ s \in 1..11
         /\ Steps[s] = "QueueTasks" <=> s = 5
         /\ Steps[s] = "QueueFrontend" <=> s = 7
         /\ Steps[s] = "Notify" <=> s = 8
         /\ Steps[s] = "QueueHandler" <=> s = 9
         /\ Steps[s] = "GoRun" <=> s = 10
         /\ Steps[s] = "Wait" <=> s = 11
         /\ Steps[s] \in Fallible <=> s \in {1, 2, 3, 4, 6}
<1>1. Len(Steps) = 11
  BY DEF Steps
<1>2. s \in 1..11
  BY <1>1
<1>3. \/ s = 1 \/ s = 2 \/ s = 3 \/ s = 4 \/ s = 5 \/ s = 6
      \/ s = 7 \/ s = 8 \/ s = 9 \/ s = 10 \/ s = 11
  BY <1>2
<1>4. QED
  BY <1>2, <1>3 DEF Steps, Fallible

LEMMA QueueSteps ==
  /\ \A t \in Server : QueueStep(t) = 5
  /\ QueueStep(Frontend) = 7 /\ QueueStep(Handler) = 9
  BY GatewayAssumption DEF QueueStep

-----------------------------------------------------------------------------
(* The inductive invariant.                                                *)

LEMMA TypeInit == Init => TypeOK
<1> SUFFICES ASSUME Init PROVE TypeOK
  OBVIOUS
<1>1. step \in 1..Len(Steps)
  BY DEF Init, Steps
<1>2. signals \in 0..MaxSignals /\ calls \in 0..MaxCalls
  BY GatewayAssumption DEF Init
<1>3. QED
  BY <1>1, <1>2 DEF Init, TypeOK

LEMMA InvInit == Init => Inv
<1> SUFFICES ASSUME Init PROVE Inv
  OBVIOUS
<1>1. SetUp
  BY QueueSteps DEF Init, SetUp
<1>2. SignalsKept /\ StopsCaused /\ ExitTruthful
  BY DEF Init, SignalsKept, StopsCaused, ExitTruthful
<1>3. QED
  BY <1>1, <1>2, TypeInit DEF Inv

LEMMA InvNext == Inv /\ [Next]_vars => Inv'
<1> SUFFICES ASSUME Inv, [Next]_vars PROVE Inv'
  OBVIOUS
<1>0. /\ TypeOK /\ step \in 1..11 /\ Len(Steps) = 11
      /\ \A t \in Task : QueueStep(t) \in {5, 7, 9}
  BY StepNumbers, QueueSteps DEF Inv, TypeOK, Steps
<1>1. CASE Prepare
  <2>1. TypeOK'
    BY <1>0, <1>1, StepNumbers, GatewayAssumption
       DEF Prepare, At, Advance, TypeOK
  <2>2. SetUp'
    BY <1>0, <1>1, StepNumbers, QueueSteps
       DEF Prepare, At, Advance, Inv, TypeOK, SetUp
  <2>3. SignalsKept'
    BY <1>0, <1>1, StepNumbers, GatewayAssumption
       DEF Prepare, At, Advance, Inv, TypeOK, SetUp, SignalsKept
  <2>4. StopsCaused'
    BY <1>0, <1>1, StepNumbers, GatewayAssumption
       DEF Prepare, At, Advance, Inv, TypeOK, SetUp, SignalsKept, StopsCaused
  <2>5. ExitTruthful'
    BY <1>0, <1>1, StepNumbers, GatewayAssumption
       DEF Prepare, At, Advance, Inv, TypeOK, SetUp, SignalsKept, ExitTruthful,
           Ended
  <2>6. QED
    BY <2>1, <2>2, <2>3, <2>4, <2>5 DEF Inv
<1>2. CASE MustFails
  <2>1. TypeOK'
    BY <1>0, <1>2, StepNumbers, GatewayAssumption
       DEF MustFails, At, TypeOK
  <2>2. SetUp'
    BY <1>0, <1>2, StepNumbers, QueueSteps
       DEF MustFails, At, Inv, TypeOK, SetUp
  <2>3. SignalsKept'
    BY <1>0, <1>2, StepNumbers, GatewayAssumption
       DEF MustFails, At, Inv, TypeOK, SetUp, SignalsKept
  <2>4. StopsCaused'
    BY <1>0, <1>2, StepNumbers, GatewayAssumption
       DEF MustFails, At, Inv, TypeOK, SetUp, SignalsKept, StopsCaused
  <2>5. ExitTruthful'
    BY <1>0, <1>2, StepNumbers, GatewayAssumption
       DEF MustFails, At, Inv, TypeOK, SetUp, SignalsKept, ExitTruthful, Ended
  <2>6. QED
    BY <2>1, <2>2, <2>3, <2>4, <2>5 DEF Inv
<1>3. CASE Queue
  <2>1. TypeOK'
    BY <1>0, <1>3, StepNumbers, GatewayAssumption
       DEF Queue, At, Advance, Queued, TypeOK
  <2>2. SetUp'
    BY <1>0, <1>3, StepNumbers, QueueSteps
       DEF Queue, At, Advance, Queued, Inv, TypeOK, SetUp
  <2>3. SignalsKept'
    BY <1>0, <1>3, StepNumbers, GatewayAssumption
       DEF Queue, At, Advance, Queued, Inv, TypeOK, SetUp, SignalsKept
  <2>4. StopsCaused'
    BY <1>0, <1>3, StepNumbers, GatewayAssumption
       DEF Queue, At, Advance, Queued, Inv, TypeOK, SetUp, SignalsKept,
           StopsCaused
  <2>5. ExitTruthful'
    BY <1>0, <1>3, StepNumbers, GatewayAssumption
       DEF Queue, At, Advance, Queued, Inv, TypeOK, SetUp, SignalsKept,
           ExitTruthful, Ended
  <2>6. QED
    BY <2>1, <2>2, <2>3, <2>4, <2>5 DEF Inv
<1>4. CASE Notify
  <2>1. TypeOK'
    BY <1>0, <1>4, StepNumbers, GatewayAssumption
       DEF Notify, At, Advance, TypeOK
  <2>2. SetUp'
    BY <1>0, <1>4, StepNumbers, QueueSteps
       DEF Notify, At, Advance, Inv, TypeOK, SetUp
  <2>3. SignalsKept'
    BY <1>0, <1>4, StepNumbers, GatewayAssumption
       DEF Notify, At, Advance, Inv, TypeOK, SetUp, SignalsKept
  <2>4. StopsCaused'
    BY <1>0, <1>4, StepNumbers, GatewayAssumption
       DEF Notify, At, Advance, Inv, TypeOK, SetUp, SignalsKept, StopsCaused
  <2>5. ExitTruthful'
    BY <1>0, <1>4, StepNumbers, GatewayAssumption
       DEF Notify, At, Advance, Inv, TypeOK, SetUp, SignalsKept, ExitTruthful,
           Ended
  <2>6. QED
    BY <2>1, <2>2, <2>3, <2>4, <2>5 DEF Inv
<1>5. CASE GoRun
  <2>1. TypeOK'
    BY <1>0, <1>5, StepNumbers, GatewayAssumption
       DEF GoRun, At, Advance, TypeOK
  <2>2. SetUp'
    BY <1>0, <1>5, StepNumbers, QueueSteps
       DEF GoRun, At, Advance, Inv, TypeOK, SetUp
  <2>3. SignalsKept'
    BY <1>0, <1>5, StepNumbers, GatewayAssumption
       DEF GoRun, At, Advance, Inv, TypeOK, SetUp, SignalsKept
  <2>4. StopsCaused'
    BY <1>0, <1>5, StepNumbers, GatewayAssumption
       DEF GoRun, At, Advance, Inv, TypeOK, SetUp, SignalsKept, StopsCaused
  <2>5. ExitTruthful'
    BY <1>0, <1>5, StepNumbers, GatewayAssumption
       DEF GoRun, At, Advance, Inv, TypeOK, SetUp, SignalsKept, ExitTruthful,
           Ended
  <2>6. QED
    BY <2>1, <2>2, <2>3, <2>4, <2>5 DEF Inv
<1>6. CASE Wait
  <2>1. TypeOK'
    BY <1>0, <1>6, StepNumbers, GatewayAssumption
       DEF Wait, At, TypeOK
  <2>2. SetUp'
    BY <1>0, <1>6, StepNumbers, QueueSteps
       DEF Wait, At, Inv, TypeOK, SetUp
  <2>3. SignalsKept'
    BY <1>0, <1>6, StepNumbers, GatewayAssumption
       DEF Wait, At, Inv, TypeOK, SetUp, SignalsKept
  <2>4. StopsCaused'
    BY <1>0, <1>6, StepNumbers, GatewayAssumption
       DEF Wait, At, Inv, TypeOK, SetUp, SignalsKept, StopsCaused
  <2>5. ExitTruthful'
    BY <1>0, <1>6, StepNumbers, GatewayAssumption
       DEF Wait, At, Inv, TypeOK, SetUp, SignalsKept, ExitTruthful, Ended
  <2>6. QED
    BY <2>1, <2>2, <2>3, <2>4, <2>5 DEF Inv
<1>7. ASSUME NEW t \in Task, Starts(t) PROVE Inv'
  <2>1. TypeOK'
    BY <1>0, <1>7, StepNumbers, GatewayAssumption
       DEF Starts, At, TypeOK
  <2>2. SetUp'
    BY <1>0, <1>7, StepNumbers, QueueSteps
       DEF Starts, At, Inv, TypeOK, SetUp
  <2>3. SignalsKept'
    BY <1>0, <1>7, StepNumbers, GatewayAssumption
       DEF Starts, At, Inv, TypeOK, SetUp, SignalsKept
  <2>4. StopsCaused'
    BY <1>0, <1>7, StepNumbers, GatewayAssumption
       DEF Starts, At, Inv, TypeOK, SetUp, SignalsKept, StopsCaused
  <2>5. ExitTruthful'
    BY <1>0, <1>7, StepNumbers, GatewayAssumption
       DEF Starts, At, Inv, TypeOK, SetUp, SignalsKept, ExitTruthful, Ended
  <2>6. QED
    BY <2>1, <2>2, <2>3, <2>4, <2>5 DEF Inv
<1>8. ASSUME NEW t \in Task, Fails(t) PROVE Inv'
  <2>1. TypeOK'
    BY <1>0, <1>8, StepNumbers, GatewayAssumption
       DEF Fails, Returns, TypeOK
  <2>2. SetUp'
    BY <1>0, <1>8, StepNumbers, QueueSteps
       DEF Fails, Returns, Inv, TypeOK, SetUp
  <2>3. SignalsKept'
    BY <1>0, <1>8, StepNumbers, GatewayAssumption
       DEF Fails, Returns, Inv, TypeOK, SetUp, SignalsKept
  <2>4. StopsCaused'
    BY <1>0, <1>8, StepNumbers, GatewayAssumption
       DEF Fails, Returns, Inv, TypeOK, SetUp, SignalsKept, StopsCaused
  <2>5. ExitTruthful'
    BY <1>0, <1>8, StepNumbers, GatewayAssumption
       DEF Fails, Returns, Inv, TypeOK, SetUp, SignalsKept, ExitTruthful, Ended
  <2>6. QED
    BY <2>1, <2>2, <2>3, <2>4, <2>5 DEF Inv
<1>9. ASSUME NEW t \in Task, Stops(t) PROVE Inv'
  <2>1. TypeOK'
    BY <1>0, <1>9, StepNumbers, GatewayAssumption
       DEF Stops, Returns, TypeOK
  <2>2. SetUp'
    BY <1>0, <1>9, StepNumbers, QueueSteps
       DEF Stops, Returns, Inv, TypeOK, SetUp
  <2>3. SignalsKept'
    BY <1>0, <1>9, StepNumbers, GatewayAssumption
       DEF Stops, Returns, Inv, TypeOK, SetUp, SignalsKept
  <2>4. StopsCaused'
    BY <1>0, <1>9, StepNumbers, GatewayAssumption
       DEF Stops, Returns, Inv, TypeOK, SetUp, SignalsKept, StopsCaused
  <2>5. ExitTruthful'
    BY <1>0, <1>9, StepNumbers, GatewayAssumption
       DEF Stops, Returns, Inv, TypeOK, SetUp, SignalsKept, ExitTruthful, Ended
  <2>6. QED
    BY <2>1, <2>2, <2>3, <2>4, <2>5 DEF Inv
<1>10. CASE HandleSignal
  <2>1. TypeOK'
    <3>1. Tail(<<"signal">>) = <<>>
      OBVIOUS
    <3>2. signalCh' \in {<<>>, <<"signal">>}
      BY <1>0, <1>10, <3>1 DEF HandleSignal, TypeOK
    <3>3. QED
      BY <1>0, <1>10, <3>2 DEF HandleSignal, Returns, TypeOK
  <2>2. SetUp'
    BY <1>0, <1>10, StepNumbers, QueueSteps
       DEF HandleSignal, Returns, Inv, TypeOK, SetUp
  <2>3. SignalsKept'
    BY <1>0, <1>10, StepNumbers, GatewayAssumption
       DEF HandleSignal, Returns, Inv, TypeOK, SetUp, SignalsKept
  <2>4. StopsCaused'
    BY <1>0, <1>10, StepNumbers, GatewayAssumption
       DEF HandleSignal, Returns, Inv, TypeOK, SetUp, SignalsKept, StopsCaused
  <2>5. ExitTruthful'
    BY <1>0, <1>10, StepNumbers, GatewayAssumption
       DEF HandleSignal, Returns, Inv, TypeOK, SetUp, SignalsKept, ExitTruthful,
           Ended
  <2>6. QED
    BY <2>1, <2>2, <2>3, <2>4, <2>5 DEF Inv
<1>11. CASE Signal
  <2>1. TypeOK'
    BY <1>0, <1>11, StepNumbers, GatewayAssumption
       DEF Signal, TypeOK
  <2>2. SetUp'
    BY <1>0, <1>11, StepNumbers, QueueSteps
       DEF Signal, Inv, TypeOK, SetUp
  <2>3. SignalsKept'
    BY <1>0, <1>11, StepNumbers, GatewayAssumption
       DEF Signal, Inv, TypeOK, SetUp, SignalsKept
  <2>4. StopsCaused'
    BY <1>0, <1>11, StepNumbers, GatewayAssumption
       DEF Signal, Inv, TypeOK, SetUp, SignalsKept, StopsCaused
  <2>5. ExitTruthful'
    BY <1>0, <1>11, StepNumbers, GatewayAssumption
       DEF Signal, Inv, TypeOK, SetUp, SignalsKept, ExitTruthful, Ended
  <2>6. QED
    BY <2>1, <2>2, <2>3, <2>4, <2>5 DEF Inv
<1>12. CASE CallArrives
  <2>1. TypeOK'
    BY <1>0, <1>12, StepNumbers, GatewayAssumption
       DEF CallArrives, TypeOK
  <2>2. SetUp'
    BY <1>0, <1>12, StepNumbers, QueueSteps
       DEF CallArrives, Inv, TypeOK, SetUp
  <2>3. SignalsKept'
    BY <1>0, <1>12, StepNumbers, GatewayAssumption
       DEF CallArrives, Inv, TypeOK, SetUp, SignalsKept
  <2>4. StopsCaused'
    BY <1>0, <1>12, StepNumbers, GatewayAssumption
       DEF CallArrives, Inv, TypeOK, SetUp, SignalsKept, StopsCaused
  <2>5. ExitTruthful'
    BY <1>0, <1>12, StepNumbers, GatewayAssumption
       DEF CallArrives, Inv, TypeOK, SetUp, SignalsKept, ExitTruthful, Ended
  <2>6. QED
    BY <2>1, <2>2, <2>3, <2>4, <2>5 DEF Inv
<1>13. CASE CallEnds
  <2>1. TypeOK'
    BY <1>0, <1>13, StepNumbers, GatewayAssumption
       DEF CallEnds, TypeOK
  <2>2. SetUp'
    BY <1>0, <1>13, StepNumbers, QueueSteps
       DEF CallEnds, Inv, TypeOK, SetUp
  <2>3. SignalsKept'
    BY <1>0, <1>13, StepNumbers, GatewayAssumption
       DEF CallEnds, Inv, TypeOK, SetUp, SignalsKept
  <2>4. StopsCaused'
    BY <1>0, <1>13, StepNumbers, GatewayAssumption
       DEF CallEnds, Inv, TypeOK, SetUp, SignalsKept, StopsCaused
  <2>5. ExitTruthful'
    BY <1>0, <1>13, StepNumbers, GatewayAssumption
       DEF CallEnds, Inv, TypeOK, SetUp, SignalsKept, ExitTruthful, Ended
  <2>6. QED
    BY <2>1, <2>2, <2>3, <2>4, <2>5 DEF Inv
<1>14. CASE UNCHANGED vars
  <2>1. TypeOK'
    BY <1>0, <1>14, StepNumbers, GatewayAssumption
       DEF vars, TypeOK
  <2>2. SetUp'
    BY <1>0, <1>14, StepNumbers, QueueSteps
       DEF vars, Inv, TypeOK, SetUp
  <2>3. SignalsKept'
    BY <1>0, <1>14, StepNumbers, GatewayAssumption
       DEF vars, Inv, TypeOK, SetUp, SignalsKept
  <2>4. StopsCaused'
    BY <1>0, <1>14, StepNumbers, GatewayAssumption
       DEF vars, Inv, TypeOK, SetUp, SignalsKept, StopsCaused
  <2>5. ExitTruthful'
    BY <1>0, <1>14, StepNumbers, GatewayAssumption
       DEF vars, Inv, TypeOK, SetUp, SignalsKept, ExitTruthful, Ended
  <2>6. QED
    BY <2>1, <2>2, <2>3, <2>4, <2>5 DEF Inv
<1>15. QED
  BY <1>1, <1>2, <1>3, <1>4, <1>5, <1>6, <1>7, <1>8, <1>9, <1>10, <1>11,
     <1>12, <1>13, <1>14
     DEF Next, Execute

(* The inductive invariant holds.                                          *)
THEOREM InvCorrect == Spec => []Inv
  BY InvInit, InvNext, PTL DEF Spec

(* Every variable keeps its type.                                          *)
THEOREM TypeCorrect == Spec => []TypeOK
<1>1. Inv => TypeOK
  BY DEF Inv
<1>2. QED
  BY <1>1, InvCorrect, PTL

(* The exit status tells the truth.                                        *)
THEOREM ExitCorrect == Spec => []ExitTruthful
<1>1. Inv => ExitTruthful
  BY DEF Inv
<1>2. QED
  BY <1>1, InvCorrect, PTL
================================================================================
