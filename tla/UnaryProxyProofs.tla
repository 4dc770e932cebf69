--------------------------- MODULE UnaryProxyProofs ----------------------------
(***************************************************************************)
(* Theorems about the unary handlers of both proxies, for any number of    *)
(* calls at once, infinitely many included, and a connection of any size:  *)
(* type correctness, the inductive invariant Inv of UnaryProxy, and the    *)
(* safety properties that follow from it.                                  *)
(***************************************************************************)
EXTENDS UnaryProxy, FiniteSetTheorems, TLAPS

USE DEF Local, Answer, Ends, callVars, upVars, UpstreamCanceled, UpEnds,
        ClientEnds

-----------------------------------------------------------------------------
(* Room on the connection.                                                 *)

(* An RPC that ends gives its room back.                                   *)
LEMMA RoomReturned ==
  ASSUME RoomKept, InUse' \subseteq InUse
  PROVE  RoomKept'
<1>1. IsFiniteSet(InUse) /\ Cardinality(InUse) <= Slots
  BY DEF RoomKept
<1>2. /\ IsFiniteSet(InUse') /\ Cardinality(InUse') <= Cardinality(InUse)
      /\ Cardinality(InUse') \in Nat /\ Cardinality(InUse) \in Nat
  BY <1>1, FS_Subset, FS_CardinalityType
<1>3. QED
  BY <1>1, <1>2, UnaryAssumption DEF RoomKept

(* One RPC is made only while there is room for it.                        *)
LEMMA RoomTaken ==
  ASSUME RoomKept, NEW c, Cardinality(InUse) < Slots,
         InUse' \subseteq InUse \cup {c}
  PROVE  RoomKept'
<1> DEFINE S == InUse \cup {c}
<1>1. IsFiniteSet(InUse) /\ Cardinality(InUse) \in Nat
  BY FS_CardinalityType DEF RoomKept
<1>2. IsFiniteSet(S) /\ Cardinality(S) <= Cardinality(InUse) + 1
  BY <1>1, FS_AddElement
<1>3. /\ IsFiniteSet(InUse') /\ Cardinality(InUse') <= Cardinality(S)
      /\ Cardinality(InUse') \in Nat /\ Cardinality(S) \in Nat
  BY <1>2, FS_Subset, FS_CardinalityType
<1>4. QED
  BY <1>1, <1>2, <1>3, UnaryAssumption DEF RoomKept

-----------------------------------------------------------------------------
(* The inductive invariant.                                                *)

LEMMA InvInit == Init => Inv
<1> SUFFICES ASSUME Init PROVE Inv
  OBVIOUS
<1>1. TypeOK
  BY DEF Init, All, TypeOK
<1>2. RoomKept
  <2>1. InUse = {}
    BY DEF Init, All, InUse
  <2>2. QED
    BY <2>1, FS_EmptySet, UnaryAssumption DEF RoomKept
<1>3. Authorized
  BY DEF Init, All, Authorized
<1>4. EndsAgree
  BY UnaryAssumption DEF Init, All, EndsAgree
<1>5. QED
  BY <1>1, <1>2, <1>3, <1>4 DEF Inv

(* A handler that returns keeps Inv, if what it returns is true: an answer *)
(* is the call's, and Unknown means that it was never made upstream.       *)
LEMMA ReturnKeeps ==
  ASSUME Inv, NEW c \in Call, NEW end, Return(c, end), pc[c] # "Returned",
         end \in Ends \ {"open"},
         end \in {"OK"} \cup BrokerErr => answer[c] = end,
         end = "Unknown" => rpc[c] = "none"
  PROVE  Inv'
<1>1. TypeOK'
  BY DEF Return, Inv, TypeOK
<1>2. RoomKept'
  <2>1. InUse' = InUse
    BY DEF Return, InUse
  <2>2. QED
    BY <2>1, RoomReturned DEF Inv
<1>3. Authorized'
  BY DEF Return, Inv, TypeOK, Authorized
<1>4. EndsAgree'
  BY UnaryAssumption DEF Return, Inv, TypeOK, EndsAgree
<1>5. QED
  BY <1>1, <1>2, <1>3, <1>4 DEF Inv

LEMMA InvNext == Inv /\ [Next]_vars => Inv'
<1> SUFFICES ASSUME Inv, [Next]_vars PROVE Inv'
  OBVIOUS
<1>1. ASSUME NEW c \in Call, Replicate(c) PROVE Inv'
  BY <1>1, ReturnKeeps, UnaryAssumption
     DEF Replicate, Inv, TypeOK, Authorized, EndsAgree
<1>2. ASSUME NEW c \in Call, Unauthorized(c) PROVE Inv'
  BY <1>2, ReturnKeeps, UnaryAssumption
     DEF Unauthorized, Inv, TypeOK, Authorized, EndsAgree
<1>3. ASSUME NEW c \in Call, Authorize(c) PROVE Inv'
  <2>0. /\ header[c] \in Header \ {<<>>} /\ outgoing[c] = <<>>
        /\ outgoing' = [outgoing EXCEPT ![c] = <<header[c][1]>>]
    <3>1. \A x : Append(<<>>, x) = <<x>>
      OBVIOUS
    <3>2. header[c] \in Header \ {<<>>} /\ outgoing[c] = <<>>
      BY <1>3 DEF Authorize, Inv, TypeOK, Authorized
    <3>3. outgoing' = [outgoing EXCEPT ![c] = Append(<<>>, header[c][1])]
      BY <1>3, <3>2 DEF Authorize
    <3>4. QED
      BY <3>1, <3>2, <3>3
  <2>1. TypeOK'
    <3>1. outgoing' \in [Call -> {<<>>} \cup {<<h[1]>> : h \in Header \ {<<>>}}]
      BY <2>0 DEF Inv, TypeOK
    <3>2. QED
      BY <1>3, <3>1 DEF Authorize, Inv, TypeOK
  <2>2. RoomKept'
    <3>1. InUse' \subseteq InUse
      BY <1>3 DEF Authorize, InUse, Inv, TypeOK
    <3>2. QED
      BY <3>1, RoomReturned DEF Inv
  <2>3. Authorized'
    BY <1>3, <2>0 DEF Authorize, Inv, TypeOK, Authorized
  <2>4. EndsAgree'
    BY <1>3, UnaryAssumption DEF Authorize, Inv, TypeOK, Authorized, EndsAgree
  <2>5. QED
    BY <2>1, <2>2, <2>3, <2>4 DEF Inv
<1>4. ASSUME NEW c \in Call, Invoke(c) PROVE Inv'
  <2>1. TypeOK'
    BY <1>4 DEF Invoke, Inv, TypeOK
  <2>2. RoomKept'
    <3>1. InUse' \subseteq InUse \cup {c}
      BY <1>4 DEF Invoke, InUse, Inv, TypeOK
    <3>2. QED
      BY <1>4, <3>1, RoomTaken DEF Invoke, Inv
  <2>3. Authorized'
    BY <1>4 DEF Invoke, Inv, TypeOK, Authorized
  <2>4. EndsAgree'
    BY <1>4, UnaryAssumption DEF Invoke, Inv, TypeOK, Authorized, EndsAgree
  <2>5. QED
    BY <2>1, <2>2, <2>3, <2>4 DEF Inv
<1>5. ASSUME NEW c \in Call, InvokeFails(c) PROVE Inv'
  BY <1>5, ReturnKeeps, UnaryAssumption
     DEF InvokeFails, Inv, TypeOK, Authorized, EndsAgree
<1>6. ASSUME NEW c \in Call, Wait(c) PROVE Inv'
  <2>1. /\ pc[c] = "Wait" /\ upEnd[c] \in Ends /\ answer[c] \in Ends
        /\ upEnd[c] \in {"OK"} \cup BrokerErr => answer[c] = upEnd[c]
    BY <1>6 DEF Wait, Inv, TypeOK, EndsAgree
  <2>2. CASE upEnd[c] # "open" /\ Return(c, upEnd[c])
    <3>1. upEnd[c] = "Unknown" => rpc[c] = "none"
      BY <1>6 DEF Inv, TypeOK, EndsAgree
    <3>2. QED
      BY <2>1, <2>2, <3>1, ReturnKeeps
  <2>3. CASE UpstreamCanceled(c) /\ Return(c, "Canceled")
    BY <2>1, <2>3, ReturnKeeps, UnaryAssumption DEF Ends, Local
  <2>4. QED
    BY <1>6, <2>2, <2>3 DEF Wait
<1>7. ASSUME NEW c \in Call, Executes(c) PROVE Inv'
  <2>1. TypeOK'
    BY <1>7 DEF Executes, Inv, TypeOK
  <2>2. RoomKept'
    <3>1. InUse' \subseteq InUse
      BY <1>7 DEF Executes, InUse, Inv, TypeOK
    <3>2. QED
      BY <3>1, RoomReturned DEF Inv
  <2>3. Authorized'
    BY <1>7 DEF Executes, Inv, TypeOK, Authorized
  <2>4. EndsAgree'
    BY <1>7, UnaryAssumption DEF Executes, Inv, TypeOK, Authorized, EndsAgree
  <2>5. QED
    BY <2>1, <2>2, <2>3, <2>4 DEF Inv
<1>8. ASSUME NEW c \in Call, Refuses(c) PROVE Inv'
  <2>1. TypeOK'
    BY <1>8 DEF Refuses, Inv, TypeOK
  <2>2. RoomKept'
    <3>1. InUse' \subseteq InUse
      BY <1>8 DEF Refuses, InUse, Inv, TypeOK
    <3>2. QED
      BY <3>1, RoomReturned DEF Inv
  <2>3. Authorized'
    BY <1>8 DEF Refuses, Inv, TypeOK, Authorized
  <2>4. EndsAgree'
    BY <1>8, UnaryAssumption DEF Refuses, Inv, TypeOK, Authorized, EndsAgree
  <2>5. QED
    BY <2>1, <2>2, <2>3, <2>4 DEF Inv
<1>9. ASSUME NEW c \in Call, Dropped(c) PROVE Inv'
  <2>1. TypeOK'
    BY <1>9 DEF Dropped, Inv, TypeOK
  <2>2. RoomKept'
    <3>1. InUse' \subseteq InUse
      BY <1>9 DEF Dropped, InUse, Inv, TypeOK
    <3>2. QED
      BY <3>1, RoomReturned DEF Inv
  <2>3. Authorized'
    BY <1>9 DEF Dropped, Inv, TypeOK, Authorized
  <2>4. EndsAgree'
    BY <1>9, UnaryAssumption DEF Dropped, Inv, TypeOK, Authorized, EndsAgree
  <2>5. QED
    BY <2>1, <2>2, <2>3, <2>4 DEF Inv
<1>10. ASSUME NEW c \in Call, AnswerArrives(c) PROVE Inv'
  <2>1. TypeOK'
    <3>1. answer[c] \in Ends \ {"Unknown"}
      BY UnaryAssumption DEF Inv, TypeOK
    <3>2. QED
      BY <1>10, <3>1 DEF AnswerArrives, Inv, TypeOK
  <2>2. RoomKept'
    <3>1. InUse' \subseteq InUse
      BY <1>10 DEF AnswerArrives, InUse, Inv, TypeOK
    <3>2. QED
      BY <3>1, RoomReturned DEF Inv
  <2>3. Authorized'
    BY <1>10 DEF AnswerArrives, Inv, TypeOK, Authorized
  <2>4. EndsAgree'
    BY <1>10, UnaryAssumption
       DEF AnswerArrives, Inv, TypeOK, Authorized, EndsAgree
  <2>5. QED
    BY <2>1, <2>2, <2>3, <2>4 DEF Inv
<1>11. ASSUME NEW c \in Call, CancelUpstream(c) PROVE Inv'
  <2>1. TypeOK'
    BY <1>11 DEF CancelUpstream, Inv, TypeOK
  <2>2. RoomKept'
    <3>1. InUse' \subseteq InUse
      BY <1>11 DEF CancelUpstream, InUse, Inv, TypeOK
    <3>2. QED
      BY <3>1, RoomReturned DEF Inv
  <2>3. Authorized'
    BY <1>11 DEF CancelUpstream, Inv, TypeOK, Authorized
  <2>4. EndsAgree'
    BY <1>11, UnaryAssumption
       DEF CancelUpstream, InUse, Inv, TypeOK, Authorized, EndsAgree
  <2>5. QED
    BY <2>1, <2>2, <2>3, <2>4 DEF Inv
<1>12. CASE ConnectionBreaks
  <2>1. TypeOK'
    <3>1. upEnd' \in [Call -> Ends \ {"Unknown"}]
      BY <1>12 DEF ConnectionBreaks, Inv, TypeOK
    <3>2. QED
      BY <1>12, <3>1 DEF ConnectionBreaks, Inv, TypeOK
  <2>2. RoomKept'
    <3>1. InUse' \subseteq InUse
      BY <1>12 DEF ConnectionBreaks, InUse, Inv, TypeOK
    <3>2. QED
      BY <3>1, RoomReturned DEF Inv
  <2>3. Authorized'
    BY <1>12 DEF ConnectionBreaks, Inv, TypeOK, Authorized
  <2>4. EndsAgree'
    <3>1. UNCHANGED <<pc, upVars, downEnd, outcome>>
      BY <1>12 DEF ConnectionBreaks
    <3>2. ASSUME NEW c \in Call
          PROVE  \/ upEnd'[c] = upEnd[c]
                 \/ upEnd'[c] = "Unavailable" /\ rpc[c] # "none"
      BY <1>12 DEF ConnectionBreaks, InUse
    <3>3. QED
      BY <3>1, <3>2, UnaryAssumption DEF Inv, EndsAgree
  <2>5. QED
    BY <2>1, <2>2, <2>3, <2>4 DEF Inv
<1>13. ASSUME NEW c \in Call, ClientFinish(c) PROVE Inv'
  <2>1. TypeOK'
    BY <1>13 DEF ClientFinish, Inv, TypeOK
  <2>2. RoomKept'
    <3>1. InUse' \subseteq InUse
      BY <1>13 DEF ClientFinish, InUse, Inv, TypeOK
    <3>2. QED
      BY <3>1, RoomReturned DEF Inv
  <2>3. Authorized'
    BY <1>13 DEF ClientFinish, Inv, TypeOK, Authorized
  <2>4. EndsAgree'
    BY <1>13, UnaryAssumption
       DEF ClientFinish, Inv, TypeOK, Authorized, EndsAgree
  <2>5. QED
    BY <2>1, <2>2, <2>3, <2>4 DEF Inv
<1>14. ASSUME NEW c \in Call, ClientGone(c) PROVE Inv'
  <2>1. TypeOK'
    BY <1>14 DEF ClientGone, Inv, TypeOK
  <2>2. RoomKept'
    <3>1. InUse' \subseteq InUse
      BY <1>14 DEF ClientGone, InUse, Inv, TypeOK
    <3>2. QED
      BY <3>1, RoomReturned DEF Inv
  <2>3. Authorized'
    BY <1>14 DEF ClientGone, Inv, TypeOK, Authorized
  <2>4. EndsAgree'
    BY <1>14, UnaryAssumption DEF ClientGone, Inv, TypeOK, Authorized, EndsAgree
  <2>5. QED
    BY <2>1, <2>2, <2>3, <2>4 DEF Inv
<1>15. ASSUME NEW c \in Call, CancelArrives(c) PROVE Inv'
  <2>1. TypeOK'
    BY <1>15 DEF CancelArrives, Inv, TypeOK
  <2>2. RoomKept'
    <3>1. InUse' \subseteq InUse
      BY <1>15 DEF CancelArrives, InUse, Inv, TypeOK
    <3>2. QED
      BY <3>1, RoomReturned DEF Inv
  <2>3. Authorized'
    BY <1>15 DEF CancelArrives, Inv, TypeOK, Authorized
  <2>4. EndsAgree'
    BY <1>15, UnaryAssumption
       DEF CancelArrives, Inv, TypeOK, Authorized, EndsAgree
  <2>5. QED
    BY <2>1, <2>2, <2>3, <2>4 DEF Inv
<1>16. CASE UNCHANGED vars
  <2>1. TypeOK'
    BY <1>16 DEF vars, Inv, TypeOK
  <2>2. RoomKept'
    <3>1. InUse' \subseteq InUse
      BY <1>16 DEF vars, InUse, Inv, TypeOK
    <3>2. QED
      BY <3>1, RoomReturned DEF Inv
  <2>3. Authorized'
    BY <1>16 DEF vars, Inv, TypeOK, Authorized
  <2>4. EndsAgree'
    BY <1>16, UnaryAssumption DEF vars, Inv, TypeOK, Authorized, EndsAgree
  <2>5. QED
    BY <2>1, <2>2, <2>3, <2>4 DEF Inv
<1>17. QED
  BY <1>1, <1>2, <1>3, <1>4, <1>5, <1>6, <1>7, <1>8, <1>9, <1>10, <1>11,
     <1>12, <1>13, <1>14, <1>15, <1>16
     DEF Next, Handler

(* The inductive invariant holds.                                          *)
THEOREM InvCorrect == Spec => []Inv
  BY InvInit, InvNext, PTL DEF Spec

(* Every variable keeps its type.                                          *)
THEOREM TypeCorrect == Spec => []TypeOK
<1>1. Inv => TypeOK
  BY DEF Inv
<1>2. QED
  BY <1>1, InvCorrect, PTL

(* Whatever is done upstream is done under the caller's own first token.   *)
THEOREM OwnTokenCorrect == Spec => []OwnToken
<1>1. Inv => OwnToken
  BY DEF Inv, Authorized, OwnToken
<1>2. QED
  BY <1>1, InvCorrect, PTL

(* What a client is told of its call is true of the call.                  *)
THEOREM OutcomeCorrect == Spec => []OutcomeTrue
<1>1. Inv => OutcomeTrue
  BY UnaryAssumption DEF Inv, EndsAgree, OutcomeTrue
<1>2. QED
  BY <1>1, InvCorrect, PTL

(* No call is carried out twice.                                           *)
THEOREM NeverTwice == Spec => []AtMostOnce
<1>1. Inv => AtMostOnce
  BY DEF Inv, EndsAgree, AtMostOnce
<1>2. QED
  BY <1>1, InvCorrect, PTL
================================================================================
