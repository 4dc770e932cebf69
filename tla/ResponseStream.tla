---------------------------- MODULE ResponseStream -----------------------------
(***************************************************************************)
(* What a proxied server stream promises its client, with no gateway in    *)
(* sight: the source produces responses and ends, the client reads them in *)
(* order and then learns how the source ended; or the call is cut short at *)
(* any point, and then says so.  JournalRead implements it.                *)
(***************************************************************************)
EXTENDS Naturals, Sequences

CONSTANTS Resp, BrokerErr

VARIABLES sent, brokerEnd, got, outcome

vars == <<sent, brokerEnd, got, outcome>>

Init == sent = <<>> /\ brokerEnd = "open" /\ got = <<>> /\ outcome = "open"

Produce ==
  /\ brokerEnd = "open"
  /\ \E r \in Resp : sent' = Append(sent, r)
  /\ UNCHANGED <<brokerEnd, got, outcome>>

End ==
  /\ brokerEnd = "open"
  /\ brokerEnd' \in {"EOF"} \cup BrokerErr
  /\ UNCHANGED <<sent, got, outcome>>

Deliver ==
  /\ outcome = "open" /\ Len(got) < Len(sent)
  /\ got' = Append(got, sent[Len(got) + 1])
  /\ UNCHANGED <<sent, brokerEnd, outcome>>

(* The source's own end, told only when everything has been delivered.     *)
Finish ==
  /\ outcome = "open" /\ got = sent /\ brokerEnd # "open"
  /\ outcome' = IF brokerEnd = "EOF" THEN "OK" ELSE brokerEnd
  /\ UNCHANGED <<sent, brokerEnd, got>>

CutShort ==
  /\ outcome = "open"
  /\ outcome' \in {"Canceled", "Unavailable", "Unknown"}
  /\ UNCHANGED <<sent, brokerEnd, got>>

Next == Produce \/ End \/ Deliver \/ Finish \/ CutShort

Spec == Init /\ [][Next]_vars
================================================================================
