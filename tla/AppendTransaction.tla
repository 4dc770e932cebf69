--------------------------- MODULE AppendTransaction ---------------------------
(***************************************************************************)
(* What a proxied append promises its client, with no gateway in sight:    *)
(* the journal takes all that was asked, once the client has closed its    *)
(* stream, or nothing, forever; the client is told the journal's verdict,  *)
(* or that it was not taken, or that nobody knows.  JournalAppend          *)
(* implements it.                                                          *)
(***************************************************************************)
EXTENDS Naturals, Sequences

CONSTANTS Req, Committed, Refusal, BrokerErr

VARIABLES
  asked,    \* what the client has sent
  closed,   \* it means that to be all
  stored,   \* what the journal took
  verdict,  \* "open", Committed, what it was refused with, or "dropped"
  outcome   \* what the client was told

vars == <<asked, closed, stored, verdict, outcome>>

Init ==
  /\ asked = <<>> /\ closed = FALSE /\ stored = <<>>
  /\ verdict = "open" /\ outcome = "open"

Ask ==
  /\ outcome = "open" /\ ~closed
  /\ \E r \in Req : asked' = Append(asked, r)
  /\ UNCHANGED <<closed, stored, verdict, outcome>>

Close ==
  /\ outcome = "open" /\ ~closed
  /\ closed' = TRUE
  /\ UNCHANGED <<asked, stored, verdict, outcome>>

Commit ==
  /\ verdict = "open" /\ closed
  /\ stored' = asked /\ verdict' = Committed
  /\ UNCHANGED <<asked, closed, outcome>>

(* Nobody will take it any more.                                           *)
Drop ==
  /\ verdict = "open"
  /\ verdict' = "dropped"
  /\ UNCHANGED <<asked, closed, stored, outcome>>

Refuse ==
  /\ verdict \in {"open", "dropped"}
  /\ verdict' \in Refusal \cup BrokerErr
  /\ UNCHANGED <<asked, closed, stored, outcome>>

Tell ==
  /\ outcome = "open" /\ verdict \notin {"open", "dropped"}
  /\ outcome' = verdict
  /\ UNCHANGED <<asked, closed, stored, verdict>>

(* The append was not taken, and will not be.                              *)
TellNotTaken ==
  /\ outcome = "open" /\ verdict \notin {"open", Committed}
  /\ outcome' = "Unknown"
  /\ UNCHANGED <<asked, closed, stored, verdict>>

CutShort ==
  /\ outcome = "open"
  /\ outcome' \in {"Canceled", "Unavailable"}
  /\ UNCHANGED <<asked, closed, stored, verdict>>

Next ==
  \/ Ask \/ Close \/ Commit \/ Drop \/ Refuse
  \/ Tell \/ TellNotTaken \/ CutShort

Spec == Init /\ [][Next]_vars
================================================================================
