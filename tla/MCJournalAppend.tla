---------------------------- MODULE MCJournalAppend ----------------------------
(* JournalAppend for TLC: two requests, one refusal, one failure.          *)
EXTENDS JournalAppend
================================================================================
