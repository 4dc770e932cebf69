----------------------------- MODULE MCJournalRead -----------------------------
(* JournalRead for TLC: two responses that can be told apart, one failure. *)
EXTENDS JournalRead
================================================================================
