----------------------------- MODULE SplitStream -------------------------------
(***************************************************************************)
(* splitStream(splitOn) of client/src/streams.ts: a TransformStream that   *)
(* cuts a character stream, arriving in chunks of any size, at every       *)
(* occurrence of a separator, and drops what follows the last one.         *)
(*                                                                         *)
(* Strings are sequences over Char.  The separator is the argument of the  *)
(* stream's constructor: fixed, one of Separators.  JournalText composes   *)
(* this stage with the one that feeds it.                                  *)
(***************************************************************************)
EXTENDS Naturals, Sequences, SequencesExt

CONSTANTS Char,        \* the characters a chunk is made of
          Separators,  \* the non-empty strings to split on
          MaxInput     \* bound: characters in the whole stream

VARIABLES
  splitOn,  \* the separator
  buffer,   \* characters kept from earlier chunks
  parts,    \* strings enqueued on the readable side
  closed,   \* the writable side was closed and flush has run
  input     \* every character that arrived, in order

-----------------------------------------------------------------------------
(* String.prototype.split with a non-empty separator: cut at the leftmost  *)
(* occurrence, and go on behind it.                                        *)

Occurrences(s, sep) ==
  {i \in 1..Len(s) : IsPrefix(sep, SubSeq(s, i, Len(s)))}

Leftmost(S) == CHOOSE i \in S : \A j \in S : i <= j

Split(str, sep) ==
  LET f[s \in Seq(Char)] ==
        IF Occurrences(s, sep) = {} THEN <<s>>
        ELSE LET i == Leftmost(Occurrences(s, sep))
             IN  <<SubSeq(s, 1, i - 1)>> \o f[SubSeq(s, i + Len(sep), Len(s))]
  IN  f[str]

(* queueLines: enqueue every part but the last, keep the last.             *)
QueueLines(text) ==
  LET split == Split(text, splitOn)
  IN  /\ parts' = parts \o Front(split)
      /\ buffer' = Last(split)

Init ==
  /\ splitOn \in Separators
  /\ buffer = <<>> /\ parts = <<>>
  /\ closed = FALSE /\ input = <<>>

(* Mutant: what was kept of earlier chunks is not looked at.               *)
TransformForgets(chunk) ==
  /\ ~closed /\ Len(input) + Len(chunk) <= MaxInput
  /\ input' = input \o chunk
  /\ QueueLines(chunk)
  /\ UNCHANGED <<splitOn, closed>>

Transform(chunk) ==
  /\ ~closed /\ Len(input) + Len(chunk) <= MaxInput
  /\ input' = input \o chunk
  /\ QueueLines(buffer \o chunk)
  /\ UNCHANGED <<splitOn, closed>>

Flush ==
  /\ ~closed
  /\ closed' = TRUE
  /\ IF buffer # <<>> THEN QueueLines(buffer) ELSE UNCHANGED <<buffer, parts>>
  /\ UNCHANGED <<splitOn, input>>
================================================================================
