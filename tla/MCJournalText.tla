----------------------------- MODULE MCJournalText -----------------------------
(* JournalText for TLC: characters of one byte and of two, the separator   *)
(* the client uses, and two of two characters, of which one overlaps with  *)
(* itself.                                                                 *)
EXTENDS JournalText

n == <<"n">>
a == <<"a">>
MCSeparators == {<<n>>, <<n, n>>, <<n, a>>}
================================================================================
