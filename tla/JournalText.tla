------------------------------ MODULE JournalText ------------------------------
(***************************************************************************)
(* The text half of parseJournalDocuments (client/src/journal_client.ts):  *)
(* decodeContent piped into splitStream.  The bytes of a journal come in   *)
(* contents cut anywhere, within a character and within a separator too,   *)
(* and go out as the lines that JSON.parse is given.  What the text of one *)
(* content is, DecodeContent says; what becomes of text that comes in      *)
(* chunks, SplitStream.                                                    *)
(***************************************************************************)
EXTENDS Naturals, Sequences, SequencesExt, DecodeContent

CONSTANTS Separators,  \* texts of Ascii that a caller may split on
          MaxContent,  \* bound: bytes in one content
          MaxJournal   \* bound: bytes in the journal

ASSUME TextAssumption ==
  /\ Ascii \cap (Lead \cup Trail) = {} /\ Lead \cap Trail = {}
  /\ Replacement \notin {<<b>> : b \in Ascii}
  /\ Separators \subseteq Seq({<<b>> : b \in Ascii}) \ {<<>>}
  /\ MaxContent \in Nat /\ MaxJournal \in Nat

VARIABLES
  journal,  \* the bytes the contents so far hold
  damaged,  \* which of its characters were cut by the end of a content
  splitOn, buffer, parts, closed,  \* of splitStream
  text      \* what went into it

splitVars == <<splitOn, buffer, parts, closed, text>>
vars == <<journal, damaged, splitVars>>

Split == INSTANCE SplitStream WITH
           Char <- Character, MaxInput <- MaxJournal, input <- text

Init == journal = <<>> /\ damaged = {} /\ Split!Init

(* The next content of the journal arrives and goes through both stages.   *)
Receive(content) ==
  /\ ~closed
  /\ UTF8(journal \o content) /\ Len(journal \o content) <= MaxJournal
  /\ journal' = journal \o content
  /\ damaged' = IF InCharacter(journal')
                THEN damaged \cup {Len(Characters(journal'))} ELSE damaged
  /\ IF Transform(content) = <<>> THEN UNCHANGED splitVars
     ELSE Split!Transform(Transform(content)[1])

End == Split!Flush /\ UNCHANGED <<journal, damaged>>

Next == (\E content \in BoundedSeq(Byte, MaxContent) : Receive(content)) \/ End

Spec == Init /\ [][Next]_vars

-----------------------------------------------------------------------------
TypeOK ==
  /\ journal \in Seq(Byte) /\ damaged \subseteq 1..Len(Characters(journal))
  /\ splitOn \in Separators
  /\ buffer \in Seq(Character) /\ text \in Seq(Character)
  /\ parts \in Seq(Seq(Character)) /\ closed \in BOOLEAN

(* The reference: read a text one element at a time, and end a line as     *)
(* soon as its last elements are the separator; what no separator follows  *)
(* is the rest.                                                            *)
LineStep(separator, state, c) ==
  LET line == Append(state.rest, c)
      n    == Len(line) - Len(separator)
  IN  IF IsSuffix(separator, line)
      THEN [lines |-> Append(state.lines, SubSeq(line, 1, n)), rest |-> <<>>]
      ELSE [lines |-> state.lines, rest |-> line]

Reading(string, separator) ==
  LET read[i \in 0..Len(string)] ==
        IF i = 0 THEN [lines |-> <<>>, rest |-> <<>>]
                 ELSE LineStep(separator, read[i - 1], string[i])
  IN  read[Len(string)]

(* The journal's characters, and those that a cut leaves legible.          *)
Marked ==
  LET chars == Characters(journal)
  IN  [i \in DOMAIN chars |-> [char |-> chars[i], cut |-> i \in damaged]]
Unmarked(string) ==
  [i \in DOMAIN string |-> [char |-> string[i], cut |-> FALSE]]

Legible(line) ==
  FlattenSeq([i \in DOMAIN line |->
    IF line[i].cut THEN [b \in DOMAIN line[i].char |-> Replacement]
                   ELSE <<line[i].char>>])

(* The lines that come out are those of the journal, every one of them, in *)
(* order, however its bytes are cut into contents; a character that two    *)
(* contents share is damaged, and nothing else is: neither the rest of its *)
(* line nor how the text around it is cut into lines.  The end of the      *)
(* stream hands out nothing more: "Any incomplete lines are dropped"       *)
(* (journal_client.ts:72-75, streams.ts:66, :5, :18).                      *)
LinesSurviveCuts ==
  LET lines == Reading(Marked, Unmarked(splitOn)).lines
  IN  parts = [k \in DOMAIN lines |-> Legible(lines[k])]

(* Why they are: what went into splitStream is the text of the journal, a  *)
(* replacement for each byte of a damaged character; and splitStream has   *)
(* handed out the lines of that text and keeps the rest of it, as if it    *)
(* had come in one piece (streams.ts:57-66, :4-8).                         *)
TextOfJournal ==
  /\ UTF8(journal)
  /\ InCharacter(journal) => Len(Characters(journal)) \in damaged
  /\ text = Legible(Marked)

LinesOfText ==
  /\ parts = Reading(text, splitOn).lines
  /\ buffer = Reading(text, splitOn).rest

Inv == TypeOK /\ TextOfJournal /\ LinesOfText

(* "JournalClient.read Arabic content test"                                *)
(* (client/test/journal_client_test.ts:132): the documents of a journal    *)
(* come out as they were written, whatever their characters.  The code     *)
(* decodes each content on its own, and a character two contents share     *)
(* comes out as two replacement characters.                                *)
JournalDecodes == ~InCharacter(journal) => text = Characters(journal)
================================================================================
