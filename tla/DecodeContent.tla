----------------------------- MODULE DecodeContent -----------------------------
(***************************************************************************)
(* decodeContent of client/src/streams.ts: the base64 `content` of a read  *)
(* response becomes a chunk of text, by a TextDecoder of its own.          *)
(*                                                                         *)
(* A byte is one of Ascii, the first byte of a character of two bytes      *)
(* (Lead), or its second (Trail): enough of UTF-8 to tell text that was    *)
(* decoded as one from text that was decoded in pieces.  atob and the loop *)
(* over charCodeAt only restore the bytes the gateway encoded.             *)
(***************************************************************************)
EXTENDS Naturals, Sequences, SequencesExt

CONSTANTS Ascii, Lead, Trail

Byte == Ascii \cup Lead \cup Trail

(* U+FFFD, which TextDecoder puts in place of what is not UTF-8.           *)
Replacement == <<"U+FFFD">>

(* A character is the sequence of its bytes.                               *)
Character ==
  {<<b>> : b \in Ascii} \cup {<<l, t>> : l \in Lead, t \in Trail}
    \cup {Replacement}

(* Text is UTF-8: first and second bytes come in pairs, of which the last  *)
(* may be incomplete so far.                                               *)
UTF8(bytes) ==
  \A i \in DOMAIN bytes :
    bytes[i] \in Trail <=> i > 1 /\ bytes[i - 1] \in Lead
InCharacter(bytes) == bytes # <<>> /\ Last(bytes) \in Lead

(* The characters of UTF-8 text, the incomplete one included.              *)
CharStep(chars, b) ==
  IF b \in Trail THEN Append(Front(chars), Append(Last(chars), b))
                 ELSE Append(chars, <<b>>)

Characters(bytes) ==
  LET chars[i \in 0..Len(bytes)] ==
        IF i = 0 THEN <<>> ELSE CharStep(chars[i - 1], bytes[i])
  IN  chars[Len(bytes)]

(* Mutant: the decoder is fatal, and a content it throws on is skipped.    *)
DecodeFatal(bytes) ==
  IF Head(bytes) \in Trail \/ Last(bytes) \in Lead THEN <<>>
                                                   ELSE Characters(bytes)

(* new TextDecoder().decode(bytes): a byte that belongs to no character is *)
(* replaced.                                                               *)
Decode(bytes) ==
  LET Pair(i) == i \in 1..(Len(bytes) - 1)
                   /\ bytes[i] \in Lead /\ bytes[i + 1] \in Trail
      CharAt(i) ==
        IF bytes[i] \in Ascii THEN <<bytes[i]>>
        ELSE IF Pair(i) THEN <<bytes[i], bytes[i + 1]>> ELSE Replacement
  IN  FlattenSeq([i \in DOMAIN bytes |->
                   IF Pair(i - 1) THEN <<>> ELSE <<CharAt(i)>>])

(* The chunks a content becomes: none, if it is empty.                     *)
Transform(content) == IF content = <<>> THEN <<>> ELSE <<Decode(content)>>
================================================================================
