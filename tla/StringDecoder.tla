---------------------------- MODULE StringDecoder ----------------------------
(***************************************************************************)
(* StringDecoder of lib/string_decoder.js for UTF-8: the buffers of a       *)
(* stream are cut anywhere, and a character that is cut is kept until its   *)
(* last byte comes.                                                         *)
(*                                                                          *)
(* A text is given by the number of bytes of its characters.  A byte is     *)
(* <<character, place>>; what the decoder sees of it is how it begins:      *)
(* Lead(b) is the length of a character that starts with it, zero for a     *)
(* continuation byte.                                                       *)
(***************************************************************************)
EXTENDS Integers, Sequences, SequencesExt

CONSTANTS
  Texts,      \* the texts, sequences of lengths from 1 to 4
  MaxBuffer   \* the most bytes in a buffer

DecoderAssumption == Texts \subseteq Seq(1..4) /\ MaxBuffer \in Nat

VARIABLES
  text,         \* the text that is sent
  given,        \* how many of its bytes were passed to write()
  charBuffer,   \* what is kept of an incomplete character
  charLength,   \* its length, zero if there is none
  string        \* what write() has returned, so far: characters, or Bad

vars == <<text, given, charBuffer, charLength, string>>

Bytes == FlattenSeq([c \in DOMAIN text |-> [k \in 1..text[c] |-> <<c, k>>]])
Lead(b) == IF b[2] = 1 THEN text[b[1]] ELSE 0

-----------------------------------------------------------------------------
\* buffer.toString(): a character for all of its bytes, and Bad for each byte of another.
Bad == 0

Whole(bytes, i) ==
  /\ bytes[i][2] = 1 /\ i + text[bytes[i][1]] - 1 <= Len(bytes)
  /\ \A k \in 1..(text[bytes[i][1]] - 1) : bytes[i + k] = <<bytes[i][1], k + 1>>

Inside(bytes, i) ==
  \E j \in 1..i : Whole(bytes, j) /\ j < i /\ i < j + text[bytes[j][1]]

toString(bytes) ==
  FlattenSeq([i \in DOMAIN bytes |->
    IF Whole(bytes, i) THEN <<bytes[i][1]>> ELSE IF Inside(bytes, i) THEN << >> ELSE <<Bad>>])

Min2(a, b) == IF a <= b THEN a ELSE b
Drop(s, n) == SubSeq(s, n + 1, Len(s))

\* One of the last three bytes announces a character that is longer than what follows: how
\* many bytes from the end, zero if there is none.
Announces(buffer, i) == Lead(buffer[Len(buffer) - i + 1]) > i

\* A variant looks at the last two bytes only.
Incomplete_Two(buffer) ==
  LET at == {i \in 1..Min2(2, Len(buffer)) : Announces(buffer, i)}
  IN IF at = {} THEN 0 ELSE CHOOSE i \in at : \A j \in at : j <= i

Incomplete(buffer) ==
  LET at == {i \in 1..Min2(3, Len(buffer)) : Announces(buffer, i)}
  IN IF at = {} THEN 0 ELSE CHOOSE i \in at : \A j \in at : j <= i

\* The second part of write(): keep an incomplete character, return the rest.
Keep(before, buffer) ==
  LET i == Incomplete(buffer)
      cut == Len(buffer) - i
  IN /\ charBuffer' = Drop(buffer, cut)
     /\ charLength' = IF i = 0 THEN 0 ELSE Lead(buffer[cut + 1])
     /\ string' = string \o before \o toString(SubSeq(buffer, 1, cut))

\* The first part: complete the character that is kept.
write(buffer) ==
  LET i == Min2(charLength - Len(charBuffer), Len(buffer))
      char == charBuffer \o SubSeq(buffer, 1, i)
  IN IF charLength = 0 THEN Keep(<< >>, buffer)
     ELSE IF Len(char) < charLength
     THEN charBuffer' = char /\ UNCHANGED <<charLength, string>>
     ELSE IF i = Len(buffer)
     THEN charBuffer' = << >> /\ charLength' = 0 /\ string' = string \o toString(char)
     ELSE Keep(toString(char), Drop(buffer, i))

-----------------------------------------------------------------------------
Init ==
  /\ text \in Texts
  /\ given = 0 /\ charBuffer = << >> /\ charLength = 0 /\ string = << >>

\* The next buffer of the stream.
Write(n) ==
  /\ given + n <= Len(Bytes)
  /\ write(SubSeq(Bytes, given + 1, given + n))
  /\ given' = given + n
  /\ UNCHANGED text

Next == \E n \in 0..MaxBuffer : Write(n)

Spec == Init /\ [][Next]_vars

-----------------------------------------------------------------------------
Size(c) == IF c = 0 THEN 0 ELSE Len(FlattenSeq([k \in 1..c |-> [j \in 1..text[k] |-> j]]))

\* However the text is cut, the strings make up the characters that were received in whole,
\* each of them as soon as its last byte was, and nothing else.
Decoded ==
  LET whole == {c \in DOMAIN text : Size(c) <= given}
      n == IF whole = {} THEN 0 ELSE CHOOSE c \in whole : \A k \in whole : k <= c
  IN string = [c \in 1..n |-> c]
=============================================================================
