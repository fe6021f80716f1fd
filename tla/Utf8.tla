--------------------------------- MODULE Utf8 ---------------------------------
(***************************************************************************)
(* The decoder of TerminalBuffer::feed, crates/client/src/terminal.rs: it  *)
(* turns the bytes of a session's output, which arrive cut anywhere, into  *)
(* characters, and keeps an incomplete sequence for the next call.         *)
(*                                                                         *)
(* A character is the sequence of its bytes, and REPLACEMENT is U+FFFD.    *)
(***************************************************************************)
EXTENDS Integers, Sequences, SequencesExt

CONSTANTS
  Bytes,      \* the bytes that output is made of
  Scalars,    \* the characters that text is made of, as code points
  MaxBytes    \* bound: bytes of output

(* A character of Unicode: no surrogate, and at most U+10FFFF.             *)
Scalar(n) == n \in Nat /\ n <= 1114111 /\ (n < 55296 \/ n > 57343)

ASSUME Utf8Bounds ==
  /\ Bytes \subseteq 0..255 /\ MaxBytes \in Nat
  /\ \A n \in Scalars : Scalar(n)

(* UTF-8, as the remote side encodes a character.                          *)
Encoded(n) ==
  CASE n < 128                -> <<n>>
    [] n >= 128 /\ n < 2048   -> <<192 + (n \div 64), 128 + (n % 64)>>
    [] n >= 2048 /\ n < 65536 -> <<224 + (n \div 4096), 128 + ((n \div 64) % 64),
                                   128 + (n % 64)>>
    [] OTHER                  -> <<240 + (n \div 262144), 128 + ((n \div 4096) % 64),
                                   128 + ((n \div 64) % 64), 128 + (n % 64)>>

Chars == {Encoded(n) : n \in Scalars}

REPLACEMENT == <<>>

(* Mutant: the leads of five and six bytes that UTF-8 once had.            *)
LenWithObsolete(b) ==
  CASE b < 128         -> 1
    [] b \in 192..223  -> 2
    [] b \in 224..239  -> 3
    [] b \in 240..247  -> 4
    [] b \in 248..251  -> 5
    [] b \in 252..253  -> 6
    [] OTHER           -> 0

(* The length that a lead byte announces, 0 for a byte that is none.       *)
utf8_len(b) ==
  CASE b < 128         -> 1
    [] b \in 192..223  -> 2
    [] b \in 224..239  -> 3
    [] b \in 240..247  -> 4
    [] OTHER           -> 0

(* std::str::from_utf8 on the announced number of bytes: no overlong forms, *)
(* no surrogates, nothing above U+10FFFF.                                  *)
WellFormed(s) ==
  /\ \A i \in 2..Len(s) : s[i] \in 128..191
  /\ s[1] \notin {192, 193} /\ s[1] <= 244
  /\ s[1] = 224 => s[2] >= 160
  /\ s[1] = 237 => s[2] < 160
  /\ s[1] = 240 => s[2] >= 144
  /\ s[1] = 244 => s[2] < 144

(* Mutant: the last character is kept until more arrives.                  *)
IncompleteAtEnd(bytes, i) == i + utf8_len(bytes[i + 1]) >= Len(bytes)

(* The bytes before the i-th are done; the next announces more than is     *)
(* left.                                                                   *)
Incomplete(bytes, i) == i + utf8_len(bytes[i + 1]) > Len(bytes)

(* How many bytes are consumed: all that were announced, well-formed or    *)
(* not, and one if there was no announcement.                              *)
Announced(b) == IF utf8_len(b) = 0 THEN 1 ELSE utf8_len(b)

Char(bytes, i) ==
  LET c == SubSeq(bytes, i + 1, i + Announced(bytes[i + 1]))
  IN  IF utf8_len(bytes[i + 1]) > 0 /\ WellFormed(c) THEN c ELSE REPLACEMENT

(* The loop of feed, for each value of its index: the characters that it   *)
(* feeds to the parser from there on, and what is left when it stops.      *)
Decoded(bytes) ==
  LET from[i \in 0..Len(bytes)] ==
        IF i = Len(bytes) \/ Incomplete(bytes, i)
        THEN [fed |-> <<>>, pending |-> SubSeq(bytes, i + 1, Len(bytes))]
        ELSE LET rest == from[i + Announced(bytes[i + 1])]
             IN  [fed |-> <<Char(bytes, i)>> \o rest.fed, pending |-> rest.pending]
  IN  from[0]

(* Mutant: a call starts from scratch.                                     *)
FeedNew(pending, data) == Decoded(data)

feed(pending, data) == Decoded(pending \o data)

-----------------------------------------------------------------------------
VARIABLES
  sent,      \* every byte of the output so far
  fed,       \* the characters that were fed to the parser
  pending    \* TerminalBuffer::pending

DecoderVars == <<sent, fed, pending>>

Strings(n) == UNION {[1..m -> Bytes] : m \in 0..n}

DecoderInit == sent = <<>> /\ fed = <<>> /\ pending = <<>>

(* A packet of output arrives, of any length.                              *)
Packet ==
  \E data \in Strings(MaxBytes - Len(sent)) \ {<<>>} :
    LET r == feed(pending, data)
    IN  /\ sent' = sent \o data
        /\ fed' = fed \o r.fed
        /\ pending' = r.pending

DecoderSpec == DecoderInit /\ [][Packet]_DecoderVars

-----------------------------------------------------------------------------
(* Output is cut into packets anywhere, in the middle of a character too:  *)
(* the characters fed, and the bytes kept, are those of the whole output   *)
(* fed at once, whether it is well-formed or not.                          *)
CutsDoNotMatter ==
  [fed |-> fed, pending |-> pending] = Decoded(sent)

(* Well-formed text arrives as it was sent, in whatever packets: each      *)
(* character once, and none of them replaced or kept back.                 *)
TextArrives ==
  \A n \in 1..Len(sent) : \A text \in [1..n -> Chars] :
    FlattenSeq(text) = sent => fed = text /\ pending = <<>>

(* Whatever came before, also leads that announce more than follows, no    *)
(* more than three ASCII characters are lost to it: the next character is  *)
(* decoded as it was sent.                                                 *)
DamageIsBounded ==
  \A c \in Chars :
    LET r == feed(pending, <<65, 65, 65>> \o c)
    IN  r.pending = <<>> /\ r.fed[Len(r.fed)] = c
=============================================================================
