----------------------------- MODULE JsonChars -----------------------------
(***************************************************************************)
(* The characters of strings in include/common/json.hpp: what the lexer    *)
(* takes in one turn of scan_string's loop, and what the serializer writes *)
(* in one turn of dump_escaped's.  Bytes are numbers.                      *)
(***************************************************************************)
EXTENDS Integers, SequencesExt

CONSTANT BufferSize   \* the bytes of the serializer's string_buffer

\* 512 of them; with fewer than 13 not even the first code point would fit.
ASSUME BufferAssumption == BufferSize \in Nat /\ BufferSize >= 13

Eof == -1
Quote == 34
Backslash == 92
Minus == 45
Zero == 48
Digits == 48..57
Spaces == {32, 9, 10, 13}

At(bytes, i) == IF i <= Len(bytes) THEN bytes[i] ELSE Eof

-----------------------------------------------------------------------------
\* scan_string

HexDigit(c) ==
  CASE c \in Digits -> c - 48
    [] c \in 65..70 -> c - 55
    [] c \in 97..102 -> c - 87
    [] OTHER -> -1

\* lexer::get_codepoint, of the four bytes from i; -1 without four hex digits.
GetCodepoint(bytes, i) ==
  LET d == [k \in 0..3 |-> HexDigit(At(bytes, i + k))]
  IN IF \E k \in 0..3 : d[k] = -1 THEN -1
     ELSE 16 * (16 * (16 * d[0] + d[1]) + d[2]) + d[3]

\* Code points are compared by their upper bits: U+D800..U+DBFF, U+DC00..U+DFFF.
HighSurrogate(cp) == cp \div 1024 = 54
LowSurrogate(cp) == cp \div 1024 = 55

\* Mutation: the marks of the surrogates stay in the result.
SupplementaryMarked(high, low) == 1024 * high + low

\* The code point from U+10000 on that two surrogates stand for.
Supplementary(high, low) == 1024 * (64 + (high % 1024)) + (low % 1024)

\* A continuation byte.
Cont(n) == 128 + (n % 64)

\* Mutation: two bytes for what takes three.
Utf8Short(cp) ==
  LET upper == cp \div 64
      top == upper \div 64
  IN CASE upper < 2 -> <<cp>>
       [] upper \in 2..32 -> <<192 + upper, Cont(cp)>>
       [] upper > 32 /\ top < 16 -> <<224 + top, Cont(upper), Cont(cp)>>
       [] OTHER -> <<240 + (top \div 64), Cont(top), Cont(upper), Cont(cp)>>

\* The bytes scan_string adds for a code point, by its bits from the 6th and from
\* the 12th on: up to 7F, 7FF, FFFF, and above.
Utf8(cp) ==
  LET upper == cp \div 64
      top == upper \div 64
  IN CASE upper < 2 -> <<cp>>
       [] upper \in 2..31 -> <<192 + upper, Cont(cp)>>
       [] upper > 31 /\ top < 16 -> <<224 + top, Cont(upper), Cont(cp)>>
       [] OTHER -> <<240 + (top \div 64), Cont(top), Cont(upper), Cont(cp)>>

\* scan_string after a backslash at i - 1: what is added, and how many bytes are
\* consumed, none of them when the escape is not accepted.
Simple == [c \in {34, 92, 47, 98, 102, 110, 114, 116} |->
             CASE c = 98 -> 8 [] c = 102 -> 12 [] c = 110 -> 10
               [] c = 114 -> 13 [] c = 116 -> 9 [] OTHER -> c]

Escape(bytes, i) ==
  LET c == At(bytes, i)
      high == GetCodepoint(bytes, i + 1)
      low == IF At(bytes, i + 5) = Backslash /\ At(bytes, i + 6) = 117
               THEN GetCodepoint(bytes, i + 7) ELSE -1
      Is(value, length) == [value |-> value, length |-> length]
  IN CASE c \in DOMAIN Simple -> Is(<<Simple[c]>>, 1)
       [] c = 117 /\ HighSurrogate(high) /\ LowSurrogate(low) ->
            Is(Utf8(Supplementary(high, low)), 11)
       [] c = 117 /\ high # -1 /\ ~HighSurrogate(high) /\ ~LowSurrogate(high) ->
            Is(Utf8(high), 5)
       [] OTHER -> Is(<<>>, 0)

\* Mutation: nothing above U+FFFFF.
TrailingShort(c) ==
  CASE c \in 194..223 -> 1
    [] c \in 224..239 -> 2
    [] c \in 240..243 -> 3
    [] OTHER -> 0

\* scan_string: how many ranges next_byte_in_range gets for a leading byte, none
\* for a byte that is no leading byte; and the ranges.
Trailing(c) ==
  CASE c \in 194..223 -> 1
    [] c \in 224..239 -> 2
    [] c \in 240..244 -> 3
    [] OTHER -> 0

\* Mutation: surrogates are let through.
ContinuationLax(c, k) ==
  CASE k = 1 /\ c = 224 -> 160..191
    [] k = 1 /\ c = 240 -> 144..191
    [] k = 1 /\ c = 244 -> 128..143
    [] OTHER -> 128..191

Continuation(c, k) ==
  CASE k = 1 /\ c = 224 -> 160..191
    [] k = 1 /\ c = 237 -> 128..159
    [] k = 1 /\ c = 240 -> 144..191
    [] k = 1 /\ c = 244 -> 128..143
    [] OTHER -> 128..191

\* next_byte_in_range: the bytes after a leading byte at i that are out of range;
\* it stops at the first.
OutOfRange(bytes, i) ==
  {k \in 1..Trailing(At(bytes, i)) :
     At(bytes, i + k) \notin Continuation(At(bytes, i), k)}

\* One turn of scan_string's loop, at i: what is added to token_buffer, how many
\* bytes are consumed, the token that ends the scan, if any, and for an error its
\* place: one after the last byte if more bytes might have made it right.
Char(value, length) == [value |-> value, length |-> length, ends |-> "", at |-> 0]
CharError(at) == [value |-> <<>>, length |-> 0, ends |-> "parse_error", at |-> at]

ScanChar(bytes, i) ==
  LET c == At(bytes, i)
      escape == Escape(bytes, i + 1)
      bad == OutOfRange(bytes, i)
  IN CASE c = Quote -> [Char(<<>>, 1) EXCEPT !.ends = "value_string"]
       [] c = Backslash /\ escape.length > 0 -> Char(escape.value, 1 + escape.length)
       [] c = Backslash /\ escape.length = 0 ->
            CharError(IF i + 12 <= Len(bytes) THEN i ELSE Len(bytes) + 1)
       [] c \in 32..127 \ {Quote, Backslash} -> Char(<<c>>, 1)
       [] Trailing(c) > 0 /\ bad = {} ->
            Char(SubSeq(bytes, i, i + Trailing(c)), 1 + Trailing(c))
       [] Trailing(c) > 0 /\ bad # {} -> CharError(i + Min(bad))
       [] OTHER -> CharError(i)      \* end, control character, ill-formed

-----------------------------------------------------------------------------
\* dump_escaped, neither ASCII only nor lenient about UTF-8

\* serializer::decode: the columns of its table, and its states but for accept
\* and reject.
ByteType(c) ==
  CASE c < 128 -> "ascii"
    [] c \in 128..143 -> "80" [] c \in 144..159 -> "90" [] c \in 160..191 -> "A0"
    [] c \in 194..223 -> "two"
    [] c = 224 -> "E0" [] c = 237 -> "ED" [] c \in 225..239 \ {237} -> "three"
    [] c = 240 -> "F0" [] c = 244 -> "F4" [] c \in 241..243 -> "four"
    [] OTHER -> "none"

Decode(state, c) ==
  LET type == ByteType(c)
      trails == type \in {"80", "90", "A0"}
  IN CASE state = "accept" -> (CASE type = "ascii" -> "accept"
                                 [] type = "two" -> "1 more"
                                 [] type \in {"three", "E0", "ED"} ->
                                      IF type = "three" THEN "2 more" ELSE type
                                 [] type \in {"four", "F0", "F4"} ->
                                      IF type = "four" THEN "3 more" ELSE type
                                 [] OTHER -> "reject")
       [] state = "1 more" /\ trails -> "accept"
       [] state = "2 more" /\ trails -> "1 more"
       [] state = "3 more" /\ trails -> "2 more"
       [] state = "E0" /\ type = "A0" -> "1 more"
       [] state = "ED" /\ type \in {"80", "90"} -> "1 more"
       [] state = "F0" /\ type \in {"90", "A0"} -> "2 more"
       [] state = "F4" /\ type = "80" -> "2 more"
       [] OTHER -> "reject"

\* decode's code point: the bits of a leading byte that its type does not mask,
\* then six more of each byte that follows.
LeadingBits(c) ==
  LET type == ByteType(c)
  IN CASE type = "ascii" -> c
       [] type = "80" -> c % 128 [] type = "two" -> c % 64 [] type = "three" -> c % 32
       [] type = "ED" -> c % 16 [] type = "F4" -> c % 8 [] type = "four" -> c % 4
       [] type = "A0" -> c % 2
       [] OTHER -> 0

DecodePoint(state, codepoint, c) ==
  IF state = "accept" THEN LeadingBits(c) ELSE 64 * codepoint + (c % 64)

Hex(n) == IF n < 10 THEN 48 + n ELSE 87 + n

\* Mutations: the other control characters as they are; a backslash likewise.
EscapedFew(codepoint, c) ==
  CASE codepoint \in {Quote, Backslash} -> <<Backslash, codepoint>>
    [] codepoint = 8 -> <<Backslash, 98>> [] codepoint = 9 -> <<Backslash, 116>>
    [] codepoint = 10 -> <<Backslash, 110>> [] codepoint = 12 -> <<Backslash, 102>>
    [] codepoint = 13 -> <<Backslash, 114>>
    [] OTHER -> <<c>>

EscapedNoBackslash(codepoint, c) ==
  CASE codepoint = Quote -> <<Backslash, codepoint>>
    [] codepoint = 8 -> <<Backslash, 98>> [] codepoint = 9 -> <<Backslash, 116>>
    [] codepoint = 10 -> <<Backslash, 110>> [] codepoint = 12 -> <<Backslash, 102>>
    [] codepoint = 13 -> <<Backslash, 114>>
    [] codepoint \in 0..31 \ {8, 9, 10, 12, 13} ->
         <<Backslash, 117, Zero, Zero, Hex(codepoint \div 16), Hex(codepoint % 16)>>
    [] OTHER -> <<c>>

\* What is written for a code point at its last byte c; of those that are not
\* escaped the bytes before are written already.
Escaped(codepoint, c) ==
  CASE codepoint \in {Quote, Backslash} -> <<Backslash, codepoint>>
    [] codepoint = 8 -> <<Backslash, 98>> [] codepoint = 9 -> <<Backslash, 116>>
    [] codepoint = 10 -> <<Backslash, 110>> [] codepoint = 12 -> <<Backslash, 102>>
    [] codepoint = 13 -> <<Backslash, 114>>
    [] codepoint \in 0..31 \ {8, 9, 10, 12, 13} ->
         <<Backslash, 117, Zero, Zero, Hex(codepoint \div 16), Hex(codepoint % 16)>>
    [] OTHER -> <<c>>

\* Mutation: only the longest escape of one code unit has room.
FullAtSix(buffer) == BufferSize - Len(buffer) < 6

\* string_buffer is written out after a code point that leaves less than the room
\* of the longest escape.
Full(buffer) == BufferSize - Len(buffer) < 13

DumpStart == [state |-> "accept", codepoint |-> 0, buffer |-> <<>>, output |-> <<>>]

\* One turn of dump_escaped's loop, for the byte c; a rejected byte throws.
DumpByte(dump, c) ==
  LET state == Decode(dump.state, c)
      codepoint == DecodePoint(dump.state, dump.codepoint, c)
      buffer == dump.buffer \o (IF state = "accept" THEN Escaped(codepoint, c) ELSE <<c>>)
      Next(kept, output) == [state |-> state, codepoint |-> codepoint,
                             buffer |-> kept, output |-> output]
  IN CASE state = "reject" -> Next(dump.buffer, dump.output)
       [] state = "accept" /\ Full(buffer) -> Next(<<>>, dump.output \o buffer)
       [] OTHER -> Next(buffer, dump.output)

\* After the last byte: what is in the buffer is written, unless a code point is
\* incomplete, which throws.
DumpEnd(dump) ==
  IF dump.state = "accept"
    THEN [dump EXCEPT !.buffer = <<>>, !.output = @ \o dump.buffer]
    ELSE [dump EXCEPT !.state = "reject"]
=============================================================================
