-------------------------- MODULE JsonStringProofs --------------------------
(***************************************************************************)
(* Strings of any length, made of any bytes, go through the server.        *)
(*                                                                         *)
(* What scan_string accepts is a sequence of characters in the form the    *)
(* serializer's table accepts; so dump_escaped never throws, and the       *)
(* places of characters in the string correspond to places in what it      *)
(* writes, at which the receiver's scan_string finds them again.           *)
(***************************************************************************)
EXTENDS JsonStrings, SequenceTheorems, TLAPS

\* The bytes, and the texts made of them.
Byte == 0..255
Strings == Seq(Byte)

\* A byte is a number, which is all that comparing it takes.
LEMMA BytesAreIntegers == \A c \in Byte : c \in Int /\ c \in Nat
BY SMT DEF Byte

(***************************************************************************)
(* Characters: n bytes of s from b on are one in its shortest form, as     *)
(* scan_string has it (Unicode, table 3-7).                                *)
(***************************************************************************)
CharAt(s, b, n) ==
  /\ n \in 1..4 /\ b \in 1..Len(s) /\ b + n - 1 <= Len(s)
  /\ n = 1 => s[b] \in 0..127
  /\ n > 1 => /\ Trailing(s[b]) = n - 1
              /\ \A k \in 1..n - 1 : s[b + k] \in Continuation(s[b], k)

\* B is the set of the places in s where a character begins, its end included.
Begins(s, B) ==
  /\ B \subseteq 1..Len(s) + 1
  /\ 1 \in B /\ Len(s) + 1 \in B
  /\ \A b \in B : b <= Len(s) => \E n \in 1..4 : CharAt(s, b, n) /\ b + n \in B

IsUtf8(s) == s \in Strings /\ \E B \in SUBSET (1..Len(s) + 1) : Begins(s, B)

-----------------------------------------------------------------------------
\* What the ranges are.
LEMMA TrailingForm ==
  ASSUME NEW c \in Int
  PROVE  /\ Trailing(c) \in 0..3
         /\ Trailing(c) = 1 <=> c \in 194..223
         /\ Trailing(c) = 2 <=> c \in 224..239
         /\ Trailing(c) = 3 <=> c \in 240..244
BY SMT DEF Trailing

\* A continuation byte is in 128..191, and after four leading bytes in a part of it.
LEMMA ContinuationForm ==
  ASSUME NEW c \in Int, NEW k \in Nat
  PROVE  /\ Continuation(c, k) \subseteq 128..191
         /\ k # 1 => Continuation(c, k) = 128..191
         /\ c = 224 => Continuation(c, 1) = 160..191
         /\ c = 237 => Continuation(c, 1) = 128..159
         /\ c = 240 => Continuation(c, 1) = 144..191
         /\ c = 244 => Continuation(c, 1) = 128..143
         /\ c \notin {224, 237, 240, 244} => Continuation(c, 1) = 128..191
<1>1. /\ k # 1 => Continuation(c, k) = 128..191
      /\ c = 224 => Continuation(c, 1) = 160..191
      /\ c = 237 => Continuation(c, 1) = 128..159
      /\ c = 240 => Continuation(c, 1) = 144..191
      /\ c = 244 => Continuation(c, 1) = 128..143
      /\ c \notin {224, 237, 240, 244} => Continuation(c, 1) = 128..191
  BY SMT DEF Continuation
<1>2. Continuation(c, k) \subseteq 128..191
  <2>1. CASE k # 1
    BY <1>1, <2>1, SMT
  <2>2. CASE k = 1
    <3>1. /\ 160..191 \subseteq 128..191 /\ 128..159 \subseteq 128..191
          /\ 144..191 \subseteq 128..191 /\ 128..143 \subseteq 128..191
      BY SMT
    <3>2. QED
      BY <1>1, <2>2, <3>1, SMT
  <2>3. QED
    BY <2>1, <2>2
<1>3. QED
  BY <1>1, <1>2

-----------------------------------------------------------------------------
\* The code points up to U+10FFFF but for the surrogates.
IsScalar(cp) ==
  /\ cp \in Nat
  /\ cp \div 1024 < 1088
  /\ ~HighSurrogate(cp) /\ ~LowSurrogate(cp)

\* The bytes written for a code point are those of a character.
LEMMA Utf8Form ==
  ASSUME NEW cp \in Nat, IsScalar(cp)
  PROVE  Utf8(cp) \in Strings /\ CharAt(Utf8(cp), 1, Len(Utf8(cp)))
<1> DEFINE x == cp \div 1024
           a == cp \div 64
           b == a \div 64
           d == b \div 64
<1>1. \A n \in Nat : n \div 64 \in Nat /\ n % 64 \in 0..63 /\ n = 64 * (n \div 64) + (n % 64)
  BY SMT
<1>2. /\ a \in Nat /\ b \in Nat /\ d \in Nat
      /\ cp % 64 \in 0..63 /\ a % 64 \in 0..63 /\ b % 64 \in 0..63
      /\ cp = 64 * a + (cp % 64) /\ a = 64 * b + (a % 64) /\ b = 64 * d + (b % 64)
  BY <1>1
<1>3. x \in Nat /\ 1024 * x <= cp /\ cp < 1024 * x + 1024
  BY SMT
<1>4. x < 1088 /\ x # 54 /\ x # 55
  BY DEF IsScalar, HighSurrogate, LowSurrogate
<1>5. /\ Cont(cp) = 128 + (cp % 64) /\ Cont(a) = 128 + (a % 64)
      /\ Cont(b) = 128 + (b % 64)
  BY DEF Cont
<1>6. Utf8(cp) = CASE a < 2 -> <<cp>>
                   [] a \in 2..31 -> <<192 + a, Cont(cp)>>
                   [] a > 31 /\ b < 16 -> <<224 + b, Cont(a), Cont(cp)>>
                   [] OTHER -> <<240 + d, Cont(b), Cont(a), Cont(cp)>>
  BY DEF Utf8
<1> HIDE DEF a, b, d, x
<1>7. 16 * x <= a /\ a < 16 * x + 16
  BY <1>2, <1>3, SMT
<1>8. CASE a < 2
  <2>1. cp \in 0..127
    BY <1>2, <1>8, SMT
  <2>2. Utf8(cp) = <<cp>>
    <3>1. ~(a \in 2..31) /\ ~(a > 31)
      BY <1>2, <1>8, SMT
    <3>2. QED
      BY <1>6, <1>8, <3>1, Zenon
  <2>3. QED
    BY <2>1, <2>2, SMT DEF CharAt, Byte, Strings
<1>9. CASE a \in 2..31
  <2>1. Utf8(cp) = <<192 + a, 128 + (cp % 64)>>
    BY <1>5, <1>6, <1>9, SMT
  <2>2. Trailing(192 + a) = 1 /\ Continuation(192 + a, 1) = 128..191
    BY <1>9, TrailingForm, ContinuationForm, SMT
  <2>3. QED
    BY <1>2, <1>9, <2>1, <2>2, SMT DEF CharAt, Byte, Strings
<1>10. CASE a > 31 /\ b < 16
  <2>1. /\ b \in 0..15
        /\ b = 0 => a % 64 \in 32..63
        /\ b = 13 => a % 64 \in 0..31
    BY <1>2, <1>3, <1>4, <1>7, <1>10, SMT
  <2>2. Utf8(cp) = <<224 + b, 128 + (a % 64), 128 + (cp % 64)>>
    BY <1>2, <1>5, <1>6, <1>10, SMT
  <2>3. /\ Trailing(224 + b) = 2
        /\ 128 + (a % 64) \in Continuation(224 + b, 1)
        /\ 128 + (cp % 64) \in Continuation(224 + b, 2)
    BY <1>2, <2>1, TrailingForm, ContinuationForm, SMTT(30)
  <2>4. QED
    BY <1>2, <2>1, <2>2, <2>3, SMT DEF CharAt, Byte, Strings
<1>11. CASE b >= 16
  <2>1. /\ d \in 0..4
        /\ d = 0 => b % 64 \in 16..63
        /\ d = 4 => b % 64 \in 0..15
    BY <1>2, <1>3, <1>4, <1>7, <1>11, SMT
  <2>2. Utf8(cp) = <<240 + d, 128 + (b % 64), 128 + (a % 64), 128 + (cp % 64)>>
    <3>1. ~(a < 2) /\ ~(a \in 2..31) /\ ~(b < 16)
      BY <1>2, <1>11, SMT
    <3>2. Utf8(cp) = <<240 + d, Cont(b), Cont(a), Cont(cp)>>
      BY <1>6, <3>1, Zenon
    <3>3. QED
      BY <1>5, <3>2, Zenon
  <2>3. Trailing(240 + d) = 3
    BY <2>1, TrailingForm, SMT
  <2>4. 128 + (b % 64) \in Continuation(240 + d, 1)
    <3>1. CASE d = 0
      BY <1>2, <2>1, <3>1, ContinuationForm, SMT
    <3>2. CASE d = 4
      BY <1>2, <2>1, <3>2, ContinuationForm, SMT
    <3>3. CASE d \in 1..3
      BY <1>2, <2>1, <3>3, ContinuationForm, SMT
    <3>4. QED
      BY <2>1, <3>1, <3>2, <3>3, SMT
  <2>5. /\ Continuation(240 + d, 2) = 128..191
        /\ Continuation(240 + d, 3) = 128..191
    BY <2>1, ContinuationForm, SMT
  <2>6. QED
    BY <1>2, <2>1, <2>2, <2>3, <2>4, <2>5, SMT DEF CharAt, Byte, Strings
<1>12. QED
  BY <1>2, <1>8, <1>9, <1>10, <1>11, SMT

-----------------------------------------------------------------------------
\* What scan_string adds for an escape, and in one turn of its loop.
LEMMA AtForm ==
  ASSUME NEW bytes \in Strings, NEW i \in Nat \ {0}
  PROVE  /\ At(bytes, i) \in Int
         /\ At(bytes, i) # Eof => i \in 1..Len(bytes) /\ At(bytes, i) = bytes[i]
         /\ i <= Len(bytes) => At(bytes, i) = bytes[i] /\ bytes[i] \in Byte
<1>1. CASE i <= Len(bytes)
  <2>1. At(bytes, i) = bytes[i]
    BY <1>1 DEF At
  <2>2. i \in 1..Len(bytes) /\ bytes[i] \in Byte
    BY <1>1, SMT DEF Strings
  <2>3. bytes[i] \in Int
    BY <2>2, BytesAreIntegers
  <2>4. QED
    BY <2>1, <2>2, <2>3
<1>2. CASE ~(i <= Len(bytes))
  BY <1>2, SMT DEF At, Eof
<1>3. QED
  BY <1>1, <1>2

\* A hexadecimal digit has a value below sixteen; anything else has -1.
LEMMA HexDigitForm ==
  ASSUME NEW c \in Int
  PROVE  HexDigit(c) = -1 \/ HexDigit(c) \in 0..15
BY SMT DEF HexDigit, Digits

\* Four hexadecimal digits make a number of sixteen bits.
LEMMA FourDigits ==
  ASSUME NEW w \in 0..15, NEW x \in 0..15, NEW y \in 0..15, NEW z \in 0..15
  PROVE  /\ 16 * (16 * (16 * w + x) + y) + z \in Nat
         /\ 16 * (16 * (16 * w + x) + y) + z < 1024 * 64
<1> DEFINE q == 16 * w + x
<1>1. q \in 0..255
  BY SMT
<1> HIDE DEF q
<1>2. 16 * (16 * q + y) + z \in Nat /\ 16 * (16 * q + y) + z < 1024 * 64
  BY <1>1, SMT
<1>3. QED
  BY <1>2 DEF q

\* get_codepoint returns -1 or a number of sixteen bits.
LEMMA GetCodepointForm ==
  ASSUME NEW bytes \in Strings, NEW i \in Nat \ {0}
  PROVE  LET cp == GetCodepoint(bytes, i)
         IN cp # -1 => cp \in Nat /\ cp \div 1024 < 64
<1> DEFINE d == [k \in 0..3 |-> HexDigit(At(bytes, i + k))]
           value == 16 * (16 * (16 * d[0] + d[1]) + d[2]) + d[3]
<1>1. GetCodepoint(bytes, i) = IF \E k \in 0..3 : d[k] = -1 THEN -1 ELSE value
  BY DEF GetCodepoint
<1>2. \A k \in 0..3 : d[k] = -1 \/ d[k] \in 0..15
  <2>1. ASSUME NEW k \in 0..3
        PROVE  d[k] = -1 \/ d[k] \in 0..15
    <3>1. i + k \in Nat \ {0}
      BY SMT
    <3>2. At(bytes, i + k) \in Int
      BY <3>1, AtForm
    <3>3. QED
      BY <3>2, HexDigitForm
  <2>2. QED
    BY <2>1
<1> HIDE DEF d
<1>3. ASSUME ~\E k \in 0..3 : d[k] = -1
      PROVE  value \in Nat /\ value \div 1024 < 64
  <2>1. d[0] \in 0..15 /\ d[1] \in 0..15 /\ d[2] \in 0..15 /\ d[3] \in 0..15
    BY <1>2, <1>3, SMT
  <2>2. value \in Nat /\ value < 1024 * 64
    <3> DEFINE V(w, x, y, z) == 16 * (16 * (16 * w + x) + y) + z
               Fits(v) == v \in Nat /\ v < 1024 * 64
    <3>1. \A w, x, y, z \in 0..15 : Fits(V(w, x, y, z))
      BY FourDigits
    <3>2. value = V(d[0], d[1], d[2], d[3])
      OBVIOUS
    <3> HIDE DEF V, value, Fits
    <3>3. Fits(value)
      BY <2>1, <3>1, <3>2, Zenon
    <3>4. QED
      BY <3>3 DEF Fits
  <2> HIDE DEF value
  <2>3. value \div 1024 < 64
    BY <2>2, SMT
  <2>4. QED
    BY <2>2, <2>3
<1>4. QED
  BY <1>1, <1>3

\* The escapes of two characters stand for one ASCII character each.
LEMMA SimpleForm ==
  /\ DOMAIN Simple = {34, 92, 47, 98, 102, 110, 114, 116}
  /\ \A c \in DOMAIN Simple :
       <<Simple[c]>> \in Strings /\ CharAt(<<Simple[c]>>, 1, Len(<<Simple[c]>>))
  /\ Simple[34] = 34 /\ Simple[92] = 92
  /\ Simple[98] = 8 /\ Simple[116] = 9 /\ Simple[110] = 10
  /\ Simple[102] = 12 /\ Simple[114] = 13
<1>1. /\ DOMAIN Simple = {34, 92, 47, 98, 102, 110, 114, 116}
      /\ \A c \in DOMAIN Simple : Simple[c] \in 0..127
      /\ Simple[34] = 34 /\ Simple[92] = 92
      /\ Simple[98] = 8 /\ Simple[116] = 9 /\ Simple[110] = 10
      /\ Simple[102] = 12 /\ Simple[114] = 13
  BY SMT DEF Simple
<1>2. \A x \in 0..127 : <<x>> \in Strings /\ CharAt(<<x>>, 1, Len(<<x>>))
  BY SMT DEF CharAt, Byte, Strings
<1>3. QED
  BY <1>1, <1>2

\* A surrogate pair is put together to a code point above 65535 that UTF-8 has.
LEMMA SupplementaryForm ==
  ASSUME NEW high \in Nat, NEW low \in Nat
  PROVE  IsScalar(Supplementary(high, low))
<1>1. high % 1024 \in 0..1023 /\ low % 1024 \in 0..1023
  BY SMT
<1>2. /\ Supplementary(high, low) \in Nat
      /\ Supplementary(high, low) \div 1024 = 64 + (high % 1024)
  BY <1>1, SMT DEF Supplementary
<1>3. QED
  BY <1>1, <1>2, SMT DEF IsScalar, HighSurrogate, LowSurrogate

\* What an escape stands for is empty or one whole character.
LEMMA EscapeForm ==
  ASSUME NEW bytes \in Strings, NEW i \in Nat \ {0}
  PROVE  LET e == Escape(bytes, i)
         IN /\ e.length \in Nat
            /\ e.length = 0 => e.value = <<>>
            /\ e.length > 0 => /\ e.value \in Strings
                               /\ CharAt(e.value, 1, Len(e.value))
<1> DEFINE c == At(bytes, i)
           high == GetCodepoint(bytes, i + 1)
           low == IF At(bytes, i + 5) = Backslash /\ At(bytes, i + 6) = 117
                    THEN GetCodepoint(bytes, i + 7) ELSE -1
           Is(value, length) == [value |-> value, length |-> length]
           isPair == HighSurrogate(high) /\ LowSurrogate(low)
           isSingle == high # -1 /\ ~HighSurrogate(high) /\ ~LowSurrogate(high)
<1>1. Escape(bytes, i) =
        CASE c \in DOMAIN Simple -> Is(<<Simple[c]>>, 1)
          [] c = 117 /\ isPair -> Is(Utf8(Supplementary(high, low)), 11)
          [] c = 117 /\ isSingle -> Is(Utf8(high), 5)
          [] OTHER -> Is(<<>>, 0)
  BY DEF Escape
<1>2. high # -1 => high \in Nat /\ high \div 1024 < 64
  <2>1. i + 1 \in Nat \ {0}
    BY SMT
  <2>2. QED
    BY <2>1, GetCodepointForm
<1>3. low # -1 => low \in Nat
  <2>1. i + 7 \in Nat \ {0}
    BY SMT
  <2>2. QED
    BY <2>1, GetCodepointForm
<1> HIDE DEF high, low
<1>4. isPair => high # -1 /\ low # -1
  <2>1. (-1) \div 1024 # 54 /\ (-1) \div 1024 # 55
    BY SMT
  <2>2. QED
    BY <2>1 DEF HighSurrogate, LowSurrogate
<1>5. isPair => IsScalar(Supplementary(high, low)) /\ Supplementary(high, low) \in Nat
  <2>1. isPair => IsScalar(Supplementary(high, low))
    BY <1>2, <1>3, <1>4, SupplementaryForm
  <2>2. QED
    BY <2>1 DEF IsScalar
<1>6. isSingle => IsScalar(high)
  BY <1>2, SMT DEF IsScalar
<1> DEFINE e == Escape(bytes, i)
<1> HIDE DEF c, isPair, isSingle
<1>7. CASE c \in DOMAIN Simple
  <2>1. c # 117
    BY <1>7, SimpleForm, SMT
  <2>2. e = Is(<<Simple[c]>>, 1)
    BY <1>1, <1>7, <2>1, Zenon
  <2>3. QED
    <3>1. e.length = 1 /\ e.value = <<Simple[c]>>
      BY <2>2, SMT
    <3>2. <<Simple[c]>> \in Strings /\ CharAt(<<Simple[c]>>, 1, Len(<<Simple[c]>>))
      BY <1>7, SimpleForm
    <3> HIDE DEF e
    <3>3. e.value \in Strings /\ CharAt(e.value, 1, Len(e.value))
      BY <3>1, <3>2, Zenon
    <3>4. QED
      BY <3>1, <3>3, SMT DEF e
<1>8. CASE c = 117 /\ isPair
  <2>1. c \notin DOMAIN Simple /\ ~isSingle
    BY <1>8, SimpleForm, SMT DEF isPair, isSingle
  <2>2. e = Is(Utf8(Supplementary(high, low)), 11)
    BY <1>1, <1>8, <2>1, Zenon
  <2>3. QED
    BY <1>5, <1>8, <2>2, Utf8Form, SMT
<1>9. CASE c = 117 /\ isSingle
  <2>1. c \notin DOMAIN Simple /\ ~isPair
    BY <1>9, SimpleForm, SMT DEF isPair, isSingle
  <2>2. e = Is(Utf8(high), 5)
    BY <1>1, <1>9, <2>1, Zenon
  <2>3. QED
    BY <1>6, <1>9, <2>2, Utf8Form, SMT DEF IsScalar
<1>10. CASE c \notin DOMAIN Simple /\ ~(c = 117 /\ isPair) /\ ~(c = 117 /\ isSingle)
  <2>1. e = Is(<<>>, 0)
    BY <1>1, <1>10, Zenon
  <2>2. QED
    BY <2>1, SMT
<1>11. QED
  BY <1>7, <1>8, <1>9, <1>10

\* The fields of the three kinds of turn of scan_string.
LEMMA CharFields ==
  /\ LET end == [Char(<<>>, 1) EXCEPT !.ends = "value_string"]
     IN end.ends = "value_string" /\ end.value = <<>> /\ end.length = 1
  /\ \A value, length : /\ Char(value, length).ends = ""
                        /\ Char(value, length).value = value
                        /\ Char(value, length).length = length
  /\ \A at : /\ CharError(at).ends = "parse_error"
             /\ CharError(at).value = <<>>
             /\ CharError(at).length = 0
BY SMT DEF Char, CharError

\* scan_string's switch: what a turn does with each kind of byte, case by case.
LEMMA ScanCharCases ==
  ASSUME NEW bytes \in Strings, NEW i \in Nat \ {0}
  PROVE  LET c == At(bytes, i)
             escape == Escape(bytes, i + 1)
             bad == OutOfRange(bytes, i)
             char == ScanChar(bytes, i)
             Is(value, length) ==
               char.ends = "" /\ char.value = value /\ char.length = length
         IN /\ c = Quote => char.ends = "value_string" /\ char.value = <<>> /\ char.length = 1
            /\ c = Backslash /\ escape.length > 0 => Is(escape.value, 1 + escape.length)
            /\ c \in 32..127 \ {Quote, Backslash} => Is(<<c>>, 1)
            /\ Trailing(c) > 0 /\ bad = {} =>
                 Is(SubSeq(bytes, i, i + Trailing(c)), 1 + Trailing(c))
            /\ \/ c = Quote
               \/ c = Backslash /\ escape.length > 0
               \/ c \in 32..127 \ {Quote, Backslash}
               \/ Trailing(c) > 0 /\ bad = {}
               \/ char.ends = "parse_error" /\ char.value = <<>> /\ char.length = 0
<1> DEFINE c == At(bytes, i)
           escape == Escape(bytes, i + 1)
           bad == OutOfRange(bytes, i)
           char == ScanChar(bytes, i)
           G1 == c = Quote
           G2 == c = Backslash /\ escape.length > 0
           G3 == c = Backslash /\ escape.length = 0
           G4 == c \in 32..127 \ {Quote, Backslash}
           G5 == Trailing(c) > 0 /\ bad = {}
           G6 == Trailing(c) > 0 /\ bad # {}
           V1 == [Char(<<>>, 1) EXCEPT !.ends = "value_string"]
           V2 == Char(escape.value, 1 + escape.length)
           V3 == CharError(IF i + 12 <= Len(bytes) THEN i ELSE Len(bytes) + 1)
           V4 == Char(<<c>>, 1)
           V5 == Char(SubSeq(bytes, i, i + Trailing(c)), 1 + Trailing(c))
           V6 == CharError(i + Min(bad))
           V7 == CharError(i)
<1>1. char = CASE G1 -> V1 [] G2 -> V2 [] G3 -> V3 [] G4 -> V4 [] G5 -> V5 [] G6 -> V6
               [] OTHER -> V7
  BY DEF ScanChar
<1>2. c \in Int /\ Trailing(c) \in 0..3 /\ (Trailing(c) > 0 => c > 127)
  BY AtForm, TrailingForm, SMT
<1>3. escape.length \in Nat
  <2>1. i + 1 \in Nat \ {0}
    BY SMT
  <2>2. QED
    BY <2>1, EscapeForm
<1> HIDE DEF c, escape, bad, char
<1>4. /\ G1 => ~G2 /\ ~G3 /\ ~G4 /\ ~G5 /\ ~G6
      /\ G2 => ~G3 /\ ~G4 /\ ~G5 /\ ~G6
      /\ G3 => ~G4 /\ ~G5 /\ ~G6
      /\ G4 => ~G5 /\ ~G6
  BY <1>2, <1>3, SMT DEF Quote, Backslash
<1>5. G5 => ~G6
  OBVIOUS
<1>6. /\ V1.ends = "value_string" /\ V1.value = <<>> /\ V1.length = 1
      /\ V2.ends = "" /\ V2.value = escape.value /\ V2.length = 1 + escape.length
      /\ V3.ends = "parse_error" /\ V3.value = <<>> /\ V3.length = 0
      /\ V4.ends = "" /\ V4.value = <<c>> /\ V4.length = 1
      /\ V5.ends = "" /\ V5.value = SubSeq(bytes, i, i + Trailing(c))
      /\ V5.length = 1 + Trailing(c)
      /\ V6.ends = "parse_error" /\ V6.value = <<>> /\ V6.length = 0
      /\ V7.ends = "parse_error" /\ V7.value = <<>> /\ V7.length = 0
  <2>1. V1.ends = "value_string" /\ V1.value = <<>> /\ V1.length = 1
    BY CharFields
  <2>2. V2.ends = "" /\ V2.value = escape.value /\ V2.length = 1 + escape.length
    BY DEF Char
  <2>3. V4.ends = "" /\ V4.value = <<c>> /\ V4.length = 1
    BY DEF Char
  <2>4. /\ V5.ends = "" /\ V5.value = SubSeq(bytes, i, i + Trailing(c))
        /\ V5.length = 1 + Trailing(c)
    BY DEF Char
  <2>5. /\ V3.ends = "parse_error" /\ V3.value = <<>> /\ V3.length = 0
        /\ V6.ends = "parse_error" /\ V6.value = <<>> /\ V6.length = 0
        /\ V7.ends = "parse_error" /\ V7.value = <<>> /\ V7.length = 0
    BY CharFields, Zenon
  <2>6. QED
    BY <2>1, <2>2, <2>5, <2>3, <2>4, Zenon
<1> HIDE DEF G1, G2, G3, G4, G5, G6, V1, V2, V3, V4, V5, V6, V7
<1>7. /\ G1 => char = V1
      /\ G2 => char = V2
      /\ G4 => char = V4
      /\ G5 => char = V5
  BY <1>1, <1>4, <1>5, Zenon
<1>8. ~G1 /\ ~G2 /\ ~G4 /\ ~G5 => char \in {V3, V6, V7}
  BY <1>1, <1>4, <1>5, Zenon
<1>9. /\ G1 => char.ends = "value_string" /\ char.value = <<>> /\ char.length = 1
      /\ G2 => char.ends = "" /\ char.value = escape.value
                 /\ char.length = 1 + escape.length
      /\ G4 => char.ends = "" /\ char.value = <<c>> /\ char.length = 1
      /\ G5 => char.ends = "" /\ char.value = SubSeq(bytes, i, i + Trailing(c))
                 /\ char.length = 1 + Trailing(c)
  BY <1>6, <1>7, Zenon
<1>10. ~G1 /\ ~G2 /\ ~G4 /\ ~G5 =>
         char.ends = "parse_error" /\ char.value = <<>> /\ char.length = 0
  BY <1>6, <1>8, Zenon
<1>11. QED
  BY <1>9, <1>10, Zenon DEF G1, G2, G4, G5, c, escape, bad, char

\* The bytes of a character in s are the character by themselves.
LEMMA CharAlone ==
  ASSUME NEW s \in Strings, NEW b \in Nat, NEW n \in Nat, CharAt(s, b, n)
  PROVE  /\ SubSeq(s, b, b + n - 1) \in Strings /\ Len(SubSeq(s, b, b + n - 1)) = n
         /\ CharAt(SubSeq(s, b, b + n - 1), 1, n)
<1> DEFINE v == SubSeq(s, b, b + n - 1)
<1>1. n \in 1..4 /\ b \in 1..Len(s) /\ b + n - 1 \in 1..Len(s) /\ b <= b + n - 1
  BY SMT DEF CharAt
<1>2. /\ v \in Strings /\ Len(v) = n
      /\ \A k \in 1..n : v[k] = s[b + k - 1]
  BY <1>1, SMT DEF Strings
<1> HIDE DEF v
<1>3. v[1] = s[b] /\ \A k \in 1..n - 1 : v[1 + k] = s[b + k]
  BY <1>1, <1>2, SMT
<1>4. CharAt(v, 1, n)
  BY <1>1, <1>2, <1>3, SMT DEF CharAt
<1>5. QED
  BY <1>2, <1>4 DEF v

\* What the loop makes of a turn: another character, or an end.
IsTurn(char) ==
  /\ char.ends \in ScanTokens
  /\ char.length \in Nat
  /\ char.ends = "" => /\ char.value \in Strings
                       /\ CharAt(char.value, 1, Len(char.value))
  /\ char.ends # "" => char.value = <<>>

\* What it takes to be a turn of scan_string.
LEMMA TurnForm ==
  /\ \A char : /\ char.ends = "" /\ char.length \in Nat /\ char.value \in Strings
               /\ CharAt(char.value, 1, Len(char.value))
               => IsTurn(char)
  /\ \A char : /\ char.ends \in {"value_string", "parse_error"}
               /\ char.length \in Nat /\ char.value = <<>>
               => IsTurn(char)
BY DEF IsTurn, ScanTokens

\* A turn appends a whole character, or ends the string and appends nothing.
LEMMA ScanCharForm ==
  ASSUME NEW bytes \in Strings, NEW i \in Nat \ {0}
  PROVE  IsTurn(ScanChar(bytes, i))
<1> DEFINE c == At(bytes, i)
           escape == Escape(bytes, i + 1)
           bad == OutOfRange(bytes, i)
           char == ScanChar(bytes, i)
<1>1. /\ c \in Int /\ Trailing(c) \in 0..3
      /\ c # Eof => i \in 1..Len(bytes) /\ c = bytes[i]
      /\ Trailing(c) > 0 => c # Eof
  <2>1. /\ c \in Int
        /\ c # Eof => i \in 1..Len(bytes) /\ c = bytes[i]
    BY AtForm
  <2>2. Trailing(c) \in 0..3
    BY <2>1, TrailingForm
  <2> HIDE DEF c
  <2>3. Trailing(c) > 0 => c # Eof
    BY <2>1, <2>2, TrailingForm, SMT DEF Eof
  <2>4. QED
    BY <2>1, <2>2, <2>3
<1>2. /\ c = Quote => char.ends = "value_string" /\ char.value = <<>> /\ char.length = 1
      /\ c = Backslash /\ escape.length > 0 =>
           char.ends = "" /\ char.value = escape.value /\ char.length = 1 + escape.length
      /\ c \in 32..127 \ {Quote, Backslash} =>
           char.ends = "" /\ char.value = <<c>> /\ char.length = 1
      /\ Trailing(c) > 0 /\ bad = {} =>
           /\ char.ends = "" /\ char.value = SubSeq(bytes, i, i + Trailing(c))
           /\ char.length = 1 + Trailing(c)
      /\ \/ c = Quote
         \/ c = Backslash /\ escape.length > 0
         \/ c \in 32..127 \ {Quote, Backslash}
         \/ Trailing(c) > 0 /\ bad = {}
         \/ char.ends = "parse_error" /\ char.value = <<>> /\ char.length = 0
  BY ScanCharCases
<1>3. /\ escape.length \in Nat
      /\ escape.length > 0 => /\ escape.value \in Strings
                             /\ CharAt(escape.value, 1, Len(escape.value))
  <2>1. i + 1 \in Nat \ {0}
    BY SMT
  <2>2. QED
    BY <2>1, EscapeForm
<1>4. bad = {} => \A k \in 1..Trailing(c) : At(bytes, i + k) \in Continuation(c, k)
  BY DEF OutOfRange
<1> HIDE DEF c, escape, bad, char
<1> SUFFICES IsTurn(char)
  BY DEF char
<1>5. CASE c = Quote
  <2>1. char.ends = "value_string" /\ char.value = <<>> /\ char.length = 1
    BY <1>5, <1>2
  <2>2. char.length \in Nat
    BY <2>1
  <2>3. QED
    BY <2>1, <2>2, TurnForm, Zenon
<1>6. CASE c = Backslash /\ escape.length > 0
  <2>1. char.ends = "" /\ char.value = escape.value /\ char.length = 1 + escape.length
    BY <1>6, <1>2
  <2>2. char.length \in Nat
    <3>1. 1 + escape.length \in Nat
      BY <1>3, SMT
    <3>2. QED
      BY <2>1, <3>1, Zenon
  <2>3. QED
    BY <1>6, <1>3, <2>1, <2>2, TurnForm, Zenon
<1>7. CASE c \in 32..127 \ {Quote, Backslash}
  <2>1. char.ends = "" /\ char.value = <<c>> /\ char.length = 1
    BY <1>7, <1>2
  <2>2. <<c>> \in Strings /\ CharAt(<<c>>, 1, Len(<<c>>))
    BY <1>7, SMT DEF CharAt, Byte, Strings
  <2>3. char.length \in Nat
    <3>1. 1 \in Nat
      BY SMT
    <3>2. QED
      BY <2>1, <3>1, Zenon
  <2>4. QED
    BY <2>1, <2>2, <2>3, TurnForm, Zenon
<1>8. CASE Trailing(c) > 0 /\ bad = {}
  <2> DEFINE n == 1 + Trailing(c)
  <2>1. char.ends = "" /\ char.value = SubSeq(bytes, i, i + n - 1) /\ char.length = n
    <3>1. i + n - 1 = i + Trailing(c)
      BY <1>1, SMT
    <3>2. QED
      BY <1>8, <3>1, <1>2
  <2>2. i \in 1..Len(bytes) /\ bytes[i] = c
    BY <1>1, <1>8
  <2>3. \A k \in 1..Trailing(c) : At(bytes, i + k) \in Continuation(c, k)
    BY <1>8, <1>4
  <2>4. ASSUME NEW k \in 1..Trailing(c)
        PROVE  /\ i + k \in 1..Len(bytes)
               /\ bytes[i + k] \in Continuation(bytes[i], k)
    <3>1. i + k \in Nat \ {0} /\ k \in Nat
      BY <1>1, SMT
    <3>2. At(bytes, i + k) \in 128..191
      <4>1. Continuation(c, k) \subseteq 128..191
        BY <1>1, <3>1, ContinuationForm
      <4>2. QED
        BY <2>3, <4>1
    <3>3. At(bytes, i + k) # Eof
      BY <3>2, SMT DEF Eof
    <3>4. QED
      BY <2>2, <2>3, <3>1, <3>3, AtForm
  <2>5. n \in 2..4 /\ i + n - 1 <= Len(bytes)
    <3>1. Trailing(c) \in 1..3
      BY <1>1, <1>8, SMT
    <3>2. i + Trailing(c) \in 1..Len(bytes)
      BY <2>4, <3>1, SMT
    <3>3. QED
      BY <3>1, <3>2, SMT
  <2>6. CharAt(bytes, i, n)
    <3>1. \A k \in 1..n - 1 : bytes[i + k] \in Continuation(bytes[i], k)
      BY <1>1, <2>4, SMT
    <3>2. Trailing(bytes[i]) = n - 1
      BY <1>1, <2>2, SMT
    <3>3. n \in 1..4 /\ n # 1
      BY <2>5, SMT
    <3> HIDE DEF n
    <3>4. QED
      BY <2>2, <2>5, <3>1, <3>2, <3>3, Zenon DEF CharAt
  <2>7. char.value \in Strings /\ Len(char.value) = n /\ CharAt(char.value, 1, n)
    <3>1. i \in Nat /\ n \in Nat
      BY <2>5, SMT
    <3> HIDE DEF n
    <3>2. QED
      <4> DEFINE v == SubSeq(bytes, i, i + n - 1)
      <4>1. v \in Strings /\ Len(v) = n /\ CharAt(v, 1, n)
        BY <2>6, <3>1, CharAlone
      <4> HIDE DEF v
      <4>2. char.value = v
        BY <2>1 DEF v
      <4>3. QED
        BY <4>1, <4>2, Zenon
  <2>8. char.length \in Nat
    <3>1. n \in Nat
      BY <2>5, SMT
    <3> HIDE DEF n
    <3>2. QED
      BY <2>1, <3>1, Zenon
  <2> HIDE DEF n
  <2>9. QED
    BY <2>1, <2>7, <2>8, TurnForm, Zenon
<1>9. CASE char.ends = "parse_error" /\ char.value = <<>> /\ char.length = 0
  <2>1. char.length \in Nat
    BY <1>9
  <2>2. QED
    BY <1>9, <2>1, TurnForm, Zenon
<1>10. QED
  BY <1>5, <1>6, <1>7, <1>8, <1>9, <1>2

-----------------------------------------------------------------------------
\* Sequences of characters.
LEMMA CharMoved ==
  ASSUME NEW s \in Strings, NEW t \in Strings, NEW b \in Nat, NEW d \in Nat, NEW n \in Nat,
         CharAt(s, b, n),
         d \in 1..Len(t), d + n - 1 <= Len(t),
         \A k \in 0..n - 1 : t[d + k] = s[b + k]
  PROVE  CharAt(t, d, n)
<1>1. n \in 1..4 /\ b \in 1..Len(s)
  BY DEF CharAt
<1>2. t[d] = s[b]
  <2>1. 0 \in 0..n - 1 /\ d + 0 = d /\ b + 0 = b
    BY <1>1, SMT
  <2>2. QED
    BY <2>1
<1>3. \A k \in 1..n - 1 : t[d + k] = s[b + k]
  BY <1>1, SMT
<1>4. QED
  BY <1>1, <1>2, <1>3, Zenon DEF CharAt

\* A text of whole characters remains one when a character is appended.
LEMMA AppendCharacter ==
  ASSUME NEW s \in Strings, IsUtf8(s),
         NEW v \in Strings, CharAt(v, 1, Len(v))
  PROVE  IsUtf8(s \o v)
<1> DEFINE t == s \o v
           m == Len(s)
           n == Len(v)
<1>1. PICK B \in SUBSET (1..m + 1) : Begins(s, B)
  BY DEF IsUtf8
<1>2. /\ t \in Strings /\ m \in Nat /\ n \in Nat /\ Len(t) = m + n
      /\ \A k \in 1..m : t[k] = s[k]
      /\ \A k \in 1..n : t[m + k] = v[k]
  BY SMT DEF Strings
<1>3. n \in 1..4
  BY DEF CharAt
<1> DEFINE C == B \cup {m + n + 1}
<1> HIDE DEF t, m, n
<1>4. C \in SUBSET (1..Len(t) + 1) /\ 1 \in C /\ Len(t) + 1 \in C
  <2>1. B \subseteq 1..m + 1 /\ 1 \in B
    BY <1>1 DEF Begins, m
  <2>2. 1..m + 1 \subseteq 1..Len(t) + 1 /\ m + n + 1 \in 1..Len(t) + 1
        /\ Len(t) + 1 = m + n + 1
    BY <1>2, <1>3, SMT
  <2>3. QED
    BY <2>1, <2>2
<1>5. ASSUME NEW b \in C, b <= Len(t)
      PROVE  \E k \in 1..4 : CharAt(t, b, k) /\ b + k \in C
  <2>1. b \in B /\ b \in 1..m + 1
    BY <1>2, <1>4, <1>5, <1>1, SMT
  <2>2. CASE b <= m
    <3>1. PICK k \in 1..4 : CharAt(s, b, k) /\ b + k \in B
      BY <1>1, <2>1, <2>2 DEF Begins, m
    <3>2. b \in 1..m /\ b + k - 1 <= m
      BY <3>1 DEF CharAt, m
    <3>3. \A j \in 0..k - 1 : t[b + j] = s[b + j]
      BY <1>2, <3>1, <3>2, SMT
    <3>4. b \in Nat /\ k \in Nat /\ b \in 1..Len(t) /\ b + k - 1 <= Len(t)
      BY <1>2, <1>3, <3>1, <3>2, SMT
    <3>5. CharAt(t, b, k)
      BY <1>2, <3>1, <3>3, <3>4, CharMoved
    <3>6. QED
      BY <3>1, <3>5
  <2>3. CASE b = m + 1
    <3>1. \A j \in 0..n - 1 : t[b + j] = v[1 + j]
      BY <1>2, <1>3, <2>3, SMT
    <3>2. 1 \in Nat /\ b \in Nat /\ b \in 1..Len(t) /\ b + n - 1 <= Len(t) /\ b + n = m + n + 1
      BY <1>2, <1>3, <2>3, SMT
    <3>3. CharAt(v, 1, n)
      BY DEF n
    <3>4. CharAt(t, b, n)
      BY <1>2, <3>1, <3>2, <3>3, CharMoved
    <3>5. QED
      BY <1>3, <3>2, <3>4
  <2>4. QED
    BY <1>2, <2>1, <2>2, <2>3, SMT
<1>6. Begins(t, C)
  BY <1>4, <1>5 DEF Begins
<1>7. QED
  BY <1>2, <1>4, <1>6 DEF IsUtf8, t

\* scan_string starts with an empty token_buffer, which has no broken character.
LEMMA EmptyIsUtf8 == IsUtf8(<<>>)
<1>1. <<>> \in Strings /\ Len(<<>>) = 0
  BY SMT DEF Strings
<1>2. {1} \in SUBSET (1..Len(<<>>) + 1) /\ 1 \in {1} /\ Len(<<>>) + 1 \in {1}
      /\ \A b \in {1} : ~(b <= Len(<<>>))
  BY <1>1, SMT
<1>3. Begins(<<>>, {1})
  BY <1>2 DEF Begins
<1>4. QED
  BY <1>1, <1>2, <1>3 DEF IsUtf8

-----------------------------------------------------------------------------
\* The serializer's table takes every character, and nothing is left of it.

\* The state after k bytes of a character whose first is c.
After(c, k) ==
  IF k = 1 /\ c \in {224, 237, 240, 244}
    THEN IF c = 224 THEN "E0" ELSE IF c = 237 THEN "ED" ELSE IF c = 240 THEN "F0" ELSE "F4"
    ELSE IF Trailing(c) = k THEN "1 more"
    ELSE IF Trailing(c) = k + 1 THEN "2 more" ELSE "3 more"

\* What is known of the code point when its last byte is not yet read.
PointOK(state, codepoint) ==
  /\ codepoint \in Nat
  /\ state = "1 more" => codepoint >= 2
  /\ state \in {"2 more", "3 more", "ED", "F4"} => codepoint >= 1

\* decode's types of the bytes that a character may have.
LEMMA ByteTypeForm ==
  ASSUME NEW c \in Byte
  PROVE  /\ c < 128 => ByteType(c) = "ascii"
         /\ c \in 128..143 => ByteType(c) = "80"
         /\ c \in 144..159 => ByteType(c) = "90"
         /\ c \in 160..191 => ByteType(c) = "A0"
         /\ c \in 194..223 => ByteType(c) = "two"
         /\ c = 224 => ByteType(c) = "E0"
         /\ c = 237 => ByteType(c) = "ED"
         /\ c \in 225..239 /\ c # 237 => ByteType(c) = "three"
         /\ c = 240 => ByteType(c) = "F0"
         /\ c = 244 => ByteType(c) = "F4"
         /\ c \in 241..243 => ByteType(c) = "four"
<1>1. c < 128 => ByteType(c) = "ascii"
  BY SMT DEF ByteType, Byte
<1>2. c \in 128..143 => ByteType(c) = "80"
  BY SMT DEF ByteType, Byte
<1>3. c \in 144..159 => ByteType(c) = "90"
  BY SMT DEF ByteType, Byte
<1>4. c \in 160..191 => ByteType(c) = "A0"
  BY SMT DEF ByteType, Byte
<1>5. c \in 194..223 => ByteType(c) = "two"
  BY SMT DEF ByteType, Byte
<1>6. c = 224 => ByteType(c) = "E0"
  BY SMT DEF ByteType, Byte
<1>7. c = 237 => ByteType(c) = "ED"
  BY SMT DEF ByteType, Byte
<1>8. c \in 225..239 /\ c # 237 => ByteType(c) = "three"
  BY SMT DEF ByteType, Byte
<1>9. c = 240 => ByteType(c) = "F0"
  BY SMT DEF ByteType, Byte
<1>10. c = 244 => ByteType(c) = "F4"
  BY SMT DEF ByteType, Byte
<1>11. c \in 241..243 => ByteType(c) = "four"
  BY SMT DEF ByteType, Byte
<1>12. QED
  BY <1>1, <1>2, <1>3, <1>4, <1>5, <1>6, <1>7, <1>8, <1>9, <1>10, <1>11

\* The state decode is in after the first byte of a character.
LEMMA DecodeFirst ==
  ASSUME NEW c \in Byte
  PROVE  /\ c < 128 => Decode("accept", c) = "accept"
         /\ Trailing(c) > 0 => Decode("accept", c) = After(c, 1)
<1>1. c \in Int
  BY BytesAreIntegers
<1>2. CASE c < 128
  <2>1. Decode("accept", c) = "accept"
    BY <1>2, ByteTypeForm DEF Decode
  <2>2. Trailing(c) = 0
    BY <1>1, <1>2, TrailingForm, SMT
  <2>3. QED
    BY <2>1, <2>2, SMT
<1>3. CASE c \in 194..223
  <2>1. ByteType(c) = "two" /\ Trailing(c) = 1 /\ c \notin {224, 237, 240, 244} /\ ~(c < 128)
    BY <1>1, <1>3, ByteTypeForm, TrailingForm, SMT
  <2>2. QED
    BY <2>1 DEF Decode, After
<1>4. CASE c = 224
  <2>1. ByteType(c) = "E0" /\ ~(c < 128)
    BY <1>4, ByteTypeForm, SMT
  <2>2. QED
    BY <1>4, <2>1 DEF Decode, After
<1>5. CASE c = 237
  <2>1. ByteType(c) = "ED" /\ ~(c < 128)
    BY <1>5, ByteTypeForm, SMT
  <2>2. QED
    BY <1>5, <2>1 DEF Decode, After
<1>6. CASE c \in 225..239 /\ c # 237
  <2>1. ByteType(c) = "three" /\ Trailing(c) = 2 /\ c \notin {224, 237, 240, 244} /\ ~(c < 128)
    BY <1>1, <1>6, ByteTypeForm, TrailingForm, SMT
  <2>2. QED
    BY <2>1 DEF Decode, After
<1>7. CASE c = 240
  <2>1. ByteType(c) = "F0" /\ ~(c < 128)
    BY <1>7, ByteTypeForm, SMT
  <2>2. QED
    BY <1>7, <2>1 DEF Decode, After
<1>8. CASE c = 244
  <2>1. ByteType(c) = "F4" /\ ~(c < 128)
    BY <1>8, ByteTypeForm, SMT
  <2>2. QED
    BY <1>8, <2>1 DEF Decode, After
<1>9. CASE c \in 241..243
  <2>1. ByteType(c) = "four" /\ Trailing(c) = 3 /\ c \notin {224, 237, 240, 244} /\ ~(c < 128)
    BY <1>1, <1>9, ByteTypeForm, TrailingForm, SMT
  <2>2. QED
    BY <2>1 DEF Decode, After
<1>10. CASE ~(c < 128) /\ ~(Trailing(c) > 0)
  BY <1>10
<1>11. QED
  <2>1. Trailing(c) > 0 => c \in 194..244
    BY <1>1, TrailingForm, SMT
  <2>2. QED
    BY <1>1, <1>2, <1>3, <1>4, <1>5, <1>6, <1>7, <1>8, <1>9, <1>10, <2>1, SMT

\* The rows of the table for continuation bytes.
LEMMA DecodeTrail ==
  ASSUME NEW x \in Byte
  PROVE  /\ x \in 128..191 => /\ Decode("1 more", x) = "accept"
                              /\ Decode("2 more", x) = "1 more"
                              /\ Decode("3 more", x) = "2 more"
         /\ x \in 160..191 => Decode("E0", x) = "1 more"
         /\ x \in 128..159 => Decode("ED", x) = "1 more"
         /\ x \in 144..191 => Decode("F0", x) = "2 more"
         /\ x \in 128..143 => Decode("F4", x) = "2 more"
<1>1. /\ x \in 128..191 => ByteType(x) \in {"80", "90", "A0"}
      /\ x \in 160..191 => ByteType(x) = "A0"
      /\ x \in 128..159 => ByteType(x) \in {"80", "90"}
      /\ x \in 144..191 => ByteType(x) \in {"90", "A0"}
      /\ x \in 128..143 => ByteType(x) = "80"
  <2>1. /\ x \in 128..191 => x \in 128..143 \/ x \in 144..159 \/ x \in 160..191
        /\ x \in 128..159 => x \in 128..143 \/ x \in 144..159
        /\ x \in 144..191 => x \in 144..159 \/ x \in 160..191
    BY SMT
  <2>2. /\ x \in 128..143 => ByteType(x) = "80"
        /\ x \in 144..159 => ByteType(x) = "90"
        /\ x \in 160..191 => ByteType(x) = "A0"
    BY ByteTypeForm
  <2>3. QED
    BY <2>1, <2>2, Zenon
<1>2. ByteType(x) \in {"80", "90", "A0"} => /\ Decode("1 more", x) = "accept"
                                           /\ Decode("2 more", x) = "1 more"
                                           /\ Decode("3 more", x) = "2 more"
  BY Zenon DEF Decode
<1>3. ByteType(x) = "A0" => Decode("E0", x) = "1 more"
  BY Zenon DEF Decode
<1>4. ByteType(x) \in {"80", "90"} => Decode("ED", x) = "1 more"
  BY Zenon DEF Decode
<1>5. ByteType(x) \in {"90", "A0"} => Decode("F0", x) = "2 more"
  BY Zenon DEF Decode
<1>6. ByteType(x) = "80" => Decode("F4", x) = "2 more"
  BY Zenon DEF Decode
<1>7. QED
  BY <1>1, <1>2, <1>3, <1>4, <1>5, <1>6, ZenonT(60)

\* A byte in its range is in the table's too.
LEMMA DecodeNext ==
  ASSUME NEW c \in Byte, NEW k \in 1..Trailing(c), NEW x \in Byte, x \in Continuation(c, k)
  PROVE  /\ k = Trailing(c) => Decode(After(c, k), x) = "accept"
         /\ k < Trailing(c) => Decode(After(c, k), x) = After(c, k + 1)
<1>1. /\ c \in Int /\ Trailing(c) \in 0..3 /\ k \in 1..3
  <2>1. c \in Int
    BY BytesAreIntegers
  <2>2. Trailing(c) \in 0..3
    BY <2>1, TrailingForm
  <2>3. QED
    BY <2>1, <2>2, SMT
<1>2. x \in 128..191
  <2>1. k \in Nat
    BY <1>1, SMT
  <2>2. Continuation(c, k) \subseteq 128..191
    BY <1>1, <2>1, ContinuationForm
  <2>3. QED
    BY <2>2
<1>3. CASE k = 1 /\ c = 224
  <2>1. Trailing(c) = 2 /\ x \in 160..191 /\ k # Trailing(c)
    BY <1>1, <1>3, TrailingForm, ContinuationForm, SMT
  <2>2. After(c, k) = "E0" /\ After(c, k + 1) = "1 more"
    BY <1>3, <2>1, SMT DEF After
  <2>3. Decode("E0", x) = "1 more"
    BY <2>1, DecodeTrail
  <2>4. QED
    BY <2>1, <2>2, <2>3, Zenon
<1>4. CASE k = 1 /\ c = 237
  <2>1. Trailing(c) = 2 /\ x \in 128..159 /\ k # Trailing(c)
    BY <1>1, <1>4, TrailingForm, ContinuationForm, SMT
  <2>2. After(c, k) = "ED" /\ After(c, k + 1) = "1 more"
    BY <1>4, <2>1, SMT DEF After
  <2>3. Decode("ED", x) = "1 more"
    BY <2>1, DecodeTrail
  <2>4. QED
    BY <2>1, <2>2, <2>3, Zenon
<1>5. CASE k = 1 /\ c = 240
  <2>1. Trailing(c) = 3 /\ x \in 144..191 /\ k # Trailing(c)
    BY <1>1, <1>5, TrailingForm, ContinuationForm, SMT
  <2>2. After(c, k) = "F0" /\ After(c, k + 1) = "2 more"
    BY <1>5, <2>1, SMT DEF After
  <2>3. Decode("F0", x) = "2 more"
    BY <2>1, DecodeTrail
  <2>4. QED
    BY <2>1, <2>2, <2>3, Zenon
<1>6. CASE k = 1 /\ c = 244
  <2>1. Trailing(c) = 3 /\ x \in 128..143 /\ k # Trailing(c)
    BY <1>1, <1>6, TrailingForm, ContinuationForm, SMT
  <2>2. After(c, k) = "F4" /\ After(c, k + 1) = "2 more"
    BY <1>6, <2>1, SMT DEF After
  <2>3. Decode("F4", x) = "2 more"
    BY <2>1, DecodeTrail
  <2>4. QED
    BY <2>1, <2>2, <2>3, Zenon
<1>7. CASE ~(k = 1 /\ c \in {224, 237, 240, 244})
  <2>1. CASE Trailing(c) = k
    <3>1. After(c, k) = "1 more"
      BY <1>7, <2>1 DEF After
    <3>2. ~(k < Trailing(c))
      BY <1>1, <2>1, SMT
    <3>3. Decode("1 more", x) = "accept"
      BY <1>2, DecodeTrail
    <3>4. QED
      BY <3>1, <3>2, <3>3, Zenon
  <2>2. CASE Trailing(c) = k + 1
    <3>1. Decode("2 more", x) = "1 more"
      BY <1>2, DecodeTrail
    <3>2. After(c, k) = "2 more"
      BY <1>1, <1>7, <2>2, SMT DEF After
    <3>3. After(c, k + 1) = "1 more"
      BY <1>1, <2>2, SMT DEF After
    <3>4. k # Trailing(c)
      BY <1>1, <2>2, SMT
    <3>5. QED
      BY <3>2, <3>3, <3>4, <3>1, Zenon
  <2>3. CASE Trailing(c) = k + 2
    <3>1. Decode("3 more", x) = "2 more"
      BY <1>2, DecodeTrail
    <3>2. After(c, k) = "3 more"
      BY <1>1, <1>7, <2>3, SMT DEF After
    <3>3. After(c, k + 1) = "2 more"
      BY <1>1, <2>3, SMT DEF After
    <3>4. k # Trailing(c)
      BY <1>1, <2>3, SMT
    <3>5. QED
      BY <3>2, <3>3, <3>4, <3>1, Zenon
  <2>4. QED
    BY <1>1, <2>1, <2>2, <2>3, SMT
<1>8. QED
  BY <1>3, <1>4, <1>5, <1>6, <1>7, SMT

\* Within a character decode is in none of its two final states.
LEMMA AfterForm ==
  ASSUME NEW c, NEW k
  PROVE  After(c, k) \in DecodeStates \ {"accept", "reject"}
BY DEF After, DecodeStates

\* What it takes for a code point to be large enough.
LEMMA PointForm ==
  ASSUME NEW state, NEW p \in Nat
  PROVE  /\ p >= 2 => PointOK(state, p)
         /\ p >= 1 /\ state # "1 more" => PointOK(state, p)
         /\ state \in {"E0", "F0"} => PointOK(state, p)
<1>1. p >= 2 => p >= 1
  BY SMT
<1>2. QED
  BY <1>1, Zenon DEF PointOK

\* decode's code point after the first byte: an ASCII character is its own.
LEMMA PointFirst ==
  ASSUME NEW c \in Byte, NEW p
  PROVE  /\ c < 128 => DecodePoint("accept", p, c) = c
         /\ Trailing(c) > 0 => PointOK(After(c, 1), DecodePoint("accept", p, c))
<1>1. c \in Int /\ c \in 0..255
  BY BytesAreIntegers DEF Byte
<1>2. DecodePoint("accept", p, c) = LeadingBits(c)
  BY DEF DecodePoint
<1>3. CASE c < 128
  <2>1. LeadingBits(c) = c
    BY <1>3, ByteTypeForm DEF LeadingBits
  <2>2. Trailing(c) = 0
    BY <1>1, <1>3, TrailingForm, SMT
  <2>3. QED
    BY <1>2, <2>1, <2>2, SMT
<1>4. CASE c \in 194..223
  <2>1. ByteType(c) = "two" /\ Trailing(c) = 1 /\ c \notin {224, 237, 240, 244} /\ ~(c < 128)
    BY <1>1, <1>4, ByteTypeForm, TrailingForm, SMT
  <2>2. After(c, 1) = "1 more" /\ LeadingBits(c) = c % 64
    BY <2>1 DEF LeadingBits, After
  <2>3. c % 64 \in 2..31
    BY <1>4, SMT
  <2>4. c % 64 \in Nat /\ c % 64 >= 2
    BY <2>3, SMT
  <2>5. PointOK(After(c, 1), c % 64)
    BY <2>2, <2>4, PointForm
  <2>6. QED
    BY <1>2, <2>1, <2>2, <2>5, ZenonT(60)
<1>5. CASE c = 224
  <2>1. ByteType(c) = "E0" /\ ~(c < 128)
    BY <1>5, ByteTypeForm, SMT
  <2>2. After(c, 1) = "E0" /\ LeadingBits(c) = 0
    BY <1>5, <2>1 DEF LeadingBits, After
  <2>3. PointOK(After(c, 1), 0)
    <3>1. 0 \in Nat
      BY SMT
    <3>2. QED
      BY <2>2, <3>1, PointForm, Zenon
  <2>4. QED
    BY <1>2, <2>1, <2>2, <2>3, Zenon
<1>6. CASE c = 237
  <2>1. ByteType(c) = "ED" /\ ~(c < 128)
    BY <1>6, ByteTypeForm, SMT
  <2>2. After(c, 1) = "ED" /\ LeadingBits(c) = c % 16
    BY <1>6, <2>1 DEF LeadingBits, After
  <2>3. c % 16 = 13
    BY <1>6, SMT
  <2>4. c % 16 \in Nat /\ c % 16 >= 1
    BY <2>3, SMT
  <2>5. PointOK(After(c, 1), c % 16)
    BY <2>2, <2>4, PointForm
  <2>6. QED
    BY <1>2, <2>1, <2>2, <2>5, Zenon
<1>7. CASE c \in 225..239 /\ c # 237
  <2>1. ByteType(c) = "three" /\ Trailing(c) = 2 /\ c \notin {224, 237, 240, 244} /\ ~(c < 128)
    BY <1>1, <1>7, ByteTypeForm, TrailingForm, SMT
  <2>2. After(c, 1) = "2 more" /\ LeadingBits(c) = c % 32
    BY <2>1 DEF LeadingBits, After
  <2>3. c % 32 \in 1..15
    BY <1>7, SMT
  <2>4. c % 32 \in Nat /\ c % 32 >= 1
    BY <2>3, SMT
  <2>5. PointOK(After(c, 1), c % 32)
    BY <2>2, <2>4, PointForm
  <2>6. QED
    BY <1>2, <2>1, <2>2, <2>5, ZenonT(60)
<1>8. CASE c = 240
  <2>1. ByteType(c) = "F0" /\ ~(c < 128)
    BY <1>8, ByteTypeForm, SMT
  <2>2. After(c, 1) = "F0" /\ LeadingBits(c) = 0
    BY <1>8, <2>1 DEF LeadingBits, After
  <2>3. PointOK(After(c, 1), 0)
    <3>1. 0 \in Nat
      BY SMT
    <3>2. QED
      BY <2>2, <3>1, PointForm, Zenon
  <2>4. QED
    BY <1>2, <2>1, <2>2, <2>3, Zenon
<1>9. CASE c = 244
  <2>1. ByteType(c) = "F4" /\ ~(c < 128)
    BY <1>9, ByteTypeForm, SMT
  <2>2. After(c, 1) = "F4" /\ LeadingBits(c) = c % 8
    BY <1>9, <2>1 DEF LeadingBits, After
  <2>3. c % 8 = 4
    BY <1>9, SMT
  <2>4. c % 8 \in Nat /\ c % 8 >= 1
    BY <2>3, SMT
  <2>5. PointOK(After(c, 1), c % 8)
    BY <2>2, <2>4, PointForm
  <2>6. QED
    BY <1>2, <2>1, <2>2, <2>5, Zenon
<1>10. CASE c \in 241..243
  <2>1. ByteType(c) = "four" /\ Trailing(c) = 3 /\ c \notin {224, 237, 240, 244} /\ ~(c < 128)
    BY <1>1, <1>10, ByteTypeForm, TrailingForm, SMT
  <2>2. After(c, 1) = "3 more" /\ LeadingBits(c) = c % 4
    BY <2>1 DEF LeadingBits, After
  <2>3. c % 4 \in 1..3
    BY <1>10, SMT
  <2>4. c % 4 \in Nat /\ c % 4 >= 1
    BY <2>3, SMT
  <2>5. PointOK(After(c, 1), c % 4)
    BY <2>2, <2>4, PointForm
  <2>6. QED
    BY <1>2, <2>1, <2>2, <2>5, ZenonT(60)
<1>11. CASE ~(c < 128) /\ ~(Trailing(c) > 0)
  BY <1>11
<1>12. QED
  <2>1. Trailing(c) > 0 => c \in 194..244
    BY <1>1, TrailingForm, SMT
  <2>2. QED
    BY <1>1, <1>3, <1>4, <1>5, <1>6, <1>7, <1>8, <1>9, <1>10, <1>11, <2>1, SMT

\* decode's code point at the end of a character of several bytes is beyond the ones
\* that are escaped, though the masks of some leading bytes drop bits of it.
LEMMA PointNext ==
  ASSUME NEW c \in Byte, NEW k \in 1..Trailing(c), NEW x \in Byte, x \in Continuation(c, k),
         NEW p, PointOK(After(c, k), p)
  PROVE  LET q == DecodePoint(After(c, k), p, x)
         IN /\ q \in Nat
            /\ k = Trailing(c) => q >= 128
            /\ k < Trailing(c) => PointOK(After(c, k + 1), q)
<1> DEFINE q == DecodePoint(After(c, k), p, x)
<1>1. /\ c \in Int /\ Trailing(c) \in 0..3 /\ k \in 1..3
  <2>1. c \in Int
    BY BytesAreIntegers
  <2>2. Trailing(c) \in 0..3
    BY <2>1, TrailingForm
  <2>3. QED
    BY <2>1, <2>2, SMT
<1>2. x \in 128..191
  <2>1. k \in Nat
    BY <1>1, SMT
  <2>2. Continuation(c, k) \subseteq 128..191
    BY <1>1, <2>1, ContinuationForm
  <2>3. QED
    BY <2>2
<1>3. q = 64 * p + (x % 64) /\ x % 64 \in 0..63 /\ p \in Nat
  <2>1. After(c, k) # "accept"
    BY AfterForm
  <2>2. x % 64 \in 0..63
    BY <1>2, SMT
  <2>3. QED
    BY <2>1, <2>2 DEF DecodePoint, PointOK
<1> HIDE DEF q
<1>4. q \in Nat
  BY <1>3, SMT
<1>5. CASE k = 1 /\ c = 224
  <2>1. k # Trailing(c) /\ x \in 160..191
    BY <1>1, <1>5, TrailingForm, ContinuationForm, SMT
  <2>2. Trailing(c) = 2
    BY <1>1, <1>5, TrailingForm, SMT
  <2>3. After(c, k + 1) = "1 more"
    BY <1>5, <2>2, SMT DEF After
  <2>4. q >= 2
    BY <1>3, <2>1, SMT
  <2>5. QED
    BY <1>4, <2>1, <2>3, <2>4, PointForm, Zenon DEF q
<1>6. CASE k = 1 /\ c = 240
  <2>1. k # Trailing(c) /\ x \in 144..191
    BY <1>1, <1>6, TrailingForm, ContinuationForm, SMTT(30)
  <2>2. Trailing(c) = 3
    BY <1>1, <1>6, TrailingForm, SMT
  <2>3. After(c, k + 1) = "2 more"
    BY <1>6, <2>2, SMT DEF After
  <2>4. q >= 1
    BY <1>3, <2>1, SMT
  <2>5. QED
    BY <1>4, <2>1, <2>3, <2>4, PointForm, Zenon DEF q
<1>7. CASE ~(k = 1 /\ c \in {224, 240})
  <2>1. p >= 1
    <3>1. After(c, k) \in {"1 more", "2 more", "3 more", "ED", "F4"}
      BY <1>7, ZenonT(60) DEF After
    <3>2. p >= 2 => p >= 1
      BY <1>3, SMT
    <3>3. QED
      BY <3>1, <3>2, Zenon DEF PointOK
  <2>2. q >= 2
    BY <1>3, <2>1, SMT
  <2>3. k < Trailing(c) => PointOK(After(c, k + 1), q)
    BY <1>4, <2>2, PointForm
  <2>4. k = Trailing(c) => q >= 128
    <3>1. k = Trailing(c) => After(c, k) = "1 more"
      <4>1. SUFFICES ASSUME k = Trailing(c)
                     PROVE  ~(k = 1 /\ c \in {224, 237, 240, 244})
        BY DEF After
      <4>2. QED
        BY <1>1, <4>1, TrailingForm, SMT
    <3>2. k = Trailing(c) => p >= 2
      BY <3>1 DEF PointOK
    <3>3. QED
      BY <1>3, <3>2, SMT
  <2>5. QED
    BY <1>4, <2>3, <2>4 DEF q
<1>8. QED
  BY <1>5, <1>6, <1>7

-----------------------------------------------------------------------------
\* What dump_escaped writes for a byte.
Esc(c) == Escaped(c, c)

\* The digit that snprintf writes is the one that get_codepoint reads.
LEMMA HexForm ==
  ASSUME NEW n \in 0..15
  PROVE  Hex(n) \in 48..102 /\ HexDigit(Hex(n)) = n
<1>1. CASE n < 10
  <2>1. Hex(n) = 48 + n /\ Hex(n) \in 48..57
    BY <1>1, SMT DEF Hex
  <2>2. HexDigit(Hex(n)) = Hex(n) - 48
    BY <2>1, SMT DEF HexDigit, Digits
  <2>3. QED
    BY <2>1, <2>2, SMT
<1>2. CASE n >= 10
  <2>1. Hex(n) = 87 + n /\ Hex(n) \in 97..102
    BY <1>2, SMT DEF Hex
  <2>2. HexDigit(Hex(n)) = Hex(n) - 87
    BY <2>1, SMT DEF HexDigit, Digits
  <2>3. QED
    BY <2>1, <2>2, SMT
<1>3. QED
  BY <1>1, <1>2, SMT

\* What is written for a byte that is a code point, case by case.
LEMMA EscForm ==
  ASSUME NEW c \in Byte
  PROVE  /\ c \in {Quote, Backslash} => Esc(c) = <<Backslash, c>>
         /\ c = 8 => Esc(c) = <<Backslash, 98>>
         /\ c = 9 => Esc(c) = <<Backslash, 116>>
         /\ c = 10 => Esc(c) = <<Backslash, 110>>
         /\ c = 12 => Esc(c) = <<Backslash, 102>>
         /\ c = 13 => Esc(c) = <<Backslash, 114>>
         /\ c \in 0..31 \ {8, 9, 10, 12, 13} =>
              Esc(c) = <<Backslash, 117, Zero, Zero, Hex(c \div 16), Hex(c % 16)>>
         /\ c > 31 /\ c \notin {Quote, Backslash} => Esc(c) = <<c>>
<1> DEFINE G == c \in {Quote, Backslash}
           U == c \in 0..31 \ {8, 9, 10, 12, 13}
<1>1. Esc(c) = CASE G -> <<Backslash, c>>
                 [] c = 8 -> <<Backslash, 98>> [] c = 9 -> <<Backslash, 116>>
                 [] c = 10 -> <<Backslash, 110>> [] c = 12 -> <<Backslash, 102>>
                 [] c = 13 -> <<Backslash, 114>>
                 [] U -> <<Backslash, 117, Zero, Zero, Hex(c \div 16), Hex(c % 16)>>
                 [] OTHER -> <<c>>
  BY DEF Esc, Escaped
<1>2. /\ G => c \notin {8, 9, 10, 12, 13} /\ ~U
      /\ U => c \notin {8, 9, 10, 12, 13}
      /\ c > 31 => c \notin {8, 9, 10, 12, 13} /\ ~U
      /\ 8 # 9 /\ 8 # 10 /\ 8 # 12 /\ 8 # 13 /\ 9 # 10 /\ 9 # 12 /\ 9 # 13
      /\ 10 # 12 /\ 10 # 13 /\ 12 # 13
      /\ c \in {8, 9, 10, 12, 13} => ~U /\ ~G
  BY SMT DEF Quote, Backslash, Byte
<1> HIDE DEF G, U
<1>3. G => Esc(c) = <<Backslash, c>>
  BY <1>1, <1>2, Zenon
<1>4. /\ c = 8 => Esc(c) = <<Backslash, 98>>
      /\ c = 9 => Esc(c) = <<Backslash, 116>>
      /\ c = 10 => Esc(c) = <<Backslash, 110>>
      /\ c = 12 => Esc(c) = <<Backslash, 102>>
      /\ c = 13 => Esc(c) = <<Backslash, 114>>
  BY <1>1, <1>2, ZenonT(60)
<1>5. U => Esc(c) = <<Backslash, 117, Zero, Zero, Hex(c \div 16), Hex(c % 16)>>
  BY <1>1, <1>2, Zenon
<1>6. c > 31 /\ ~G => Esc(c) = <<c>>
  BY <1>1, <1>2, Zenon
<1>7. QED
  BY <1>3, <1>4, <1>5, <1>6, Zenon DEF G, U

\* What is written for it has up to six bytes, none of them a control character.
LEMMA EscBytes ==
  ASSUME NEW c \in Byte
  PROVE  /\ Esc(c) \in Strings
         /\ Len(Esc(c)) \in 1..6
         /\ \A j \in 1..Len(Esc(c)) : Esc(c)[j] > 31
<1> DEFINE P(v) == v \in Strings /\ Len(v) \in 1..6 /\ \A j \in 1..Len(v) : v[j] > 31
           Plain == 32..255
<1>1. \A x \in Plain : P(<<x>>)
  BY SMT DEF Strings, Byte
<1>2. \A x, y \in Plain : P(<<x, y>>)
  BY SMT DEF Strings, Byte
<1>3. \A u, v, w, x, y, z \in Plain : P(<<u, v, w, x, y, z>>)
  BY SMT DEF Strings, Byte
<1>4. /\ 92 \in Plain /\ 117 \in Plain /\ 48 \in Plain /\ 34 \in Plain
      /\ 98 \in Plain /\ 116 \in Plain /\ 110 \in Plain
      /\ 102 \in Plain /\ 114 \in Plain /\ 48..102 \subseteq Plain
  BY SMT
<1>5. c \in 0..255
  BY DEF Byte
<1>6. c > 31 => c \in Plain
  BY <1>5, SMT
<1> SUFFICES P(Esc(c))
  OBVIOUS
<1> HIDE DEF P, Plain
<1>7. CASE c \in {Quote, Backslash}
  <2>1. Esc(c) = <<92, c>> /\ c \in {34, 92}
    BY <1>7, EscForm DEF Quote, Backslash
  <2>2. c \in Plain
    BY <1>4, <2>1
  <2>3. P(<<92, c>>)
    BY <1>2, <1>4, <2>2
  <2>4. QED
    BY <2>1, <2>3
<1>8. CASE c \in {8, 9, 10, 12, 13}
  <2>1. Esc(c) \in {<<92, 98>>, <<92, 116>>, <<92, 110>>, <<92, 102>>, <<92, 114>>}
    BY <1>8, EscForm DEF Backslash
  <2>2. /\ P(<<92, 98>>) /\ P(<<92, 116>>) /\ P(<<92, 110>>)
        /\ P(<<92, 102>>) /\ P(<<92, 114>>)
    BY <1>2, <1>4
  <2>3. QED
    BY <2>1, <2>2
<1>9. CASE c \in 0..31 \ {8, 9, 10, 12, 13}
  <2>1. c \div 16 \in 0..15 /\ c % 16 \in 0..15
    BY <1>9, SMT
  <2>2. Hex(c \div 16) \in Plain /\ Hex(c % 16) \in Plain
    BY <1>4, <2>1, HexForm
  <2>3. Esc(c) = <<92, 117, 48, 48, Hex(c \div 16), Hex(c % 16)>>
    BY <1>9, EscForm DEF Backslash, Zero
  <2>4. P(<<92, 117, 48, 48, Hex(c \div 16), Hex(c % 16)>>)
    BY <1>3, <1>4, <2>2
  <2>5. QED
    BY <2>3, <2>4
<1>10. CASE c > 31 /\ c \notin {Quote, Backslash}
  <2>1. Esc(c) = <<c>>
    BY <1>10, EscForm
  <2>2. QED
    BY <1>1, <1>6, <1>10, <2>1, Zenon
<1>11. QED
  BY <1>5, <1>7, <1>8, <1>9, <1>10, SMT

\* The last byte of a code point beyond ASCII is written as it is.
LEMMA EscapedLarge ==
  ASSUME NEW p \in Nat, p >= 128, NEW x \in Byte
  PROVE  Escaped(p, x) = <<x>>
<1>1. /\ p \notin {Quote, Backslash} /\ p \notin 0..31 \ {8, 9, 10, 12, 13}
      /\ p # 8 /\ p # 9 /\ p # 10 /\ p # 12 /\ p # 13
  BY SMT DEF Quote, Backslash
<1>2. QED
  BY <1>1, Zenon DEF Escaped

-----------------------------------------------------------------------------
\* One turn of dump_escaped's loop.
\* From d to e it has written a piece.
Turned(d, e, state, codepoint, piece) ==
  /\ e = [state |-> e.state, codepoint |-> e.codepoint,
          buffer |-> e.buffer, output |-> e.output]
  /\ e.state = state /\ e.codepoint = codepoint
  /\ e.buffer \in Strings /\ e.output \in Strings
  /\ e.output \o e.buffer = (d.output \o d.buffer) \o piece
  /\ state = "accept" => Len(e.buffer) + 13 <= BufferSize
  /\ state # "accept" => e.buffer = d.buffer \o piece

\* A turn of dump_escaped, in terms of its fields and of the piece that it writes.
LEMMA DumpByteForm ==
  ASSUME NEW d, d.buffer \in Strings, d.output \in Strings, NEW c \in Byte,
         NEW piece \in Strings,
         Decode(d.state, c) # "reject",
         Decode(d.state, c) = "accept" =>
           piece = Escaped(DecodePoint(d.state, d.codepoint, c), c),
         Decode(d.state, c) # "accept" => piece = <<c>>
  PROVE  Turned(d, DumpByte(d, c), Decode(d.state, c),
                DecodePoint(d.state, d.codepoint, c), piece)
<1> DEFINE state == Decode(d.state, c)
           codepoint == DecodePoint(d.state, d.codepoint, c)
           buffer == d.buffer \o piece
           Next(kept, output) == [state |-> state, codepoint |-> codepoint,
                                  buffer |-> kept, output |-> output]
           e == DumpByte(d, c)
<1>1. e = CASE state = "reject" -> Next(d.buffer, d.output)
            [] state = "accept" /\ Full(buffer) -> Next(<<>>, d.output \o buffer)
            [] OTHER -> Next(buffer, d.output)
  <2>1. buffer = d.buffer \o (IF state = "accept" THEN Escaped(codepoint, c) ELSE <<c>>)
    OBVIOUS
  <2>2. QED
    BY <2>1 DEF DumpByte
<1>2. /\ buffer \in Strings /\ Len(buffer) \in Nat
      /\ d.output \o buffer = (d.output \o d.buffer) \o piece
      /\ d.output \o buffer \in Strings
      /\ (d.output \o buffer) \o <<>> = d.output \o buffer
      /\ <<>> \in Strings /\ Len(<<>>) = 0
  <2> DEFINE o == d.output
             b == d.buffer
  <2>1. /\ o \in Seq(Byte) /\ b \in Seq(Byte) /\ piece \in Seq(Byte)
    BY DEF Strings
  <2> HIDE DEF o, b
  <2>2. /\ b \o piece \in Seq(Byte) /\ Len(b \o piece) \in Nat
        /\ o \o (b \o piece) = (o \o b) \o piece
        /\ o \o (b \o piece) \in Seq(Byte)
        /\ <<>> \in Seq(Byte) /\ Len(<<>>) = 0
    BY <2>1, SMT
  <2>3. (o \o (b \o piece)) \o <<>> = o \o (b \o piece)
    BY <2>2, SMT
  <2>4. QED
    BY <2>2, <2>3, Zenon DEF Strings, o, b
<1>3. state # "reject"
  OBVIOUS
<1> HIDE DEF state, codepoint, buffer, e
<1>4. CASE state = "accept" /\ Full(buffer)
  <2>1. e = Next(<<>>, d.output \o buffer)
    BY <1>1, <1>3, <1>4, Zenon
  <2>2. /\ e.state = state /\ e.codepoint = codepoint /\ e.buffer = <<>>
        /\ e.output = d.output \o buffer
        /\ e = [state |-> e.state, codepoint |-> e.codepoint,
                buffer |-> e.buffer, output |-> e.output]
    BY <2>1
  <2>3. Len(<<>>) + 13 <= BufferSize
    BY <1>2, BufferAssumption, SMT
  <2>4. QED
    BY <1>2, <1>4, <2>2, <2>3, Zenon DEF Turned, state, codepoint, e
<1>5. CASE state = "accept" /\ ~Full(buffer)
  <2>1. e = Next(buffer, d.output)
    BY <1>1, <1>3, <1>5, Zenon
  <2>2. /\ e.state = state /\ e.codepoint = codepoint /\ e.buffer = buffer
        /\ e.output = d.output
        /\ e = [state |-> e.state, codepoint |-> e.codepoint,
                buffer |-> e.buffer, output |-> e.output]
    BY <2>1
  <2>3. Len(buffer) + 13 <= BufferSize
    BY <1>2, <1>5, BufferAssumption, SMT DEF Full
  <2>4. QED
    BY <1>2, <1>5, <2>2, <2>3, Zenon DEF Turned, state, codepoint, e
<1>6. CASE state # "accept"
  <2>1. e = Next(buffer, d.output)
    BY <1>1, <1>3, <1>6, Zenon
  <2>2. /\ e.state = state /\ e.codepoint = codepoint /\ e.buffer = buffer
        /\ e.output = d.output
        /\ e = [state |-> e.state, codepoint |-> e.codepoint,
                buffer |-> e.buffer, output |-> e.output]
    BY <2>1
  <2>3. QED
    BY <1>2, <1>6, <2>2, Zenon DEF Turned, state, codepoint, e, buffer
<1>7. QED
  BY <1>4, <1>5, <1>6, Zenon

\* Where dump_escaped is before byte i of s: at the beginning of a character, or
\* behind the first bytes of one; and the room it has in string_buffer.
DumpPlace(s, B, i, d) ==
  \E b \in B :
    /\ b <= i
    /\ Len(d.buffer) + 13 <= BufferSize + (i - b)
    /\ \/ i = b /\ d.state = "accept"
       \/ \E n \in 2..4 : /\ CharAt(s, b, n) /\ b + n \in B
                          /\ i \in b + 1..b + n - 1
                          /\ d.state = After(s[b], i - b)
                          /\ PointOK(d.state, d.codepoint)

\* What is known of dump_escaped's variables in any place.
DumpForm(d) ==
  /\ d = [state |-> d.state, codepoint |-> d.codepoint,
          buffer |-> d.buffer, output |-> d.output]
  /\ d.state \in DecodeStates \ {"reject"}
  /\ d.codepoint \in Nat
  /\ d.buffer \in Strings /\ d.output \in Strings

\* A byte beyond ASCII is written as it is.
LEMMA LargeByte ==
  ASSUME NEW c \in Byte, c >= 128
  PROVE  Esc(c) = <<c>> /\ <<c>> \in Strings
<1>1. c > 31 /\ c \notin {Quote, Backslash}
  BY BytesAreIntegers, SMT DEF Quote, Backslash
<1>2. <<c>> \in Strings
  BY SMT DEF Strings
<1>3. QED
  BY <1>1, <1>2, EscForm

\* The bytes of a character of several are beyond ASCII.
LEMMA CharBytes ==
  ASSUME NEW s \in Strings, NEW b \in Int, NEW n \in 2..4, CharAt(s, b, n)
  PROVE  /\ b \in 1..Len(s) /\ b + n - 1 <= Len(s)
         /\ s[b] \in Byte /\ s[b] >= 128 /\ Trailing(s[b]) = n - 1
         /\ \A k \in 1..n - 1 : /\ s[b + k] \in Continuation(s[b], k)
                                /\ s[b + k] \in Byte /\ s[b + k] \in 128..191
                                /\ s[b + k] >= 128
<1>1. /\ b \in 1..Len(s) /\ b + n - 1 <= Len(s) /\ Trailing(s[b]) = n - 1
      /\ \A k \in 1..n - 1 : s[b + k] \in Continuation(s[b], k)
  BY SMT DEF CharAt
<1>2. \A k \in 1..Len(s) : s[k] \in Byte
  BY SMT DEF Strings
<1>3. s[b] \in Int
  BY <1>1, <1>2, BytesAreIntegers
<1>4. s[b] >= 128
  <2>1. s[b] \in 194..223 \/ s[b] \in 224..239 \/ s[b] \in 240..244
    <3>1. n - 1 \in 1..3
      BY SMT
    <3>2. /\ Trailing(s[b]) = 1 => s[b] \in 194..223
          /\ Trailing(s[b]) = 2 => s[b] \in 224..239
          /\ Trailing(s[b]) = 3 => s[b] \in 240..244
      BY <1>3, TrailingForm
    <3>3. n - 1 = 1 \/ n - 1 = 2 \/ n - 1 = 3
      BY <3>1, SMT
    <3>4. QED
      BY <1>1, <3>2, <3>3, Zenon
  <2>2. QED
    BY <2>1, SMT
<1>5. ASSUME NEW k \in 1..n - 1
      PROVE  s[b + k] \in Byte /\ s[b + k] \in 128..191 /\ s[b + k] >= 128
  <2>1. b + k \in 1..Len(s) /\ k \in Nat
    BY <1>1, SMT
  <2>2. Continuation(s[b], k) \subseteq 128..191
    BY <1>3, <2>1, ContinuationForm
  <2>3. s[b + k] \in 128..191
    BY <1>1, <2>2
  <2>4. s[b + k] >= 128
    BY <2>3, SMT
  <2>5. QED
    BY <1>2, <2>1, <2>3, <2>4
<1>6. QED
  BY <1>1, <1>2, <1>4, <1>5

\* A turn of dump_escaped keeps its place in the text, leaves string_buffer the room the
\* next one needs, and adds what is written for its byte.
LEMMA DumpTurn ==
  ASSUME NEW s \in Strings, NEW B, Begins(s, B), NEW i \in 1..Len(s),
         NEW d, DumpForm(d), DumpPlace(s, B, i, d)
  PROVE  LET e == DumpByte(d, s[i])
         IN /\ DumpForm(e)
            /\ DumpPlace(s, B, i + 1, e)
            /\ e.output \o e.buffer = (d.output \o d.buffer) \o Esc(s[i])
<1> DEFINE c == s[i]
           e == DumpByte(d, c)
           state == Decode(d.state, c)
           codepoint == DecodePoint(d.state, d.codepoint, c)
<1>1. /\ c \in Byte /\ Esc(c) \in Strings /\ i \in Int /\ Len(s) \in Nat
      /\ d.buffer \in Strings /\ d.output \in Strings /\ Len(d.buffer) \in Nat
      /\ BufferSize \in Nat
  <2>1. c \in Byte /\ i \in Int /\ Len(s) \in Nat
    BY SMT DEF Strings
  <2>2. d.buffer \in Strings /\ d.output \in Strings
    BY DEF DumpForm
  <2>3. Len(d.buffer) \in Nat
    BY <2>2, SMT DEF Strings
  <2>4. Esc(c) \in Strings
    BY <2>1, EscBytes
  <2>5. QED
    BY <2>1, <2>2, <2>3, <2>4, BufferAssumption
<1>2. PICK b \in B :
        /\ b <= i
        /\ Len(d.buffer) + 13 <= BufferSize + (i - b)
        /\ \/ i = b /\ d.state = "accept"
           \/ \E n \in 2..4 : /\ CharAt(s, b, n) /\ b + n \in B
                              /\ i \in b + 1..b + n - 1
                              /\ d.state = After(s[b], i - b)
                              /\ PointOK(d.state, d.codepoint)
  BY DEF DumpPlace
<1>3. b \in Int
  BY <1>1, SMT DEF Begins
\* A turn that ends a character, and one that does not.
<1>4. ASSUME state = "accept", codepoint \in Nat, Escaped(codepoint, c) = Esc(c),
             i + 1 \in B
      PROVE  /\ DumpForm(e)
             /\ DumpPlace(s, B, i + 1, e)
             /\ e.output \o e.buffer = (d.output \o d.buffer) \o Esc(c)
  <2>1. /\ e.state = "accept" /\ e.codepoint \in Nat
        /\ e = [state |-> e.state, codepoint |-> e.codepoint,
                buffer |-> e.buffer, output |-> e.output]
        /\ e.buffer \in Strings /\ e.output \in Strings
        /\ e.output \o e.buffer = (d.output \o d.buffer) \o Esc(c)
        /\ Len(e.buffer) + 13 <= BufferSize
    <3>1. state # "reject"
      BY <1>4
    <3>2. Turned(d, e, state, codepoint, Esc(c))
      BY <1>1, <1>4, <3>1, DumpByteForm, Zenon
    <3>3. QED
      BY <1>4, <3>2, Zenon DEF Turned
  <2> HIDE DEF e, c
  <2>2. DumpForm(e)
    BY <2>1 DEF DumpForm, DecodeStates
  <2>3. i + 1 <= i + 1 /\ BufferSize + ((i + 1) - (i + 1)) = BufferSize
    BY <1>1, SMT
  <2>4. DumpPlace(s, B, i + 1, e)
    BY <1>4, <2>1, <2>3, Zenon DEF DumpPlace
  <2>5. QED
    BY <2>1, <2>2, <2>4
<1>5. ASSUME NEW n \in 2..4, CharAt(s, b, n), b + n \in B, i + 1 \in b + 1..b + n - 1,
             c >= 128, state = After(s[b], (i + 1) - b), PointOK(state, codepoint)
      PROVE  /\ DumpForm(e)
             /\ DumpPlace(s, B, i + 1, e)
             /\ e.output \o e.buffer = (d.output \o d.buffer) \o Esc(c)
  <2>1. state \in DecodeStates \ {"accept", "reject"}
    BY <1>5, AfterForm
  <2>2. Esc(c) = <<c>>
    BY <1>1, <1>5, LargeByte
  <2>3. /\ e.state = state /\ e.codepoint = codepoint
        /\ e = [state |-> e.state, codepoint |-> e.codepoint,
                buffer |-> e.buffer, output |-> e.output]
        /\ e.buffer \in Strings /\ e.output \in Strings
        /\ e.output \o e.buffer = (d.output \o d.buffer) \o Esc(c)
        /\ e.buffer = d.buffer \o <<c>>
    <3>1. state # "reject" /\ state # "accept"
      BY <2>1
    <3>2. Turned(d, e, state, codepoint, Esc(c))
      BY <1>1, <2>2, <3>1, DumpByteForm, Zenon
    <3>3. QED
      BY <2>2, <3>1, <3>2, Zenon DEF Turned
  <2> HIDE DEF e, c, state, codepoint
  <2>4. DumpForm(e)
    BY <1>5, <2>1, <2>3 DEF DumpForm, PointOK
  <2>5. Len(e.buffer) = Len(d.buffer) + 1
    BY <1>1, <2>3, SMT DEF Strings
  <2>6. b <= i + 1 /\ Len(e.buffer) + 13 <= BufferSize + ((i + 1) - b)
    <3> DEFINE m == Len(d.buffer)
    <3> HIDE DEF m
    <3>1. m \in Nat /\ b <= i /\ m + 13 <= BufferSize + (i - b)
      BY <1>1, <1>2 DEF m
    <3>2. b <= i + 1 /\ (m + 1) + 13 <= BufferSize + ((i + 1) - b)
      BY <1>1, <1>3, <3>1, SMT
    <3>3. QED
      BY <2>5, <3>2 DEF m
  <2>7. DumpPlace(s, B, i + 1, e)
    BY <1>5, <2>3, <2>6, Zenon DEF DumpPlace
  <2>8. QED
    BY <2>3, <2>4, <2>7
<1>6. CASE i = b /\ d.state = "accept"
  <2>1. PICK n \in 1..4 : CharAt(s, b, n) /\ b + n \in B
    BY <1>1, <1>6, SMT DEF Begins
  <2>2. CASE n = 1
    <3>1. c < 128
      <4>1. s[b] \in 0..127
        BY <2>1, <2>2 DEF CharAt
      <4>2. \A x \in 0..127 : x < 128
        BY SMT
      <4>3. s[b] < 128
        BY <4>1, <4>2
      <4>4. QED
        BY <1>6, <4>3, Zenon
    <3>2. state = "accept" /\ codepoint = c
      BY <1>1, <1>6, <3>1, DecodeFirst, PointFirst
    <3>3. c \in Nat
      BY <1>1, BytesAreIntegers
    <3>4. QED
      BY <1>4, <1>6, <2>1, <2>2, <3>2, <3>3 DEF Esc
  <2>3. CASE n \in 2..4
    <3>1. c >= 128 /\ Trailing(c) = n - 1
      BY <1>3, <1>6, <2>1, <2>3, CharBytes
    <3>2. Trailing(c) > 0 /\ (i + 1) - b = 1 /\ i + 1 \in b + 1..b + n - 1
      BY <1>1, <1>3, <1>6, <2>3, <3>1, SMT
    <3>3. state = After(s[b], (i + 1) - b) /\ PointOK(state, codepoint)
      BY <1>1, <1>6, <3>2, DecodeFirst, PointFirst
    <3>4. QED
      BY <1>5, <2>1, <2>3, <3>1, <3>2, <3>3
  <2>4. n = 1 \/ n \in 2..4
    BY SMT
  <2>5. QED
    BY <2>2, <2>3, <2>4, Zenon
<1>7. CASE \E n \in 2..4 : /\ CharAt(s, b, n) /\ b + n \in B
                           /\ i \in b + 1..b + n - 1
                           /\ d.state = After(s[b], i - b)
                           /\ PointOK(d.state, d.codepoint)
  <2>1. PICK n \in 2..4 : /\ CharAt(s, b, n) /\ b + n \in B
                          /\ i \in b + 1..b + n - 1
                          /\ d.state = After(s[b], i - b)
                          /\ PointOK(d.state, d.codepoint)
    BY <1>7
  <2> DEFINE k == i - b
  <2>2. k \in 1..n - 1 /\ b + k = i
    BY <1>1, <1>3, <2>1, SMT
  <2>3. /\ s[b] \in Byte /\ Trailing(s[b]) = n - 1
        /\ c \in Continuation(s[b], k) /\ c >= 128
    <3>1. /\ s[b] \in Byte /\ Trailing(s[b]) = n - 1
          /\ s[b + k] \in Continuation(s[b], k) /\ s[b + k] >= 128
      BY <1>3, <2>1, <2>2, CharBytes, SMTT(30)
    <3>2. s[b + k] = c
      BY <2>2
    <3>3. QED
      BY <3>1, <3>2
  <2>4. CASE k = Trailing(s[b])
    <3>1. state = "accept" /\ codepoint \in Nat /\ codepoint >= 128
      BY <1>1, <2>1, <2>2, <2>3, <2>4, DecodeNext, PointNext
    <3>2. Escaped(codepoint, c) = Esc(c)
      BY <1>1, <2>3, <3>1, EscapedLarge, LargeByte
    <3>3. b + n = i + 1
      BY <1>3, <2>2, <2>3, <2>4, SMT
    <3>4. QED
      BY <1>4, <2>1, <3>1, <3>2, <3>3
  <2>5. CASE k < Trailing(s[b])
    <3>1. k + 1 = (i + 1) - b /\ i + 1 \in b + 1..b + n - 1
      <4>1. k < n - 1
        BY <2>3, <2>5
      <4>2. i \in Int /\ b \in Int /\ n \in 2..4
        BY <1>1, <1>3
      <4> HIDE DEF k
      <4>3. QED
        BY <2>2, <4>1, <4>2, SMT
    <3>2. state = After(s[b], k + 1) /\ PointOK(state, codepoint)
      BY <1>1, <2>1, <2>2, <2>3, <2>5, DecodeNext, PointNext
    <3>3. QED
      BY <1>5, <2>1, <2>3, <3>1, <3>2
  <2>6. k = Trailing(s[b]) \/ k < Trailing(s[b])
    <3>1. k = n - 1 \/ k < n - 1
      BY <2>2, SMT
    <3>2. QED
      BY <2>3, <3>1
  <2>7. QED
    BY <2>4, <2>5, <2>6, Zenon
<1>8. QED
  BY <1>2, <1>6, <1>7, Zenon

-----------------------------------------------------------------------------
\* The text o that was written for the bytes of s before the ith, and where in it
\* the text for each of them begins.
Written(s, i, o, f) ==
  /\ f \in [1..i -> 1..Len(o) + 1]
  /\ f[1] = 1 /\ f[i] = Len(o) + 1
  /\ \A k \in 1..i - 1 :
       /\ f[k + 1] = f[k] + Len(Esc(s[k]))
       /\ \A j \in 1..Len(Esc(s[k])) : o[f[k] + j - 1] = Esc(s[k])[j]

\* No control character.
PlainText(o) == \A k \in 1..Len(o) : o[k] > 31

\* Nothing is written before the first byte.
LEMMA WrittenStart ==
  ASSUME NEW s
  PROVE  Written(s, 1, <<>>, [k \in 1..1 |-> 1]) /\ PlainText(<<>>)
<1>1. Len(<<>>) = 0 /\ 1..1 = {1} /\ 1..0 = {} /\ 1 - 1 = 0 /\ 0 + 1 = 1
  BY SMT
<1>2. QED
  BY <1>1 DEF Written, PlainText

\* What is written for one more byte begins where the text ended.
LEMMA WrittenMore ==
  ASSUME NEW s \in Strings, NEW i \in 1..Len(s), NEW o \in Strings,
         NEW f, Written(s, i, o, f), PlainText(o)
  PROVE  /\ \E g : Written(s, i + 1, o \o Esc(s[i]), g)
         /\ PlainText(o \o Esc(s[i]))
<1> DEFINE v == Esc(s[i])
           w == o \o v
           g == [k \in 1..i + 1 |-> IF k <= i THEN f[k] ELSE f[i] + Len(v)]
<1>1. i \in Nat /\ i >= 1 /\ s[i] \in Byte
  BY SMT DEF Strings
<1>2. v \in Strings /\ Len(v) \in 1..6 /\ \A j \in 1..Len(v) : v[j] > 31
  BY <1>1, EscBytes
<1> HIDE DEF v
<1>3. /\ Len(o) \in Nat /\ Len(w) = Len(o) + Len(v)
      /\ \A k \in 1..Len(o) : w[k] = o[k]
      /\ \A k \in 1..Len(v) : w[Len(o) + k] = v[k]
  BY <1>2, SMT DEF Strings
<1> HIDE DEF w
<1>4. /\ f \in [1..i -> 1..Len(o) + 1] /\ f[1] = 1 /\ f[i] = Len(o) + 1
      /\ \A k \in 1..i - 1 : f[k + 1] = f[k] + Len(Esc(s[k]))
      /\ \A k \in 1..i - 1 : \A j \in 1..Len(Esc(s[k])) : o[f[k] + j - 1] = Esc(s[k])[j]
  BY DEF Written
<1>5. /\ g \in [1..i + 1 -> 1..Len(w) + 1]
      /\ \A k \in 1..i : g[k] = f[k]
      /\ g[i + 1] = f[i] + Len(v)
  BY <1>1, <1>2, <1>3, <1>4, SMT
<1> HIDE DEF g
<1>6. g[1] = 1 /\ g[i + 1] = Len(w) + 1
  BY <1>1, <1>2, <1>3, <1>4, <1>5, SMT
<1>7. ASSUME NEW k \in 1..i
      PROVE  /\ g[k + 1] = g[k] + Len(Esc(s[k]))
             /\ \A j \in 1..Len(Esc(s[k])) : w[g[k] + j - 1] = Esc(s[k])[j]
  <2>1. CASE k = i
    <3>1. Esc(s[k]) = v
      BY <2>1 DEF v
    <3>2. g[k] = Len(o) + 1 /\ g[k + 1] = g[k] + Len(v)
      BY <1>1, <1>4, <1>5, <2>1, SMT
    <3>3. \A j \in 1..Len(v) : w[g[k] + j - 1] = v[j]
      <4>1. ASSUME NEW j \in 1..Len(v)
            PROVE  w[g[k] + j - 1] = v[j]
        <5>1. g[k] + j - 1 = Len(o) + j
          BY <1>2, <1>3, <3>2, SMT
        <5>2. QED
          BY <1>3, <5>1
      <4>2. QED
        BY <4>1
    <3>4. QED
      BY <3>1, <3>2, <3>3
  <2>2. CASE k \in 1..i - 1
    <3>1. g[k] = f[k] /\ k \in 1..i
      BY <1>5
    <3>2. g[k + 1] = f[k + 1]
      BY <1>1, <1>5, <2>2, SMT
    <3>3. s[k] \in Byte
      BY <1>1, <2>2, SMT DEF Strings
    <3>4. Len(Esc(s[k])) \in 1..6
      BY <3>3, EscBytes
    <3>5. f[k] \in 1..Len(o) + 1 /\ f[k + 1] \in 1..Len(o) + 1
          /\ f[k + 1] = f[k] + Len(Esc(s[k]))
      BY <1>1, <1>4, <2>2, SMT
    <3>6. ASSUME NEW j \in 1..Len(Esc(s[k]))
          PROVE  w[g[k] + j - 1] = Esc(s[k])[j]
      <4>1. f[k] + j - 1 \in 1..Len(o)
        BY <1>3, <3>4, <3>5, SMTT(30)
      <4>2. w[f[k] + j - 1] = o[f[k] + j - 1]
        BY <1>3, <4>1
      <4>3. QED
        BY <1>4, <2>2, <3>1, <4>2, Zenon
    <3>7. QED
      BY <3>1, <3>2, <3>5, <3>6, Zenon
  <2>3. k = i \/ k \in 1..i - 1
    BY <1>1, SMT
  <2>4. QED
    BY <2>1, <2>2, <2>3
<1>8. Written(s, i + 1, w, g)
  <2>1. (i + 1) - 1 = i
    BY <1>1, SMT
  <2>2. QED
    BY <1>5, <1>6, <1>7, <2>1, Zenon DEF Written
<1>9. PlainText(w)
  <2>1. ASSUME NEW k \in 1..Len(w)
        PROVE  w[k] > 31
    <3>1. CASE k \in 1..Len(o)
      BY <1>3, <3>1, Zenon DEF PlainText
    <3>2. CASE k \in Len(o) + 1..Len(o) + Len(v)
      <4>1. k - Len(o) \in 1..Len(v) /\ Len(o) + (k - Len(o)) = k
        BY <1>2, <1>3, <3>2, SMT
      <4>2. w[k] = v[k - Len(o)]
        BY <1>3, <4>1
      <4>3. QED
        BY <1>2, <4>1, <4>2, Zenon
    <3>3. QED
      BY <1>2, <1>3, <3>1, <3>2, SMT
  <2>2. QED
    BY <2>1 DEF PlainText
<1>10. QED
  BY <1>8, <1>9 DEF w, v

-----------------------------------------------------------------------------
\* scan_string takes what was written for what it was written for.
LEMMA EscapeTaken ==
  ASSUME NEW bytes \in Strings, NEW i \in Nat \ {0}
  PROVE  LET c == At(bytes, i)
             high == GetCodepoint(bytes, i + 1)
             e == Escape(bytes, i)
         IN /\ c \in DOMAIN Simple => e.value = <<Simple[c]>> /\ e.length = 1
            /\ c = 117 /\ high # -1 /\ ~HighSurrogate(high) /\ ~LowSurrogate(high)
                 => e.value = Utf8(high) /\ e.length = 5
<1> DEFINE c == At(bytes, i)
           high == GetCodepoint(bytes, i + 1)
           low == IF At(bytes, i + 5) = Backslash /\ At(bytes, i + 6) = 117
                    THEN GetCodepoint(bytes, i + 7) ELSE -1
           Is(value, length) == [value |-> value, length |-> length]
           isPair == HighSurrogate(high) /\ LowSurrogate(low)
           isSingle == high # -1 /\ ~HighSurrogate(high) /\ ~LowSurrogate(high)
           e == Escape(bytes, i)
<1>1. e = CASE c \in DOMAIN Simple -> Is(<<Simple[c]>>, 1)
            [] c = 117 /\ isPair -> Is(Utf8(Supplementary(high, low)), 11)
            [] c = 117 /\ isSingle -> Is(Utf8(high), 5)
            [] OTHER -> Is(<<>>, 0)
  BY DEF Escape
<1>2. c \in DOMAIN Simple => c # 117
  BY SimpleForm, SMT
<1>3. isSingle => ~isPair
  OBVIOUS
<1> HIDE DEF c, high, isPair, isSingle, e
<1>4. c \in DOMAIN Simple => e = Is(<<Simple[c]>>, 1)
  BY <1>1, <1>2, Zenon
<1>5. c = 117 /\ isSingle => e = Is(Utf8(high), 5)
  BY <1>1, <1>2, <1>3, Zenon
<1>6. QED
  BY <1>4, <1>5 DEF c, high, isSingle, e

\* The bytes of t from p on are what is written for c.
IsEscAt(t, p, c) ==
  /\ p \in 1..Len(t) /\ p + Len(Esc(c)) - 1 <= Len(t)
  /\ \A j \in 1..Len(Esc(c)) : t[p + j - 1] = Esc(c)[j]

\* A turn that appends value and goes on behind length bytes.
Takes(char, value, length) ==
  char.ends = "" /\ char.value = value /\ char.length = length

\* At a place in t.
LEMMA AtPlace ==
  ASSUME NEW t \in Strings, NEW p \in 1..Len(t)
  PROVE  p \in Nat \ {0} /\ At(t, p) = t[p] /\ t[p] \in Byte
<1>1. p \in Nat \ {0} /\ p <= Len(t)
  BY SMT DEF Strings
<1>2. QED
  BY <1>1, AtForm

\* An escape of two characters is taken whole.
LEMMA ScanSimple ==
  ASSUME NEW t \in Strings, NEW p \in Nat, p \in 1..Len(t), p + 1 \in 1..Len(t),
         t[p] = Backslash, t[p + 1] \in DOMAIN Simple
  PROVE  Takes(ScanChar(t, p), <<Simple[t[p + 1]]>>, 2)
<1>1. /\ p \in Nat \ {0} /\ At(t, p) = Backslash
      /\ p + 1 \in Nat \ {0} /\ At(t, p + 1) = t[p + 1]
  BY AtPlace
<1>2. Escape(t, p + 1).value = <<Simple[t[p + 1]]>> /\ Escape(t, p + 1).length = 1
  BY <1>1, EscapeTaken
<1>3. 1 > 0 /\ 1 + 1 = 2
  BY SMT
<1>4. Escape(t, p + 1).length > 0 /\ 1 + Escape(t, p + 1).length = 2
  BY <1>2, <1>3
<1>5. QED
  BY <1>1, <1>2, <1>4, ScanCharCases DEF Takes

\* get_codepoint reads the number whose last two digits snprintf wrote.
LEMMA CodepointTaken ==
  ASSUME NEW t \in Strings, NEW q \in Nat \ {0}, q + 3 <= Len(t),
         NEW x \in 0..15, NEW y \in 0..15,
         t[q] = Zero, t[q + 1] = Zero, t[q + 2] = Hex(x), t[q + 3] = Hex(y)
  PROVE  GetCodepoint(t, q) = 16 * x + y
<1> DEFINE d == [k \in 0..3 |-> HexDigit(At(t, q + k))]
<1>1. GetCodepoint(t, q) = IF \E k \in 0..3 : d[k] = -1 THEN -1
                           ELSE 16 * (16 * (16 * d[0] + d[1]) + d[2]) + d[3]
  BY DEF GetCodepoint
<1>2. /\ q \in 1..Len(t) /\ q + 1 \in 1..Len(t) /\ q + 2 \in 1..Len(t)
      /\ q + 3 \in 1..Len(t) /\ q + 0 = q
  BY SMT DEF Strings
<1>3. /\ At(t, q + 0) = Zero /\ At(t, q + 1) = Zero
      /\ At(t, q + 2) = Hex(x) /\ At(t, q + 3) = Hex(y)
  BY <1>2, AtPlace
<1>4. HexDigit(Zero) = 0
  BY SMT DEF HexDigit, Zero, Digits
<1>5. d[0] = 0 /\ d[1] = 0 /\ d[2] = x /\ d[3] = y
  <2>1. 0 \in 0..3 /\ 1 \in 0..3 /\ 2 \in 0..3 /\ 3 \in 0..3
    BY SMT
  <2>2. /\ d[0] = HexDigit(At(t, q + 0)) /\ d[1] = HexDigit(At(t, q + 1))
        /\ d[2] = HexDigit(At(t, q + 2)) /\ d[3] = HexDigit(At(t, q + 3))
    BY <2>1, Zenon
  <2>3. QED
    BY <1>3, <1>4, <2>2, HexForm
<1> HIDE DEF d
<1>6. ~\E k \in 0..3 : d[k] = -1
  BY <1>5, SMT
<1>7. 16 * (16 * (16 * d[0] + d[1]) + d[2]) + d[3] = 16 * x + y
  BY <1>5, SMT
<1>8. QED
  BY <1>1, <1>6, <1>7

\* What was written for an ASCII character, a turn of scan_string reads back.
LEMMA ScanAscii ==
  ASSUME NEW t \in Strings, NEW p \in Nat, NEW c \in Byte, c < 128, IsEscAt(t, p, c)
  PROVE  Takes(ScanChar(t, p), <<c>>, Len(Esc(c)))
<1>1. c \in 0..255 /\ c \in Nat
  BY BytesAreIntegers DEF Byte
<1>2. CASE c \in {Quote, Backslash}
  <2>1. Esc(c) = <<Backslash, c>>
    BY <1>2, EscForm
  <2>2. /\ p \in 1..Len(t) /\ p + 1 \in 1..Len(t)
        /\ t[p] = Backslash /\ t[p + 1] = c /\ Len(Esc(c)) = 2
    BY <2>1, SMT DEF IsEscAt, Strings
  <2>3. c \in DOMAIN Simple /\ Simple[c] = c
    BY <1>2, SimpleForm DEF Quote, Backslash
  <2>4. QED
    BY <2>2, <2>3, ScanSimple
<1>3. ASSUME NEW letter \in DOMAIN Simple, Esc(c) = <<Backslash, letter>>,
             Simple[letter] = c
      PROVE  Takes(ScanChar(t, p), <<c>>, Len(Esc(c)))
  <2>1. /\ p \in 1..Len(t) /\ p + 1 \in 1..Len(t)
        /\ t[p] = Backslash /\ t[p + 1] = letter /\ Len(Esc(c)) = 2
    BY <1>3, SMT DEF IsEscAt, Strings
  <2>2. QED
    BY <1>3, <2>1, ScanSimple
<1>4. CASE c \in {8, 9, 10, 12, 13}
  <2>1. /\ 98 \in DOMAIN Simple /\ 116 \in DOMAIN Simple /\ 110 \in DOMAIN Simple
        /\ 102 \in DOMAIN Simple /\ 114 \in DOMAIN Simple
    BY SimpleForm
  <2>2. QED
    BY <1>3, <1>4, <2>1, SimpleForm, EscForm
<1>5. CASE c \in 0..31 \ {8, 9, 10, 12, 13}
  <2> DEFINE x == c \div 16
             y == c % 16
  <2>1. x \in 0..15 /\ y \in 0..15 /\ 16 * x + y = c
    BY <1>5, SMT
  <2>2. Esc(c) = <<Backslash, 117, Zero, Zero, Hex(x), Hex(y)>>
    BY <1>5, EscForm
  <2> HIDE DEF x, y
  <2>3. /\ p \in 1..Len(t) /\ p + 5 <= Len(t) /\ Len(Esc(c)) = 6
        /\ t[p] = Backslash /\ t[p + 1] = 117 /\ t[p + 2] = Zero /\ t[p + 3] = Zero
        /\ t[p + 4] = Hex(x) /\ t[p + 5] = Hex(y)
    BY <2>2, SMTT(30) DEF IsEscAt
  <2>4. /\ p \in Nat \ {0} /\ At(t, p) = Backslash
        /\ p + 1 \in Nat \ {0} /\ At(t, p + 1) = 117
    <3>1. p + 1 \in 1..Len(t)
      BY <2>3, SMT DEF Strings
    <3>2. QED
      BY <2>3, <3>1, AtPlace
  <2>5. GetCodepoint(t, (p + 1) + 1) = c
    <3>1. /\ (p + 1) + 1 = p + 2 /\ p + 2 \in Nat \ {0} /\ (p + 2) + 3 = p + 5
          /\ (p + 2) + 1 = p + 3 /\ (p + 2) + 2 = p + 4
      BY SMT
    <3>2. /\ t[p + 2] = Zero /\ t[(p + 2) + 1] = Zero
          /\ t[(p + 2) + 2] = Hex(x) /\ t[(p + 2) + 3] = Hex(y)
          /\ (p + 2) + 3 <= Len(t)
      BY <2>3, <3>1, Zenon
    <3>3. GetCodepoint(t, p + 2) = 16 * x + y
      BY <2>1, <3>1, <3>2, CodepointTaken, Zenon
    <3>4. QED
      BY <2>1, <3>1, <3>3, Zenon
  <2>6. c # -1 /\ ~HighSurrogate(c) /\ ~LowSurrogate(c)
    BY <1>5, SMT DEF HighSurrogate, LowSurrogate
  <2>7. Escape(t, p + 1).value = Utf8(c) /\ Escape(t, p + 1).length = 5
    BY <2>4, <2>5, <2>6, EscapeTaken
  <2>8. Utf8(c) = <<c>>
    <3>1. c \div 64 = 0
      BY <1>5, SMT
    <3>2. 0 < 2 /\ ~(0 \in 2..31) /\ ~(0 > 31)
      BY SMT
    <3>3. QED
      BY <3>1, <3>2, Zenon DEF Utf8
  <2>9. 5 > 0 /\ 1 + 5 = 6
    BY SMT
  <2>10. QED
    <3>1. Escape(t, p + 1).length > 0 /\ 1 + Escape(t, p + 1).length = 6
      BY <2>7, <2>9, Zenon
    <3>2. Takes(ScanChar(t, p), Escape(t, p + 1).value, 1 + Escape(t, p + 1).length)
      BY <2>4, <3>1, ScanCharCases DEF Takes
    <3>3. QED
      BY <2>3, <2>7, <2>8, <3>1, <3>2, Zenon
<1>6. CASE c > 31 /\ c \notin {Quote, Backslash}
  <2>1. Esc(c) = <<c>>
    BY <1>6, EscForm
  <2>2. p \in 1..Len(t) /\ t[p] = c /\ Len(Esc(c)) = 1
    BY <2>1, SMT DEF IsEscAt
  <2>3. p \in Nat \ {0} /\ At(t, p) = c
    BY <2>2, AtPlace
  <2>4. c \in 32..127 \ {Quote, Backslash}
    BY <1>1, <1>6, SMT
  <2>5. QED
    BY <2>2, <2>3, <2>4, ScanCharCases DEF Takes
<1>7. QED
  BY <1>1, <1>2, <1>4, <1>5, <1>6, SMT

\* A character of several bytes is read as it stands.
LEMMA ScanMulti ==
  ASSUME NEW t \in Strings, NEW p \in Nat, NEW n \in 2..4, CharAt(t, p, n)
  PROVE  Takes(ScanChar(t, p), SubSeq(t, p, p + n - 1), n)
<1>1. /\ p \in 1..Len(t) /\ p + n - 1 <= Len(t)
      /\ Trailing(t[p]) = n - 1
      /\ \A k \in 1..n - 1 : t[p + k] \in Continuation(t[p], k)
  <2>1. p \in Int
    BY SMT
  <2>2. QED
    BY <2>1, CharBytes, SMTT(30)
<1>2. p \in Nat \ {0} /\ At(t, p) = t[p]
  BY <1>1, AtPlace
<1>3. OutOfRange(t, p) = {}
  <2>1. ASSUME NEW k \in 1..Trailing(At(t, p))
        PROVE  At(t, p + k) \in Continuation(At(t, p), k)
    <3>1. k \in 1..n - 1
      BY <1>1, <1>2
    <3>2. p + k \in 1..Len(t)
      BY <1>1, <3>1, SMT DEF Strings
    <3>3. At(t, p + k) = t[p + k]
      BY <3>2, AtPlace
    <3>4. QED
      BY <1>1, <1>2, <3>1, <3>3
  <2>2. QED
    BY <2>1 DEF OutOfRange
<1>4. /\ Trailing(At(t, p)) > 0
      /\ p + Trailing(At(t, p)) = p + n - 1 /\ 1 + Trailing(At(t, p)) = n
  <2>1. n - 1 > 0 /\ p + (n - 1) = p + n - 1 /\ 1 + (n - 1) = n
    BY SMT
  <2>2. QED
    BY <1>1, <1>2, <2>1
<1>5. QED
  BY <1>2, <1>3, <1>4, ScanCharCases DEF Takes

-----------------------------------------------------------------------------

\* The bytes of a part of a text.
LEMMA SubSeqOf ==
  ASSUME NEW s \in Strings, NEW b \in Nat, NEW n \in Nat, b \in 1..Len(s),
         b + n - 1 <= Len(s)
  PROVE  /\ SubSeq(s, b, b + n - 1) \in Seq(Byte)
         /\ Len(SubSeq(s, b, b + n - 1)) = n
         /\ \A k \in 1..n : SubSeq(s, b, b + n - 1)[k] = s[b + k - 1]
<1>1. /\ \A k \in b..b + n - 1 : s[k] \in Byte
      /\ b \in Int /\ b + n - 1 \in Int
      /\ (b + n - 1) - b + 1 = n
      /\ IF b <= b + n - 1 THEN (b + n - 1) - b + 1 = n ELSE n = 0
  BY SMT DEF Strings
<1>2. QED
  BY <1>1, SubSeqProperties

\* The receiver, at the place of a character's text, takes the character and is
\* at the place of the next.
Forwarded(s, o, f, t) ==
  /\ s \in Strings /\ o \in Strings
  /\ Written(s, Len(s) + 1, o, f)
  /\ t = Append(o, Quote)

\* Where in the forwarded text the one for a byte stands, and where it ends.
LEMMA WrittenAt ==
  ASSUME NEW s, NEW o, NEW f, NEW t, Forwarded(s, o, f, t), NEW k \in 1..Len(s)
  PROVE  /\ t \in Strings /\ Len(t) = Len(o) + 1
         /\ s[k] \in Byte
         /\ f[k] \in Nat /\ IsEscAt(t, f[k], s[k])
         /\ f[k + 1] = f[k] + Len(Esc(s[k]))
<1>1. s \in Strings /\ o \in Strings /\ Written(s, Len(s) + 1, o, f) /\ t = Append(o, Quote)
  BY DEF Forwarded
<1>2. s[k] \in Byte /\ Len(s) \in Nat /\ k \in 1..Len(s) + 1 /\ k + 1 \in 1..Len(s) + 1
      /\ (Len(s) + 1) - 1 = Len(s)
  BY <1>1, SMT DEF Strings
<1>3. /\ t \in Strings /\ Len(t) = Len(o) + 1 /\ Len(o) \in Nat
      /\ \A i \in 1..Len(o) : t[i] = o[i]
  <2>1. Quote \in Byte
    BY SMT DEF Quote, Byte
  <2>2. QED
    BY <1>1, <2>1, SMT DEF Strings
<1>4. /\ f \in [1..Len(s) + 1 -> 1..Len(o) + 1]
      /\ f[k + 1] = f[k] + Len(Esc(s[k]))
      /\ \A j \in 1..Len(Esc(s[k])) : o[f[k] + j - 1] = Esc(s[k])[j]
  BY <1>2, <1>1 DEF Written
<1>5. f[k] \in 1..Len(o) + 1 /\ f[k + 1] \in 1..Len(o) + 1
  BY <1>2, <1>4
<1>6. Len(Esc(s[k])) \in 1..6
  BY <1>2, EscBytes
<1> DEFINE m == Len(Esc(s[k]))
           p == f[k]
<1> HIDE DEF m, p
<1>7. p \in 1..Len(o) + 1 /\ p + m \in 1..Len(o) + 1 /\ m \in 1..6
  BY <1>4, <1>5, <1>6 DEF m, p
<1>8. /\ p \in Nat /\ p \in 1..Len(t) /\ p + m - 1 <= Len(t)
      /\ \A j \in 1..m : p + j - 1 \in 1..Len(o)
  BY <1>3, <1>7, SMT
<1>9. \A j \in 1..m : t[p + j - 1] = Esc(s[k])[j]
  <2>1. ASSUME NEW j \in 1..m
        PROVE  t[p + j - 1] = Esc(s[k])[j]
    <3>1. o[p + j - 1] = Esc(s[k])[j]
      BY <1>4 DEF m, p
    <3>2. t[p + j - 1] = o[p + j - 1]
      BY <1>3, <1>8
    <3>3. QED
      BY <3>1, <3>2
  <2>2. QED
    BY <2>1
<1>10. QED
  BY <1>2, <1>3, <1>4, <1>8, <1>9 DEF IsEscAt, m, p

LEMMA GotTurn ==
  ASSUME NEW s, NEW o, NEW f, NEW t, Forwarded(s, o, f, t), NEW B, Begins(s, B),
         NEW b \in B, b <= Len(s)
  PROVE  \E n \in 1..4 : /\ b + n \in B /\ b \in 1..Len(s) /\ b + n - 1 <= Len(s)
                         /\ \E length : /\ f[b + n] = f[b] + length
                                        /\ Takes(ScanChar(t, f[b]),
                                                 SubSeq(s, b, b + n - 1), length)
<1>1. PICK n \in 1..4 : CharAt(s, b, n) /\ b + n \in B
  BY DEF Begins
<1>2. b \in 1..Len(s) /\ b + n - 1 <= Len(s)
  BY <1>1 DEF CharAt
<1>3. s \in Strings /\ b \in Int /\ Len(s) \in Nat
  <2>1. s \in Strings
    BY DEF Forwarded
  <2>2. QED
    BY <1>2, <2>1, SMT DEF Strings
<1> DEFINE p == f[b]
<1>4. /\ t \in Strings /\ Len(t) = Len(o) + 1 /\ s[b] \in Byte
      /\ p \in Nat /\ IsEscAt(t, p, s[b])
      /\ f[b + 1] = p + Len(Esc(s[b]))
  BY <1>2, WrittenAt
<1>5. CASE n = 1
  <2>1. s[b] < 128
    <3>1. s[b] \in 0..127
      BY <1>1, <1>5 DEF CharAt
    <3>2. \A x \in 0..127 : x < 128
      BY SMT
    <3>3. QED
      BY <3>1, <3>2
  <2>2. Takes(ScanChar(t, p), <<s[b]>>, Len(Esc(s[b])))
    BY <1>4, <2>1, ScanAscii
  <2>3. b + n - 1 = b /\ b + n = b + 1
    BY <1>3, <1>5, SMT
  <2>4. SubSeq(s, b, b) = <<s[b]>>
    <3> DEFINE v == SubSeq(s, b, b)
    <3>1. v \in Seq(Byte) /\ Len(v) = 1 /\ v[1] = s[b]
      BY <1>2, <1>3, SMT DEF Strings
    <3>2. <<s[b]>> \in Seq(Byte) /\ Len(<<s[b]>>) = 1 /\ <<s[b]>>[1] = s[b] /\ 1..1 = {1}
      BY <1>4, SMT
    <3> HIDE DEF v
    <3>3. v = <<s[b]>>
      BY <3>1, <3>2, SeqEqual
    <3>4. QED
      BY <3>3 DEF v
  <2>5. QED
    BY <1>1, <1>2, <1>4, <2>2, <2>3, <2>4, Zenon
<1>6. CASE n \in 2..4
  <2>1. /\ Trailing(s[b]) = n - 1 /\ s[b] >= 128
        /\ \A k \in 1..n - 1 : s[b + k] \in Byte /\ s[b + k] >= 128
    BY <1>1, <1>3, <1>6, CharBytes, SMTT(30)
  <2>2. \A k \in 0..n - 1 : /\ b + k \in 1..Len(s)
                            /\ s[b + k] \in Byte /\ s[b + k] >= 128
    <3>1. ASSUME NEW k \in 0..n - 1
          PROVE  b + k \in 1..Len(s) /\ s[b + k] \in Byte /\ s[b + k] >= 128
      <4>1. b + k \in 1..Len(s)
        BY <1>2, <1>3, <1>6, SMT
      <4>2. (k = 0 /\ b + k = b) \/ k \in 1..n - 1
        BY <1>3, <1>6, SMT
      <4>3. QED
        BY <1>4, <2>1, <4>1, <4>2, Zenon
    <3>2. QED
      BY <3>1
  \* Each of its bytes is written as it is.
  <2>3. \A k \in 0..n - 1 : /\ IsEscAt(t, f[b + k], s[b + k])
                            /\ f[b + k] \in Nat
                            /\ Esc(s[b + k]) = <<s[b + k]>>
                            /\ f[(b + k) + 1] = f[b + k] + 1
    <3>1. ASSUME NEW k \in 0..n - 1
          PROVE  /\ IsEscAt(t, f[b + k], s[b + k])
                 /\ f[b + k] \in Nat
                 /\ Esc(s[b + k]) = <<s[b + k]>>
                 /\ f[(b + k) + 1] = f[b + k] + 1
      <4>1. b + k \in 1..Len(s) /\ s[b + k] \in Byte /\ s[b + k] >= 128
        BY <2>2
      <4>2. Esc(s[b + k]) = <<s[b + k]>>
        BY <4>1, LargeByte
      <4>3. /\ IsEscAt(t, f[b + k], s[b + k])
            /\ f[b + k] \in Nat
            /\ f[(b + k) + 1] = f[b + k] + Len(Esc(s[b + k]))
        BY <4>1, WrittenAt
      <4>4. Len(<<s[b + k]>>) = 1
        BY SMT
      <4>5. QED
        BY <4>2, <4>3, <4>4, Zenon
    <3>2. QED
      BY <3>1
  <2>4. \A k \in 0..n - 1 : t[f[b + k]] = s[b + k] /\ f[b + k] \in 1..Len(t)
    <3>1. ASSUME NEW k \in 0..n - 1
          PROVE  t[f[b + k]] = s[b + k] /\ f[b + k] \in 1..Len(t)
      <4> DEFINE q == f[b + k]
                 x == s[b + k]
      <4>1. IsEscAt(t, q, x) /\ Esc(x) = <<x>> /\ q \in Nat
        BY <2>3
      <4> HIDE DEF q, x
      <4>2. /\ q \in 1..Len(t)
            /\ \A j \in 1..Len(<<x>>) : t[q + j - 1] = <<x>>[j]
        BY <4>1, Zenon DEF IsEscAt
      <4>3. Len(<<x>>) = 1 /\ <<x>>[1] = x /\ 1 \in 1..1 /\ q + 1 - 1 = q
        BY <4>1, SMT
      <4>4. t[q] = x
        BY <4>2, <4>3, Zenon
      <4>5. QED
        BY <4>2, <4>4 DEF q, x
    <3>2. QED
      BY <3>1
  \* There are at most four.
  <2>5. \A k \in 0..n - 1 : f[b + k] = p + k
    <3>1. f[b + 0] = p + 0
      <4>1. b + 0 = b /\ p + 0 = p
        BY <1>3, <1>4, SMT
      <4>2. QED
        BY <4>1
    <3>2. f[b + 1] = p + 1
      <4>1. 0 \in 0..n - 1 /\ (b + 0) + 1 = b + 1 /\ (p + 0) + 1 = p + 1
        BY <1>3, <1>4, <1>6, SMT
      <4>2. f[(b + 0) + 1] = f[b + 0] + 1
        BY <2>3, <4>1
      <4>3. QED
        BY <3>1, <4>1, <4>2, Zenon
    <3>3. n > 2 => f[b + 2] = p + 2
      <4>1. n > 2 => 1 \in 0..n - 1
        BY <1>6, SMT
      <4>2. (b + 1) + 1 = b + 2 /\ (p + 1) + 1 = p + 2
        BY <1>3, <1>4, SMT
      <4>3. n > 2 => f[(b + 1) + 1] = f[b + 1] + 1
        BY <2>3, <4>1
      <4>4. QED
        BY <3>2, <4>2, <4>3, Zenon
    <3>4. n > 3 => f[b + 3] = p + 3
      <4>1. n > 3 => 2 \in 0..n - 1 /\ n > 2
        BY <1>6, SMT
      <4>2. (b + 2) + 1 = b + 3 /\ (p + 2) + 1 = p + 3
        BY <1>3, <1>4, SMT
      <4>3. n > 3 => f[(b + 2) + 1] = f[b + 2] + 1
        BY <2>3, <4>1
      <4>4. QED
        BY <3>3, <4>1, <4>2, <4>3, Zenon
    <3>5. ASSUME NEW k \in 0..n - 1
          PROVE  f[b + k] = p + k
      <4>1. k = 0 \/ k = 1 \/ (k = 2 /\ n > 2) \/ (k = 3 /\ n > 3)
        BY <1>6, SMT
      <4>2. QED
        BY <3>1, <3>2, <3>3, <3>4, <4>1, Zenon
    <3>6. QED
      BY <3>5
  <2>6. f[b + n] = p + n
    <3>1. n - 1 \in 0..n - 1 /\ (b + (n - 1)) + 1 = b + n /\ (p + (n - 1)) + 1 = p + n
      BY <1>3, <1>4, <1>6, SMT
    <3>2. f[(b + (n - 1)) + 1] = f[b + (n - 1)] + 1
      BY <2>3, <3>1
    <3>3. f[b + (n - 1)] = p + (n - 1)
      BY <2>5, <3>1
    <3>4. QED
      BY <3>1, <3>2, <3>3, Zenon
  <2>7. \A k \in 0..n - 1 : t[p + k] = s[b + k] /\ p + k \in 1..Len(t)
    BY <2>4, <2>5, Zenon
  <2> HIDE DEF p
  <2>8. p \in 1..Len(t) /\ p + n - 1 <= Len(t) /\ b \in Nat /\ n \in Nat
    <3>1. 0 \in 0..n - 1 /\ n - 1 \in 0..n - 1 /\ p + 0 = p /\ p + (n - 1) = p + n - 1
          /\ b \in Nat /\ n \in Nat
      BY <1>2, <1>4, <1>6, SMT
    <3>2. p \in 1..Len(t) /\ p + n - 1 \in 1..Len(t)
      BY <2>7, <3>1, Zenon
    <3>3. QED
      BY <1>4, <1>6, <3>1, <3>2, SMT
  <2>9. CharAt(t, p, n)
    BY <1>1, <1>3, <1>4, <2>7, <2>8, CharMoved
  <2>10. Takes(ScanChar(t, p), SubSeq(t, p, p + n - 1), n)
    BY <1>4, <1>6, <2>9, ScanMulti
  <2>11. SubSeq(t, p, p + n - 1) = SubSeq(s, b, b + n - 1)
    <3> DEFINE v == SubSeq(t, p, p + n - 1)
               w == SubSeq(s, b, b + n - 1)
    <3>1. /\ v \in Seq(Byte) /\ Len(v) = n
          /\ \A k \in 1..n : v[k] = t[p + k - 1]
      BY <1>4, <1>6, <2>8, SubSeqOf, ZenonT(60)
    <3>2. /\ w \in Seq(Byte) /\ Len(w) = n
          /\ \A k \in 1..n : w[k] = s[b + k - 1]
      BY <1>2, <1>3, <1>6, <2>8, SubSeqOf
    <3>3. \A k \in 1..n : t[p + k - 1] = s[b + k - 1]
      <4>1. ASSUME NEW k \in 1..n
            PROVE  t[p + k - 1] = s[b + k - 1]
        <5>1. k - 1 \in 0..n - 1 /\ p + (k - 1) = p + k - 1 /\ b + (k - 1) = b + k - 1
          BY <1>3, <1>4, <1>6, SMT
        <5>2. QED
          BY <2>7, <5>1, Zenon
      <4>2. QED
        BY <4>1
    <3> HIDE DEF v, w
    <3>4. v = w
      BY <3>1, <3>2, <3>3, SeqEqual
    <3>5. QED
      BY <3>4 DEF v, w
  <2>12. QED
    BY <1>1, <1>2, <2>6, <2>10, <2>11, Zenon DEF p
<1>7. n = 1 \/ n \in 2..4
  BY SMT
<1>8. QED
  BY <1>5, <1>6, <1>7, Zenon

-----------------------------------------------------------------------------
\* The inductive invariant.
ScanForm(scan) ==
  /\ scan = [next |-> scan.next, buffer |-> scan.buffer, token |-> scan.token]
  /\ scan.next \in Nat \ {0} /\ scan.buffer \in Strings /\ scan.token \in ScanTokens

\* The forms of the variables.
FormInv ==
  /\ received \in Texts /\ Texts \subseteq Strings
  /\ ScanForm(read) /\ ScanForm(got)
  /\ index \in 1..Len(read.buffer) + 1
  /\ DumpForm(dump)
  /\ sent \in Strings

\* What the server has read, and that it does not write before it has.
ReadInv ==
  /\ IsUtf8(read.buffer)
  /\ read.token # "value_string" => index = 1 /\ dump = DumpStart /\ sent = <<>>

\* While it writes.
DumpInv ==
  /\ PlainText(dump.output \o dump.buffer)
  /\ sent = <<>> =>
       /\ got = ScanStart
       /\ \E B : Begins(read.buffer, B) /\ DumpPlace(read.buffer, B, index, dump)
       /\ \E f : Written(read.buffer, index, dump.output \o dump.buffer, f)

\* While the receiver reads t: it is at the text of a character and has those
\* before it, or it has the string.
GotPlace(s, B, f, t, scan) ==
  \/ /\ scan.token = ""
     /\ \E b \in B : scan.next = f[b] /\ scan.buffer = SubSeq(s, 1, b - 1)
  \/ scan.token = "value_string" /\ scan.buffer = s /\ scan.next = Len(t) + 1

\* While the receiver reads.
GotInv ==
  sent # <<>> =>
    /\ dump.state = "accept" /\ dump.buffer = <<>>
    /\ \E f : /\ Forwarded(read.buffer, dump.output, f, sent)
              /\ \E B : Begins(read.buffer, B) /\ GotPlace(read.buffer, B, f, sent, got)

\* The inductive invariant.
StringsInv == FormInv /\ ReadInv /\ DumpInv /\ GotInv

\* The variables that both loops start with.
LEMMA StartsForm ==
  /\ ScanForm(ScanStart) /\ DumpForm(DumpStart)
  /\ ScanStart.next = 1 /\ ScanStart.buffer = <<>> /\ ScanStart.token = ""
  /\ DumpStart.state = "accept" /\ DumpStart.buffer = <<>> /\ DumpStart.output = <<>>
  /\ DumpStart.output \o DumpStart.buffer = <<>>
<1>1. <<>> \in Strings /\ <<>> \o <<>> = <<>>
  BY SMT DEF Strings
<1>2. /\ ScanStart = [next |-> 1, buffer |-> <<>>, token |-> ""]
      /\ DumpStart = [state |-> "accept", codepoint |-> 0, buffer |-> <<>>, output |-> <<>>]
  BY DEF ScanStart, DumpStart
<1>3. /\ ScanStart.next = 1 /\ ScanStart.buffer = <<>> /\ ScanStart.token = ""
      /\ DumpStart.state = "accept" /\ DumpStart.buffer = <<>> /\ DumpStart.output = <<>>
      /\ DumpStart.codepoint = 0
  BY <1>2
<1>4. 1 \in Nat \ {0} /\ 0 \in Nat
  BY SMT
<1>5. QED
  BY <1>1, <1>2, <1>3, <1>4 DEF ScanForm, DumpForm, ScanTokens, DecodeStates

\* Where dump_escaped begins, whatever it has to write.
LEMMA PlaceStart ==
  ASSUME NEW s, IsUtf8(s)
  PROVE  \E B : Begins(s, B) /\ DumpPlace(s, B, 1, DumpStart)
<1>1. PICK B : Begins(s, B)
  BY DEF IsUtf8
<1>2. 1 \in B
  BY <1>1 DEF Begins
<1>3. 1 <= 1 /\ Len(<<>>) + 13 <= BufferSize + (1 - 1)
  BY BufferAssumption, SMT
<1>4. DumpPlace(s, B, 1, DumpStart)
  BY <1>2, <1>3, StartsForm, Zenon DEF DumpPlace
<1>5. QED
  BY <1>1, <1>4

\* At the end of a string no character is incomplete.
LEMMA PlaceEnd ==
  ASSUME NEW s \in Strings, NEW B, Begins(s, B), NEW d, DumpPlace(s, B, Len(s) + 1, d)
  PROVE  d.state = "accept"
<1>1. PICK b \in B :
        \/ d.state = "accept"
        \/ \E n \in 2..4 : b + n \in B /\ Len(s) + 1 \in b + 1..b + n - 1
  BY DEF DumpPlace
<1>2. ASSUME NEW n \in 2..4, b + n \in B, Len(s) + 1 \in b + 1..b + n - 1
      PROVE  FALSE
  <2>1. b \in 1..Len(s) + 1 /\ b + n \in 1..Len(s) + 1 /\ Len(s) \in Nat
    BY <1>2, SMT DEF Begins, Strings
  <2>2. QED
    BY <1>2, <2>1, SMT
<1>3. QED
  BY <1>1, <1>2

\* A turn of scan_string, in terms of its fields.
LEMMA ScanStepForm ==
  ASSUME NEW t \in Strings, NEW scan, ScanForm(scan)
  PROVE  LET char == ScanChar(t, scan.next)
             next == ScanStep(t, scan)
         IN /\ ScanForm(next) /\ IsTurn(char)
            /\ next.next = scan.next + char.length
            /\ next.buffer = scan.buffer \o char.value
            /\ next.token = char.ends
            /\ scan.buffer \o <<>> = scan.buffer
<1> DEFINE char == ScanChar(t, scan.next)
           next == ScanStep(t, scan)
<1>1. scan.next \in Nat \ {0} /\ scan.buffer \in Strings
  BY DEF ScanForm
<1>2. IsTurn(char)
  BY <1>1, ScanCharForm
<1>3. char.ends \in ScanTokens /\ char.length \in Nat /\ char.value \in Strings
  <2>1. <<>> \in Strings
    BY SMT DEF Strings
  <2>2. QED
    BY <1>2, <2>1 DEF IsTurn
<1>4. next = [next |-> scan.next + char.length, buffer |-> scan.buffer \o char.value,
              token |-> char.ends]
  BY DEF ScanStep
<1> HIDE DEF char, next
<1>5. /\ next.next = scan.next + char.length
      /\ next.buffer = scan.buffer \o char.value
      /\ next.token = char.ends
      /\ next = [next |-> next.next, buffer |-> next.buffer, token |-> next.token]
  BY <1>4
<1>6. scan.next + char.length \in Nat \ {0}
  BY <1>1, <1>3, SMT
<1>7. scan.buffer \o char.value \in Strings /\ scan.buffer \o <<>> = scan.buffer
  BY <1>1, <1>3, SMT DEF Strings
<1>8. ScanForm(next)
  BY <1>3, <1>5, <1>6, <1>7, Zenon DEF ScanForm
<1>9. QED
  BY <1>2, <1>5, <1>7, <1>8 DEF char, next

-----------------------------------------------------------------------------
\* The steps.  Before the first, nothing is read or written.
LEMMA InitInv ==
  ASSUME StringsInit
  PROVE  StringsInv
<1>1. received \in Texts /\ read = ScanStart /\ index = 1 /\ dump = DumpStart
      /\ sent = <<>> /\ got = ScanStart
  BY DEF StringsInit
<1>2. Texts \subseteq Strings
  BY TextsAssumption DEF Strings, Byte
<1>3. <<>> \in Strings /\ 1 \in 1..Len(<<>>) + 1
  BY SMT DEF Strings
<1>4. FormInv
  BY <1>1, <1>2, <1>3, StartsForm DEF FormInv
<1>5. ReadInv
  BY <1>1, EmptyIsUtf8, StartsForm DEF ReadInv
<1>6. DumpInv
  <2>1. \E B : Begins(read.buffer, B) /\ DumpPlace(read.buffer, B, index, dump)
    BY <1>1, StartsForm, EmptyIsUtf8, PlaceStart
  <2>2. Written(read.buffer, 1, <<>>, [k \in 1..1 |-> 1]) /\ PlainText(<<>>)
    BY WrittenStart
  <2>3. QED
    BY <1>1, <2>1, <2>2, StartsForm, Zenon DEF DumpInv
<1>7. GotInv
  BY <1>1 DEF GotInv
<1>8. QED
  BY <1>4, <1>5, <1>6, <1>7 DEF StringsInv

\* The server reads a character more.
LEMMA ReadStep ==
  ASSUME StringsInv, Read
  PROVE  StringsInv'
<1>1. /\ read.token = "" /\ read' = ScanStep(received, read)
      /\ received' = received /\ index' = index /\ dump' = dump /\ sent' = sent /\ got' = got
  BY DEF Read
<1>2. /\ received \in Strings /\ ScanForm(read) /\ ScanForm(got) /\ received \in Texts
      /\ DumpForm(dump) /\ sent \in Strings /\ Texts \subseteq Strings
  BY DEF StringsInv, FormInv
<1>3. /\ ScanForm(read') /\ IsTurn(ScanChar(received, read.next))
      /\ read'.buffer = read.buffer \o ScanChar(received, read.next).value
      /\ read'.token = ScanChar(received, read.next).ends
      /\ read.buffer \o <<>> = read.buffer
  BY <1>1, <1>2, ScanStepForm
<1>4. IsUtf8(read.buffer) /\ index = 1 /\ dump = DumpStart /\ sent = <<>>
  BY <1>1 DEF StringsInv, ReadInv
<1>5. IsUtf8(read'.buffer)
  <2>1. CASE ScanChar(received, read.next).ends = ""
    <3>1. /\ ScanChar(received, read.next).value \in Strings
          /\ CharAt(ScanChar(received, read.next).value, 1, Len(ScanChar(received, read.next).value))
      BY <1>3, <2>1 DEF IsTurn
    <3>2. read.buffer \in Strings
      BY <1>2 DEF ScanForm
    <3>3. QED
      BY <1>3, <1>4, <3>1, <3>2, AppendCharacter
  <2>2. CASE ScanChar(received, read.next).ends # ""
    BY <1>3, <1>4, <2>2 DEF IsTurn
  <2>3. QED
    BY <2>1, <2>2
<1>6. 1 \in 1..Len(read'.buffer) + 1
  <2>1. read'.buffer \in Strings
    BY <1>3 DEF ScanForm
  <2>2. QED
    BY <2>1, SMT DEF Strings
<1>7. FormInv'
  BY <1>1, <1>2, <1>3, <1>4, <1>6 DEF FormInv
<1>8. ReadInv'
  BY <1>1, <1>4, <1>5 DEF ReadInv
<1>9. DumpInv'
  <2>1. \E B : Begins(read'.buffer, B) /\ DumpPlace(read'.buffer, B, 1, DumpStart)
    BY <1>5, PlaceStart
  <2>2. Written(read'.buffer, 1, <<>>, [k \in 1..1 |-> 1]) /\ PlainText(<<>>)
    BY WrittenStart
  <2>3. got = ScanStart
    BY <1>4 DEF StringsInv, DumpInv
  <2>4. QED
    BY <1>1, <1>4, <2>1, <2>2, <2>3, StartsForm, Zenon DEF DumpInv
<1>10. GotInv'
  BY <1>1, <1>4 DEF GotInv
<1>11. QED
  BY <1>7, <1>8, <1>9, <1>10 DEF StringsInv

\* dump_escaped writes a byte more: none is rejected.
LEMMA DumpStep ==
  ASSUME StringsInv, Write
  PROVE  StringsInv'
<1> DEFINE s == read.buffer
           o == dump.output \o dump.buffer
<1>1. /\ read.token = "value_string" /\ sent = <<>> /\ index <= Len(s)
      /\ dump' = DumpByte(dump, s[index]) /\ index' = index + 1
      /\ received' = received /\ read' = read /\ sent' = sent /\ got' = got
  BY DEF Write, Writing
<1>2. /\ received \in Texts /\ Texts \subseteq Strings /\ ScanForm(read) /\ ScanForm(got)
      /\ DumpForm(dump) /\ sent \in Strings /\ index \in 1..Len(s) + 1
  BY DEF StringsInv, FormInv
<1>3. s \in Strings /\ dump.output \in Strings /\ dump.buffer \in Strings
  BY <1>2 DEF ScanForm, DumpForm
<1>4. index \in 1..Len(s) /\ index + 1 \in 1..Len(s) + 1 /\ o \in Strings
  BY <1>1, <1>2, <1>3, SMT DEF Strings
<1>5. PICK B : Begins(s, B) /\ DumpPlace(s, B, index, dump)
  BY <1>1 DEF StringsInv, DumpInv
<1>6. PICK f : Written(s, index, o, f)
  BY <1>1 DEF StringsInv, DumpInv
<1>7. PlainText(o) /\ got = ScanStart
  BY <1>1 DEF StringsInv, DumpInv
<1>8. /\ DumpForm(dump')
      /\ DumpPlace(s, B, index + 1, dump')
      /\ dump'.output \o dump'.buffer = o \o Esc(s[index])
  <2>1. /\ DumpForm(DumpByte(dump, s[index]))
        /\ DumpPlace(s, B, index + 1, DumpByte(dump, s[index]))
        /\ DumpByte(dump, s[index]).output \o DumpByte(dump, s[index]).buffer
             = o \o Esc(s[index])
    <3> HIDE DEF s
    <3>1. QED
      BY <1>2, <1>3, <1>4, <1>5, DumpTurn, Zenon
  <2>2. QED
    BY <1>1, <2>1, Zenon
<1>9. /\ \E g : Written(s, index + 1, o \o Esc(s[index]), g)
      /\ PlainText(o \o Esc(s[index]))
  BY <1>3, <1>4, <1>6, <1>7, WrittenMore
<1>10. FormInv'
  BY <1>1, <1>2, <1>4, <1>8 DEF FormInv
<1>11. ReadInv'
  BY <1>1 DEF StringsInv, ReadInv
<1>12. DumpInv'
  BY <1>1, <1>5, <1>7, <1>8, <1>9, Zenon DEF DumpInv
<1>13. GotInv'
  BY <1>1 DEF GotInv
<1>14. QED
  BY <1>10, <1>11, <1>12, <1>13 DEF StringsInv

\* dump_escaped has taken every character whole, and writes the buffer and the quote.
LEMMA SendStep ==
  ASSUME StringsInv, Send
  PROVE  StringsInv'
<1> DEFINE s == read.buffer
           o == dump.output \o dump.buffer
<1>1. /\ read.token = "value_string" /\ sent = <<>> /\ index > Len(s)
      /\ dump' = DumpEnd(dump)
      /\ sent' = IF dump'.state = "accept" THEN Append(dump'.output, Quote) ELSE sent
      /\ received' = received /\ read' = read /\ index' = index /\ got' = got
  BY DEF Send, Writing
<1>2. /\ received \in Texts /\ Texts \subseteq Strings /\ ScanForm(read) /\ ScanForm(got)
      /\ DumpForm(dump) /\ sent \in Strings /\ index \in 1..Len(s) + 1
  BY DEF StringsInv, FormInv
<1>3. s \in Strings /\ dump.output \in Strings /\ dump.buffer \in Strings
  BY <1>2 DEF ScanForm, DumpForm
<1>4. index = Len(s) + 1 /\ Len(s) \in Nat
  <2> DEFINE n == Len(s)
             i == index
  <2>1. n \in Nat
    BY <1>3, SMT DEF Strings
  <2>2. i \in 1..n + 1 /\ i > n
    BY <1>1, <1>2
  <2> HIDE DEF n, i
  <2>3. i = n + 1
    BY <2>1, <2>2, SMT
  <2>4. QED
    BY <2>1, <2>3 DEF n, i
<1>5. PICK B : Begins(s, B) /\ DumpPlace(s, B, index, dump)
  BY <1>1 DEF StringsInv, DumpInv
<1>6. PICK f : Written(s, index, o, f)
  BY <1>1 DEF StringsInv, DumpInv
<1>7. PlainText(o) /\ got = ScanStart
  BY <1>1 DEF StringsInv, DumpInv
<1>8. dump.state = "accept"
  BY <1>3, <1>4, <1>5, PlaceEnd
<1>9. /\ o \in Strings /\ <<>> \in Strings /\ o \o <<>> = o
      /\ Append(o, Quote) \in Strings /\ Append(o, Quote) # <<>>
  <2>1. Quote \in Byte
    BY SMT DEF Quote, Byte
  <2>2. o \in Strings /\ <<>> \in Strings
    BY <1>3, SMT DEF Strings
  <2> HIDE DEF o
  <2>3. o \in Seq(Byte)
    BY <2>2 DEF Strings
  <2>4. o \o <<>> = o
    BY <2>3, ConcatEmptySeq
  <2>5. Append(o, Quote) \in Seq(Byte) /\ Append(o, Quote) # <<>>
    BY <2>1, <2>3, AppendProperties
  <2>6. QED
    BY <2>2, <2>4, <2>5 DEF Strings
<1>10. /\ dump' = [dump EXCEPT !.buffer = <<>>, !.output = o]
       /\ dump = [state |-> dump.state, codepoint |-> dump.codepoint,
                  buffer |-> dump.buffer, output |-> dump.output]
  BY <1>1, <1>2, <1>8 DEF DumpEnd, DumpForm
<1>11. /\ dump' = [state |-> dump'.state, codepoint |-> dump'.codepoint,
                   buffer |-> dump'.buffer, output |-> dump'.output]
       /\ dump'.state = dump.state /\ dump'.codepoint = dump.codepoint
       /\ dump'.buffer = <<>> /\ dump'.output = o
  <2> DEFINE d == [state |-> dump.state, codepoint |-> dump.codepoint,
                   buffer |-> <<>>, output |-> o]
  <2>1. dump' = d
    BY <1>10
  <2>2. QED
    BY <2>1
<1>12. DumpForm(dump')
  BY <1>2, <1>9, <1>11, Zenon DEF DumpForm
<1>13. sent' = Append(o, Quote) /\ sent' \in Strings /\ sent' # <<>>
  BY <1>1, <1>8, <1>9, <1>11
<1>14. FormInv'
  BY <1>1, <1>2, <1>12, <1>13 DEF FormInv
<1>15. ReadInv'
  BY <1>1 DEF StringsInv, ReadInv
<1>16. DumpInv'
  BY <1>7, <1>9, <1>11, <1>13, Zenon DEF DumpInv
<1>17. GotInv'
  <2>1. Forwarded(s, o, f, sent')
    BY <1>3, <1>4, <1>6, <1>9, <1>13, Zenon DEF Forwarded
  <2>2. GotPlace(s, B, f, sent', got)
    <3>1. f[1] = 1 /\ 1 \in B
      BY <1>5, <1>6 DEF Written, Begins
    <3>2. SubSeq(s, 1, 1 - 1) = <<>>
      <4>1. 1 \in Int /\ 1 - 1 \in Int /\ 1 - 1 < 1
        BY SMT
      <4>2. QED
        BY <4>1, SubSeqEmpty
    <3>3. QED
      BY <1>7, <3>1, <3>2, StartsForm, Zenon DEF GotPlace
  <2>3. QED
    BY <1>1, <1>5, <1>8, <1>11, <2>1, <2>2, Zenon DEF GotInv
<1>18. QED
  BY <1>14, <1>15, <1>16, <1>17 DEF StringsInv

\* The receiver reads back the next character, or the quote at the end.
LEMMA GetStep ==
  ASSUME StringsInv, Get
  PROVE  StringsInv'
<1> DEFINE s == read.buffer
           o == dump.output
           char == ScanChar(sent, got.next)
<1>1. /\ sent # <<>> /\ got.token = "" /\ got' = ScanStep(sent, got)
      /\ received' = received /\ read' = read /\ index' = index /\ dump' = dump /\ sent' = sent
  BY DEF Get
<1>2. /\ received \in Texts /\ Texts \subseteq Strings /\ ScanForm(read) /\ ScanForm(got)
      /\ DumpForm(dump) /\ sent \in Strings /\ index \in 1..Len(s) + 1
  BY DEF StringsInv, FormInv
<1>3. /\ ScanForm(got')
      /\ got'.next = got.next + char.length
      /\ got'.buffer = got.buffer \o char.value
      /\ got'.token = char.ends
  BY <1>1, <1>2, ScanStepForm
<1>4. PICK f, B : /\ Forwarded(s, o, f, sent)
                  /\ Begins(s, B) /\ GotPlace(s, B, f, sent, got)
  BY <1>1 DEF StringsInv, GotInv
<1>5. dump.state = "accept" /\ dump.buffer = <<>>
  BY <1>1 DEF StringsInv, GotInv
<1>6. PICK b \in B : got.next = f[b] /\ got.buffer = SubSeq(s, 1, b - 1)
  BY <1>1, <1>4 DEF GotPlace
<1>7. /\ s \in Strings /\ o \in Strings /\ Len(s) \in Nat /\ b \in 1..Len(s) + 1
      /\ Written(s, Len(s) + 1, o, f) /\ sent = Append(o, Quote)
  <2>1. s \in Strings /\ o \in Strings /\ Written(s, Len(s) + 1, o, f) /\ sent = Append(o, Quote)
    BY <1>4 DEF Forwarded
  <2>2. b \in 1..Len(s) + 1
    BY <1>4 DEF Begins
  <2>3. Len(s) \in Nat
    BY <2>1, SMT DEF Strings
  <2>4. QED
    BY <2>1, <2>2, <2>3
<1> HIDE DEF s, o, char
<1>8. GotPlace(s, B, f, sent, got')
  <2>1. CASE b <= Len(s)
    <3>1. PICK n \in 1..4 :
            /\ b + n \in B /\ b \in 1..Len(s) /\ b + n - 1 <= Len(s)
            /\ \E length : /\ f[b + n] = f[b] + length
                           /\ Takes(ScanChar(sent, f[b]), SubSeq(s, b, b + n - 1), length)
      BY <1>4, <1>6, <2>1, GotTurn
    <3>2. PICK length : /\ f[b + n] = f[b] + length
                        /\ Takes(char, SubSeq(s, b, b + n - 1), length)
      BY <1>6, <3>1 DEF char
    <3>3. /\ got'.next = f[b + n] /\ got'.token = ""
          /\ got'.buffer = SubSeq(s, 1, b - 1) \o SubSeq(s, b, b + n - 1)
      BY <1>3, <1>6, <3>2 DEF Takes
    <3>4. SubSeq(s, 1, b - 1) \o SubSeq(s, b, b + n - 1) = SubSeq(s, 1, b + n - 1)
      <4>1. /\ s \in Seq(Byte) /\ 1 \in 1..Len(s) + 1 /\ b - 1 \in 1 - 1..Len(s)
            /\ b + n - 1 \in b - 1..Len(s) /\ (b - 1) + 1 = b
        BY <1>7, <3>1, SMT DEF Strings
      <4>2. SubSeq(s, 1, b - 1) \o SubSeq(s, (b - 1) + 1, b + n - 1)
              = SubSeq(s, 1, b + n - 1)
        BY <4>1, ConcatAdjacentSubSeq
      <4>3. QED
        BY <4>1, <4>2
    <3>5. (b + n) - 1 = b + n - 1
      BY <1>7, <3>1, SMT
    <3>6. got'.buffer = SubSeq(s, 1, (b + n) - 1)
      BY <3>3, <3>4, <3>5
    <3>7. b + n \in B
      BY <3>1
    <3>8. QED
      BY <3>3, <3>6, <3>7, Zenon DEF GotPlace
  <2>2. CASE b = Len(s) + 1
    <3>1. got.next = Len(o) + 1
      BY <1>6, <1>7, <2>2 DEF Written
    <3>2. At(sent, got.next) = Quote /\ Len(sent) = Len(o) + 1
      <4>1. Quote \in Byte
        BY SMT DEF Quote, Byte
      <4>2. /\ Len(sent) = Len(o) + 1 /\ sent[Len(o) + 1] = Quote
            /\ Len(o) + 1 \in 1..Len(sent)
        BY <1>7, <4>1, SMT DEF Strings
      <4>3. QED
        BY <1>2, <3>1, <4>2, AtPlace
    <3>3. got.next \in Nat \ {0}
      BY <1>2 DEF ScanForm
    <3>4. char.ends = "value_string" /\ char.value = <<>> /\ char.length = 1
      BY <1>2, <3>2, <3>3, ScanCharCases DEF char
    <3>5. got'.next = Len(sent) + 1 /\ got'.token = "value_string"
          /\ got'.buffer = got.buffer \o <<>>
      BY <1>3, <3>1, <3>2, <3>4
    <3>6. got.buffer \o <<>> = s
      <4>1. b - 1 = Len(s) /\ s \in Seq(Byte)
        BY <1>7, <2>2, SMT DEF Strings
      <4>2. got.buffer = s
        BY <1>6, <4>1, SubSeqFull
      <4>3. QED
        BY <4>1, <4>2, ConcatEmptySeq
    <3>7. QED
      BY <3>5, <3>6 DEF GotPlace
  <2>3. b <= Len(s) \/ b = Len(s) + 1
    BY <1>7, SMT
  <2>4. QED
    BY <2>1, <2>2, <2>3
<1>9. FormInv'
  BY <1>1, <1>2, <1>3 DEF FormInv, s
<1>10. ReadInv'
  BY <1>1 DEF StringsInv, ReadInv
<1>11. DumpInv'
  BY <1>1 DEF StringsInv, DumpInv
<1>12. GotInv'
  BY <1>1, <1>4, <1>5, <1>8, Zenon DEF GotInv, s, o
<1>13. QED
  BY <1>9, <1>10, <1>11, <1>12 DEF StringsInv

\* No step leaves the inductive invariant.
LEMMA InvStep ==
  ASSUME StringsInv, [StringsNext]_stringVars
  PROVE  StringsInv'
<1>1. CASE UNCHANGED stringVars
  BY <1>1 DEF stringVars, StringsInv, FormInv, ReadInv, DumpInv, GotInv
<1>2. QED
  BY <1>1, ReadStep, DumpStep, SendStep, GetStep DEF StringsNext

-----------------------------------------------------------------------------
\* What follows from the invariant.

\* Every state the three loops reach satisfies the inductive invariant.
LEMMA InvHolds == StringsSpec => []StringsInv
<1>1. StringsInit => StringsInv
  BY InitInv
<1>2. StringsInv /\ [StringsNext]_stringVars => StringsInv'
  BY InvStep
<1>3. QED
  BY <1>1, <1>2, PTL DEF StringsSpec

\* The forms of the variables are the types of the type invariant.
LEMMA InvTypes ==
  ASSUME StringsInv
  PROVE  StringsTypeOK
<1>1. Strings = Seq(0..255)
  BY DEF Strings, Byte
<1>2. ASSUME NEW scan, ScanForm(scan)
      PROVE  scan \in Scans
  <2> DEFINE next == scan.next
             buffer == scan.buffer
             token == scan.token
  <2>1. scan = [next |-> next, buffer |-> buffer, token |-> token]
        /\ next \in Nat \ {0} /\ buffer \in Strings /\ token \in ScanTokens
    BY <1>2 DEF ScanForm
  <2> HIDE DEF next, buffer, token
  <2>2. [next |-> next, buffer |-> buffer, token |-> token]
          \in [next : Nat \ {0}, buffer : Strings, token : ScanTokens]
    BY <2>1
  <2>3. QED
    BY <1>1, <2>1, <2>2, Zenon DEF Scans
<1>3. ASSUME NEW d, DumpForm(d)
      PROVE  d \in [state : DecodeStates, codepoint : Nat,
                    buffer : Seq(0..255), output : Seq(0..255)]
  <2> DEFINE state == d.state
             codepoint == d.codepoint
             buffer == d.buffer
             output == d.output
  <2>1. /\ d = [state |-> state, codepoint |-> codepoint, buffer |-> buffer,
                output |-> output]
        /\ state \in DecodeStates /\ codepoint \in Nat
        /\ buffer \in Strings /\ output \in Strings
    BY <1>3 DEF DumpForm
  <2> HIDE DEF state, codepoint, buffer, output
  <2>2. [state |-> state, codepoint |-> codepoint, buffer |-> buffer, output |-> output]
          \in [state : DecodeStates, codepoint : Nat, buffer : Strings, output : Strings]
    BY <2>1
  <2>3. QED
    BY <1>1, <2>1, <2>2, Zenon
<1>4. QED
  BY <1>1, <1>2, <1>3, ZenonT(60) DEF StringsInv, FormInv, StringsTypeOK

\* The room that is left when a character begins covers its bytes and an escape.
LEMMA InvFits ==
  ASSUME StringsInv
  PROVE  BufferFits
<1>1. /\ DumpForm(dump) /\ BufferSize \in Nat /\ BufferSize >= 13
      /\ index \in 1..Len(read.buffer) + 1
  BY BufferAssumption DEF StringsInv, FormInv
<1>2. CASE sent # <<>>
  <2>1. dump.buffer = <<>>
    BY <1>2 DEF StringsInv, GotInv
  <2>2. Len(<<>>) + 7 <= BufferSize /\ Len(<<>>) + 1 <= BufferSize
    BY <1>1, SMT
  <2>3. QED
    BY <2>1, <2>2, Zenon DEF BufferFits
<1>3. CASE sent = <<>>
  <2>1. PICK B : /\ Begins(read.buffer, B)
                 /\ DumpPlace(read.buffer, B, index, dump)
    BY <1>3 DEF StringsInv, DumpInv
  <2>2. PICK b \in B :
          /\ b <= index
          /\ Len(dump.buffer) + 13 <= BufferSize + (index - b)
          /\ \/ index = b /\ dump.state = "accept"
             \/ \E n \in 2..4 : /\ index \in b + 1..b + n - 1
                                /\ dump.state = After(read.buffer[b], index - b)
    BY <2>1 DEF DumpPlace
  <2>3. /\ read.buffer \in Strings /\ Len(read.buffer) \in Nat
        /\ dump.buffer \in Strings /\ Len(dump.buffer) \in Nat
    <3>1. read.buffer \in Strings /\ dump.buffer \in Strings
      BY <1>1 DEF StringsInv, FormInv, ScanForm, DumpForm
    <3>2. QED
      BY <3>1, SMT DEF Strings
  <2>4. b \in Int /\ index \in Int
    BY <1>1, <2>1, <2>3, SMT DEF Begins
  <2>5. CASE index = b /\ dump.state = "accept"
    <3>1. Len(dump.buffer) + 7 <= BufferSize
      BY <1>1, <2>2, <2>3, <2>4, <2>5, SMT
    <3>2. QED
      BY <2>5, <3>1, Zenon DEF BufferFits
  <2>6. ASSUME NEW n \in 2..4, index \in b + 1..b + n - 1,
               dump.state = After(read.buffer[b], index - b)
        PROVE  BufferFits
    <3>1. dump.state # "accept"
      BY <2>6, AfterForm
    <3>2. Len(dump.buffer) + 1 <= BufferSize
      <4> DEFINE used == Len(dump.buffer)
                 at == index
      <4>1. /\ used \in Nat /\ BufferSize \in Nat /\ b \in Int /\ at \in Int
            /\ used + 13 <= BufferSize + (at - b) /\ at \in b + 1..b + n - 1
        BY <1>1, <2>2, <2>3, <2>4, <2>6
      <4> HIDE DEF used, at
      <4>2. at - b <= 3
        BY <4>1, SMT
      <4>3. used + 1 <= BufferSize
        BY <4>1, <4>2, SMT
      <4>4. QED
        BY <4>3 DEF used
    <3>3. QED
      BY <3>1, <3>2, Zenon DEF BufferFits
  <2>7. QED
    BY <2>2, <2>5, <2>6
<1>4. QED
  BY <1>2, <1>3

\* Wherever the receiver is, it reports no error, and at its end it has the string.
LEMMA InvArrives ==
  ASSUME StringsInv
  PROVE  StringArrives
<1>1. CASE sent = <<>>
  <2>1. got.token = ""
    BY <1>1, StartsForm DEF StringsInv, DumpInv
  <2>2. QED
    BY <2>1 DEF StringArrives
<1>2. CASE sent # <<>>
  <2>1. PICK f, B : GotPlace(read.buffer, B, f, sent, got)
    BY <1>2 DEF StringsInv, GotInv
  <2>2. \/ got.token = ""
        \/ got.token = "value_string" /\ got.buffer = read.buffer
           /\ got.next = Len(sent) + 1
    BY <2>1, Zenon DEF GotPlace
  <2>3. QED
    BY <2>2 DEF StringArrives
<1>3. QED
  BY <1>1, <1>2

\* The three loops keep to their types, whatever bytes a client sends: the places
\* they read are in the texts, and only bytes are written.
THEOREM StringsTypeCorrect == StringsSpec => []StringsTypeOK
<1>1. StringsInv => StringsTypeOK
  BY InvTypes
<1>2. QED
  BY <1>1, InvHolds, PTL

\* dump_escaped never throws for a string the server has parsed: scan_string takes
\* no byte that the serializer's table of UTF-8 rejects, in texts of every length.
THEOREM NeverThrowsCorrect == StringsSpec => []NeverThrows
<1>1. StringsInv => NeverThrows
  BY DEF StringsInv, FormInv, DumpForm, NeverThrows
<1>2. QED
  BY <1>1, InvHolds, PTL

\* No control character is in what dump_escaped writes, so that neither strlen nor
\* printf's %s finds an end of the text before its end.
THEOREM WritesPlainCorrect == StringsSpec => []WritesPlain
<1>1. StringsInv => WritesPlain
  BY DEF StringsInv, DumpInv, PlainText, WritesPlain
<1>2. QED
  BY <1>1, InvHolds, PTL

\* string_buffer never overflows, for every size of at least thirteen bytes: the
\* thirteen that are kept free cover a code point and the longest escape.
THEOREM BufferFitsCorrect == StringsSpec => []BufferFits
<1>1. StringsInv => BufferFits
  BY InvFits
<1>2. QED
  BY <1>1, InvHolds, PTL

\* The receiver's scan_string reads back the string that the server's read, and
\* ends with the quote that the server wrote last.
THEOREM StringArrivesCorrect == StringsSpec => []StringArrives
<1>1. StringsInv => StringArrives
  BY InvArrives
<1>2. QED
  BY <1>1, InvHolds, PTL
=============================================================================
