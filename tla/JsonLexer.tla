----------------------------- MODULE JsonLexer -----------------------------
(***************************************************************************)
(* The lexer of include/common/json.hpp: bytes to tokens.                  *)
(*                                                                         *)
(* Bytes are numbers.  Integers have Bits bits instead of 64.  A number    *)
(* that is no integer is a float, of which nothing is kept (the chat's     *)
(* messages have none) but whether it is finite.                           *)
(***************************************************************************)
EXTENDS JsonChars

CONSTANTS
  Bits,      \* the width of number_integer_t and number_unsigned_t
  Decimals   \* floats are finite below 10 ^ Decimals, instead of about 10 ^ 308

ASSUME LexerAssumption == Bits \in Nat \ {0} /\ Decimals \in Nat

-----------------------------------------------------------------------------
\* Tokens.  A token has a type, a value, its place, and the position after it.  The
\* place of an error is the byte that was not expected: one after the last if
\* more bytes might have made it right.

Token(type, value, at, next) ==
  [type |-> type, value |-> value, at |-> at, next |-> next]
ParseError(at) == Token("parse_error", <<>>, at, at)

\* scan_string from i on, after an opening quote at `at`; `buffer` has been added.
RECURSIVE ScanString(_, _, _, _)
ScanString(bytes, at, i, buffer) ==
  LET char == ScanChar(bytes, i)
  IN CASE char.ends = "value_string" -> Token("value_string", buffer, at, i + 1)
       [] char.ends = "parse_error" -> ParseError(char.at)
       [] OTHER -> ScanString(bytes, at, i + char.length, buffer \o char.value)

\* Mutation: leading zeros.
NumberStepZeros(state, c) ==
  CASE state = "minus" /\ c \in Digits -> "any1"
    [] state \in {"zero", "any1"} /\ c \in Digits -> "any1"
    [] state \in {"zero", "any1"} /\ c = 46 -> "decimal1"
    [] state \in {"zero", "any1", "decimal2"} /\ c \in {69, 101} -> "exponent"
    [] state \in {"decimal1", "decimal2"} /\ c \in Digits -> "decimal2"
    [] state = "exponent" /\ c \in {43, Minus} -> "sign"
    [] state \in {"exponent", "sign", "any2"} /\ c \in Digits -> "any2"
    [] OTHER -> "stop"

\* Mutation: no fractions.
NumberStepWhole(state, c) ==
  CASE state = "minus" /\ c = Zero -> "zero"
    [] state = "minus" /\ c \in Digits -> "any1"
    [] state = "any1" /\ c \in Digits -> "any1"
    [] state \in {"zero", "any1"} /\ c \in {69, 101} -> "exponent"
    [] state = "exponent" /\ c \in {43, Minus} -> "sign"
    [] state \in {"exponent", "sign", "any2"} /\ c \in Digits -> "any2"
    [] OTHER -> "stop"

\* The labels of scan_number.
NumberStep(state, c) ==
  CASE state = "minus" /\ c = Zero -> "zero"
    [] state = "minus" /\ c \in Digits -> "any1"
    [] state = "any1" /\ c \in Digits -> "any1"
    [] state \in {"zero", "any1"} /\ c = 46 -> "decimal1"
    [] state \in {"zero", "any1", "decimal2"} /\ c \in {69, 101} -> "exponent"
    [] state \in {"decimal1", "decimal2"} /\ c \in Digits -> "decimal2"
    [] state = "exponent" /\ c \in {43, Minus} -> "sign"
    [] state \in {"exponent", "sign", "any2"} /\ c \in Digits -> "any2"
    [] OTHER -> "stop"

NumberStart(c) ==
  CASE c = Minus -> "minus" [] c = Zero -> "zero" [] OTHER -> "any1"

\* strtoull and strtoll, and a float when they report a range error.
Magnitude(digits) == FoldLeft(LAMBDA n, c : 10 * n + c - Zero, 0, digits)
Exponent(digits) ==
  CASE digits = <<>> -> 0
    [] digits # <<>> /\ Head(digits) = Minus -> -Magnitude(Tail(digits))
    [] digits # <<>> /\ Head(digits) = 43 -> Magnitude(Tail(digits))
    [] OTHER -> Magnitude(digits)

\* A float is at least 10 to what its first digit but zero stands for.
Float(digits) ==
  LET Places(chars) == {k \in 1..Len(digits) : digits[k] \in chars}
      end == Min(Places({69, 101}) \cup {Len(digits) + 1})
      point == Min(Places({46}) \cup {end})
      first == Min(Places(49..57) \cup {end})
      power == IF first < point THEN point - first ELSE point - first + 1
  IN IF first < end /\ power + Exponent(SubSeq(digits, end + 1, Len(digits))) > Decimals
       THEN <<"infinite">> ELSE <<"float">>

NumberValue(digits) ==
  LET n == Magnitude(digits)
      m == Magnitude(Tail(digits))
  IN IF \E k \in 1..Len(digits) : digits[k] \notin Digits /\ (k > 1 \/ digits[k] # Minus)
       THEN Float(digits)
     ELSE IF digits[1] = Minus
       THEN IF m <= 2 ^ (Bits - 1) THEN <<"number", -m>> ELSE Float(digits)
       ELSE IF n < 2 ^ Bits THEN <<"number", n>> ELSE Float(digits)

\* scan_number, begun at `at` and in `state` at i.
RECURSIVE ScanNumber(_, _, _, _)
ScanNumber(bytes, at, i, state) ==
  LET next == NumberStep(state, At(bytes, i))
  IN CASE next # "stop" -> ScanNumber(bytes, at, i + 1, next)
       [] next = "stop" /\ state \in {"zero", "any1", "decimal2", "any2"} ->
            Token("value_number", NumberValue(SubSeq(bytes, at, i - 1)), at, i)
       [] OTHER -> ParseError(i)

\* scan_literal
Literals == [c \in {116, 102, 110} |->
               CASE c = 116 -> <<116, 114, 117, 101>>
                 [] c = 102 -> <<102, 97, 108, 115, 101>>
                 [] OTHER -> <<110, 117, 108, 108>>]
ScanLiteral(bytes, i) ==
  LET literal == Literals[At(bytes, i)]
      bad == {k \in 1..Len(literal) : At(bytes, i + k - 1) # literal[k]}
  IN IF bad = {} THEN Token("literal", <<"literal", literal>>, i, i + Len(literal))
     ELSE ParseError(i + Min(bad) - 1)

Structural == [c \in {91, 93, 123, 125, 58, 44} |->
                 CASE c = 91 -> "begin_array" [] c = 93 -> "end_array"
                   [] c = 123 -> "begin_object" [] c = 125 -> "end_object"
                   [] c = 58 -> "name_separator" [] OTHER -> "value_separator"]

\* lexer::scan: the token from i on.  A NUL ends the input.
RECURSIVE Scan(_, _)
Scan(bytes, i) ==
  LET c == At(bytes, i)
  IN CASE c \in Spaces -> Scan(bytes, i + 1)
       [] c \in DOMAIN Structural -> Token(Structural[c], <<>>, i, i + 1)
       [] c = Quote -> ScanString(bytes, i, i + 1, <<>>)
       [] c = Minus \/ c \in Digits -> ScanNumber(bytes, i, i + 1, NumberStart(c))
       [] c \in DOMAIN Literals -> ScanLiteral(bytes, i)
       [] c \in {0, Eof} -> Token("end_of_input", <<>>, i, i)
       [] OTHER -> ParseError(i)

\* lexer::skip_bom: where the text begins; 0 after an invalid byte order mark.
SkipBom(bytes) ==
  IF At(bytes, 1) # 239 THEN 1
  ELSE IF At(bytes, 2) = 187 /\ At(bytes, 3) = 191 THEN 4 ELSE 0
=============================================================================
