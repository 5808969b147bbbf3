-------------------------------- MODULE Json --------------------------------
(***************************************************************************)
(* What the system asks of include/common/json.hpp: every request, answer, *)
(* pushed message and stored message is json::parse of the bytes received  *)
(* and dump() of a value, often one after the other, since the server      *)
(* forwards and stores what it has parsed.                                 *)
(*                                                                         *)
(* The parser with its stack, the values it builds and the serializer are  *)
(* operators.  The specification types texts, lexeme by lexeme, as long as *)
(* the parser or the grammar, which is written independently of it, could  *)
(* accept an extension of them.  The invariants compare what the parser    *)
(* makes of each text with the grammar and with what the server and the    *)
(* client rely on.                                                         *)
(***************************************************************************)
EXTENDS JsonLexer

CONSTANTS
  Modes,      \* kinds of texts that are typed
  Lexemes,    \* for each mode, the byte sequences texts are made of
  Starts,     \* for each mode, what texts begin with
  Endings,    \* for each mode, what completes texts but for closing brackets
  MaxLexemes  \* for each mode, the bound on what follows

ASSUME JsonAssumption ==
  {DOMAIN Lexemes, DOMAIN Starts, DOMAIN Endings, DOMAIN MaxLexemes} = {Modes}

VARIABLES
  mode, text,   \* the text and what it is made of
  typed,        \* how many lexemes it has after its start
  parsed        \* what json::parse makes of it

jsonVars == <<mode, text, typed, parsed>>

-----------------------------------------------------------------------------
\* Values: of strings, numbers and literals (and floats, without their value);
\* <<"array", items>>; and <<"object", members>>, a function of the keys.

Without == [k \in {} |-> <<>>]      \* no members

\* json_sax_dom_parser::handle_value, for the array or object being read.
Put(frame, value) ==
  IF frame.array THEN [frame EXCEPT !.items = Append(@, value)]
                 ELSE [frame EXCEPT !.members = (frame.key :> value) @@ @]

Whole(frame) ==
  IF frame.array THEN <<"array", frame.items>> ELSE <<"object", frame.members>>

\* start_array or start_object
Frame(array) == [array |-> array, items |-> <<>>, members |-> Without, key |-> <<>>]

\* parser::get_token, called until the input ends or is no token.
RECURSIVE TokensFrom(_, _)
TokensFrom(bytes, token) ==
  IF token.type \in {"end_of_input", "parse_error"} THEN <<token>>
  ELSE <<token>> \o TokensFrom(bytes, Scan(bytes, token.next))

Tokens(bytes) ==
  IF SkipBom(bytes) = 0 THEN <<ParseError(IF Len(bytes) < 3 THEN 3 ELSE 1)>>
  ELSE TokensFrom(bytes, Scan(bytes, SkipBom(bytes)))

\* Between two tokens the parser is at one place of sax_parse_internal, named by
\* what it expects, with the stack of the arrays and objects it is inside.
Start == [expects |-> "value", stack |-> <<>>, value |-> <<>>, at |-> 0]

Goes(p, expects) == [p EXCEPT !.expects = expects]
Inside(p, array) == p.stack # <<>> /\ Last(p.stack).array = array

\* Mutation: no empty arrays and objects.
OpensNonEmpty(p, array) ==
  [p EXCEPT !.stack = Append(@, Frame(array)), !.expects = IF array THEN "value" ELSE "key"]

Opens(p, array) ==
  [p EXCEPT !.stack = Append(@, Frame(array)),
            !.expects = IF array THEN "value or end" ELSE "key or end"]
Named(p, key) ==
  [p EXCEPT !.stack[Len(p.stack)].key = key, !.expects = "colon"]

\* A value is complete: the whole text's, or one for the innermost frame.
Complete(p, value) ==
  IF p.stack = <<>> THEN [p EXCEPT !.value = value, !.expects = "input to end"]
  ELSE [p EXCEPT !.stack[Len(p.stack)] = Put(@, value), !.expects = "comma or end"]

Closes(p) == Complete([p EXCEPT !.stack = Front(@)], Whole(Last(p.stack)))

\* Mutation: a parse that is not strict.
EndsAnyhow(token) == TRUE

\* parser::parse, strict: after the value the input ends.
Ends(token) == token.type = "end_of_input"

\* What the parser does with the next token.
Take(p, token) ==
  LET Value == p.expects \in {"value", "value or end"}
      Key == p.expects \in {"key", "key or end"}
      Next(type) == token.type = type
  IN CASE Value /\ Next("begin_object") -> Opens(p, FALSE)
       [] Value /\ Next("begin_array") -> Opens(p, TRUE)
       [] Value /\ Next("value_string") -> Complete(p, <<"string", token.value>>)
       [] Value /\ Next("value_number") /\ token.value = <<"infinite">> ->
            [Goes(p, "finite number") EXCEPT !.at = token.next]
       [] Value /\ Next("value_number") /\ token.value # <<"infinite">> ->
            Complete(p, token.value)
       [] Value /\ Next("literal") -> Complete(p, token.value)
       [] Key /\ Next("value_string") -> Named(p, token.value)
       [] p.expects = "colon" /\ Next("name_separator") -> Goes(p, "value")
       [] p.expects = "comma or end" /\ Next("value_separator") ->
            Goes(p, IF Inside(p, TRUE) THEN "value" ELSE "key")
       [] p.expects \in {"comma or end", "value or end"} /\ Next("end_array")
            /\ Inside(p, TRUE) -> Closes(p)
       [] p.expects \in {"comma or end", "key or end"} /\ Next("end_object")
            /\ Inside(p, FALSE) -> Closes(p)
       [] p.expects = "input to end" /\ Ends(token) -> Goes(p, "nothing")
       [] p.expects \in {"nothing", "failed", "finite number"} -> p
       [] OTHER -> [Goes(p, "failed") EXCEPT !.at = token.at]

\* json::parse: the parser's last state; it has accepted if it expects nothing.
Parse(bytes) == FoldLeft(Take, Start, Tokens(bytes))
Accepts(bytes) == Parse(bytes).expects = "nothing"

-----------------------------------------------------------------------------
\* dump(), of one line, neither pretty nor ASCII only, strict about UTF-8

\* dump_escaped throws unless the whole string is accepted.
Dumping(string) == DumpEnd(FoldLeft(DumpByte, DumpStart, string))
Dumpable(string) == Dumping(string).state = "accept"
DumpString(string) == <<Quote>> \o Dumping(string).output \o <<Quote>>

\* dump_integer: two digits at a time, from the end of as many as there are.
RECURSIVE DumpMagnitude(_)
DumpMagnitude(n) ==
  IF n < 10 THEN <<Zero + n>>
  ELSE IF n < 100 THEN <<Zero + (n \div 10), Zero + (n % 10)>>
  ELSE DumpMagnitude(n \div 100) \o <<Zero + ((n % 100) \div 10), Zero + (n % 10)>>

\* The abs of the least integer is undefined in C++; on two's complement
\* machines its cast to unsigned is the magnitude after all.
DumpInteger(n) == IF n < 0 THEN <<Minus>> \o DumpMagnitude(-n) ELSE DumpMagnitude(n)

\* An object is a std::map: dumped in the order of its keys, byte by byte.
RECURSIVE Before(_, _)
Before(a, b) ==
  /\ b # <<>>
  /\ a = <<>> \/ a[1] < b[1] \/ (a[1] = b[1] /\ Before(Tail(a), Tail(b)))

Joined(parts) ==
  FoldLeft(LAMBDA bytes, part : IF bytes = <<>> THEN part ELSE bytes \o <<44>> \o part,
           <<>>, parts)

\* serializer::dump; floats excepted.
RECURSIVE Dump(_)
Dump(value) ==
  CASE value[1] = "literal" -> value[2]
    [] value[1] = "number" -> DumpInteger(value[2])
    [] value[1] = "string" -> DumpString(value[2])
    [] value[1] = "array" ->
         <<91>> \o Joined([i \in 1..Len(value[2]) |-> Dump(value[2][i])]) \o <<93>>
    [] value[1] = "object" ->
         LET keys == SetToSortSeq(DOMAIN value[2], Before)
             Member(key) == DumpString(key) \o <<58>> \o Dump(value[2][key])
         IN <<123>> \o Joined([i \in 1..Len(keys) |-> Member(keys[i])]) \o <<125>>

\* What is in a value.
RECURSIVE Strings(_), HasFloat(_)
Parts(value) ==
  CASE value[1] = "array" -> {value[2][i] : i \in 1..Len(value[2])}
    [] value[1] = "object" -> {value[2][key] : key \in DOMAIN value[2]}
    [] OTHER -> {}
Strings(value) ==
  UNION {Strings(part) : part \in Parts(value)}
    \cup CASE value[1] = "string" -> {value[2]}
           [] value[1] = "object" -> DOMAIN value[2]
           [] OTHER -> {}
HasFloat(value) ==
  value[1] = "float" \/ \E part \in Parts(value) : HasFloat(part)

-----------------------------------------------------------------------------
\* The grammar of RFC 8259, of the bytes from i to before j

Code(bytes, i, n) ==     \* the code point of n bytes
  CASE n = 1 -> bytes[i]
    [] n = 2 -> (bytes[i] - 192) * 64 + bytes[i + 1] - 128
    [] n = 3 -> (bytes[i] - 224) * 4096 + (bytes[i + 1] - 128) * 64 + bytes[i + 2] - 128
    [] n = 4 -> (bytes[i] - 240) * 262144 + (bytes[i + 1] - 128) * 4096
                  + (bytes[i + 2] - 128) * 64 + bytes[i + 3] - 128

\* A Unicode scalar value in its shortest form (Unicode, D92).
IsScalar(bytes, i, j) ==
  LET n == j - i
      least == <<0, 128, 2048, 65536>>
      lead == <<0..127, 192..223, 224..239, 240..247>>
  IN /\ n \in 1..4 /\ bytes[i] \in lead[n]
     /\ \A k \in i + 1..j - 1 : bytes[k] \in 128..191
     /\ LET code == Code(bytes, i, n)
        IN least[n] <= code /\ code <= 1114111 /\ code \notin 55296..57343

IsHex(bytes, i, j) == \A k \in i..j - 1 : bytes[k] \in 48..57 \cup 65..70 \cup 97..102
Surrogate(bytes, i, third) ==     \* \uD800 to \uDBFF, \uDC00 to \uDFFF
  bytes[i] = Backslash /\ bytes[i + 1] = 117 /\ IsHex(bytes, i + 2, i + 6)
    /\ bytes[i + 2] \in {68, 100} /\ bytes[i + 3] \in third
High == {56, 57, 65, 66, 97, 98}
Low == 67..70 \cup 99..102

IsChar(bytes, i, j) ==
  \/ /\ IsScalar(bytes, i, j)
     /\ bytes[i] > 31 /\ bytes[i] \notin {Quote, Backslash}
  \/ j = i + 2 /\ bytes[i] = Backslash /\ bytes[i + 1] \in {34, 92, 47, 98, 102, 110, 114, 116}
  \/ /\ j = i + 6 /\ bytes[i] = Backslash /\ bytes[i + 1] = 117 /\ IsHex(bytes, i + 2, j)
     /\ ~Surrogate(bytes, i, High \cup Low)
  \/ j = i + 12 /\ Surrogate(bytes, i, High) /\ Surrogate(bytes, i + 6, Low)

RECURSIVE IsChars(_, _, _)
IsChars(bytes, i, j) ==
  i = j \/ \E k \in i + 1..j : IsChar(bytes, i, k) /\ IsChars(bytes, k, j)

IsString(bytes, i, j) ==
  j >= i + 2 /\ bytes[i] = Quote /\ bytes[j - 1] = Quote /\ IsChars(bytes, i + 1, j - 1)

AllDigits(bytes, i, j) == j > i /\ \A k \in i..j - 1 : bytes[k] \in Digits
IsInt(bytes, i, j) ==
  AllDigits(bytes, i, j) /\ (bytes[i] = Zero => j = i + 1)
IsFrac(bytes, i, j) == i = j \/ (i < j /\ bytes[i] = 46 /\ AllDigits(bytes, i + 1, j))
IsExp(bytes, i, j) ==
  i = j \/ (/\ i < j /\ bytes[i] \in {69, 101}
            /\ \/ AllDigits(bytes, i + 1, j)
               \/ i + 1 < j /\ bytes[i + 1] \in {43, Minus} /\ AllDigits(bytes, i + 2, j))
IsNumber(bytes, i, j) ==
  i < j /\ LET start == IF bytes[i] = Minus THEN i + 1 ELSE i
           IN \E k \in start..j : /\ IsInt(bytes, start, k)
                                  /\ \E l \in k..j : IsFrac(bytes, k, l) /\ IsExp(bytes, l, j)

Blank == {9, 10, 13, 32}
IsSpace(bytes, i, j) == \A k \in i..j - 1 : bytes[k] \in Blank

Names == {<<116, 114, 117, 101>>, <<102, 97, 108, 115, 101>>, <<110, 117, 108, 108>>}

RECURSIVE IsValue(_, _, _), IsElements(_, _, _), IsMembers(_, _, _)
IsValue(bytes, i, j) ==
  \E k \in i..j : \E l \in k..j :
    /\ IsSpace(bytes, i, k) /\ IsSpace(bytes, l, j)
    /\ l > k /\ bytes[k] \notin Blank /\ bytes[l - 1] \notin Blank
    /\ \/ SubSeq(bytes, k, l - 1) \in Names
       \/ IsNumber(bytes, k, l) \/ IsString(bytes, k, l)
       \/ /\ l >= k + 2 /\ bytes[k] = 91 /\ bytes[l - 1] = 93
          /\ IsSpace(bytes, k + 1, l - 1) \/ IsElements(bytes, k + 1, l - 1)
       \/ /\ l >= k + 2 /\ bytes[k] = 123 /\ bytes[l - 1] = 125
          /\ IsSpace(bytes, k + 1, l - 1) \/ IsMembers(bytes, k + 1, l - 1)
IsElements(bytes, i, j) ==
  \/ IsValue(bytes, i, j)
  \/ \E k \in i + 1..j - 1 :
       bytes[k] = 44 /\ IsValue(bytes, i, k) /\ IsElements(bytes, k + 1, j)
IsMembers(bytes, i, j) ==
  \E k \in i + 1..j - 1 :
    /\ bytes[k] = 58
    /\ \E a \in i..k : \E b \in a..k :
         IsSpace(bytes, i, a) /\ IsString(bytes, a, b) /\ IsSpace(bytes, b, k)
    /\ \/ IsValue(bytes, k + 1, j)
       \/ \E l \in k + 1..j - 1 :
            bytes[l] = 44 /\ IsValue(bytes, k + 1, l) /\ IsMembers(bytes, l + 1, j)

\* The library besides skips a byte order mark, and reads up to a NUL that is not
\* in a string (where none is allowed).
IsText(bytes) ==
  LET start == IF IsPrefix(<<239, 187, 191>>, bytes) THEN 4 ELSE 1
      nuls == {i \in start..Len(bytes) : bytes[i] = 0}
      end == IF nuls = {} THEN Len(bytes) + 1 ELSE Min(nuls)
  IN IsValue(bytes, start, end)

-----------------------------------------------------------------------------
JsonInit ==
  /\ mode \in Modes
  /\ text \in Starts[mode]
  /\ typed = 0
  /\ parsed = Parse(text)

\* No continuation makes the text right for the parser.
Hopeless == parsed.expects \in {"failed", "finite number"} /\ parsed.at <= Len(text)

\* With the brackets closed that are open.  No bracket is typed in a string.
Closed(bytes) ==
  bytes \o FoldLeft(LAMBDA open, c : CASE c \in {91, 123} -> <<c + 2>> \o open
                                       [] c \in {93, 125} /\ open # <<>> -> Tail(open)
                                       [] OTHER -> open, <<>>, bytes)

\* Some continuation makes it right for the grammar, whatever the parser says.
Completable == \E ending \in Endings[mode] : IsText(Closed(text \o ending))

\* Nothing is added to a text that is neither.
Type ==
  /\ typed < MaxLexemes[mode]
  /\ Hopeless => Completable
  /\ \E lexeme \in Lexemes[mode] : text' = text \o lexeme
  /\ typed' = typed + 1
  /\ parsed' = Parse(text')
  /\ UNCHANGED mode

JsonSpec == JsonInit /\ [][Type]_jsonVars

-----------------------------------------------------------------------------
\* Properties

Accepted == parsed.expects = "nothing"
Dumped == Accepted /\ ~HasFloat(parsed.value)

\* The parser, with its stack and its lexer that works byte by byte, accepts
\* the texts of the grammar and no other, as long as it meets no number beyond
\* the range of floats.  A text it gives up too early is typed to its end all
\* the same, because the grammar goes on with it.
AcceptsGrammar == parsed.expects = "finite number" \/ (Accepted <=> IsText(text))

\* A text that holds a request or an answer is nothing less and nothing more:
\* no part of it that one read may return, its blank ends aside, is accepted,
\* nor is it together with the next one.  This is what decides whether
\* ChatClient's sides take what they read for a text, or die.
OnlyWhole ==
  Accepted /\ parsed.value[1] = "object" /\ 0 \notin ToSet(text) =>
    LET last == Max({i \in 1..Len(text) : text[i] \notin Spaces})
    IN /\ \A k \in 0..last - 1 : ~Accepts(SubSeq(text, 1, k))
       /\ ~Accepts(text \o text)

\* What the server has parsed it can dump, to forward or to store it, without
\* an exception, and the receiver parses the same value again.
RoundTrip ==
  Dumped => /\ \A string \in Strings(parsed.value) : Dumpable(string)
            /\ Parse(Dump(parsed.value)) = parsed

\* And what it dumps has no byte that would end or change it on the way: no NUL,
\* at which the client's buffer and PUBLISH's %s end, and no line end.
DumpIsPlain == Dumped => \A c \in ToSet(Dump(parsed.value)) : c > 31
=============================================================================
