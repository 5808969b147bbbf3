------------------------------- MODULE MCJson -------------------------------
EXTENDS Json, JsonStrings

\* { } [ ] , : "a" "a": "b": -1 0 null, a line end, a NUL
Structures ==
  {<<123>>, <<125>>, <<91>>, <<93>>, <<44>>, <<58>>, <<34, 97, 34>>, <<34, 97, 34, 58>>,
   <<34, 98, 34, 58>>, <<45, 49>>, <<48>>, <<110, 117, 108, 108>>, <<10>>, <<0>>}

\* Fewer, for longer texts
Nested ==
  Structures \ {<<58>>, <<34, 97, 34>>, <<45, 49>>, <<110, 117, 108, 108>>, <<10>>, <<0>>}

\* The ends of the ranges of UTF-8, and what has a meaning in strings
Bytes ==
  {<<c>> : c \in {0, 31, 32, 34, 92, 127, 128, 143, 144, 159, 160, 191, 192, 193, 194, 223,
                  224, 225, 236, 237, 238, 239, 240, 241, 243, 244, 245, 255}}

\* true and its halves, false, the spaces, 1, e
Words ==
  {<<116, 114, 117, 101>>, <<116, 114>>, <<117, 101>>, <<102, 97, 108, 115, 101>>,
   <<32>>, <<9>>, <<13>>, <<49>>, <<101>>}

\* The escapes of one byte
Short == {<<92, c>> : c \in {34, 92, 47, 98, 102, 110, 114, 116}}

\* They, \u and the ends of the ranges of code points, and escapes that are none
U(a, b, c, d) == <<92, 117, a, b, c, d>>
Escapes == Short \cup
  {U(48, 48, 48, 48), U(48, 48, 49, 70), U(48, 48, 55, 102), U(48, 48, 56, 48),
   U(48, 55, 70, 70), U(48, 56, 48, 48), U(68, 55, 70, 70), U(68, 56, 48, 48),
   U(100, 98, 102, 102), U(68, 67, 48, 48), U(100, 102, 102, 102), U(69, 48, 48, 48),
   U(70, 70, 70, 70), U(48, 48, 48, 71), <<92, 120>>, <<97>>, <<34>>, <<92, 117, 48>>}

\* Around the ends of the ranges of four bits
Numbers == {<<c>> : c \in {45, 48, 49, 53, 54, 56, 57, 46, 43, 69}}

MCModes == {"structures", "nested", "words", "bytes", "escapes", "numbers"}
MCLexemes == [m \in MCModes |->
  CASE m = "structures" -> Structures [] m = "nested" -> Nested
    [] m = "words" -> Words [] m = "bytes" -> Bytes
    [] m = "escapes" -> Escapes [] m = "numbers" -> Numbers]
MCStarts == [m \in MCModes |->
  CASE m = "structures" -> {<<>>, <<239, 187, 191>>, <<239>>, <<123>>}
    [] m = "nested" -> {<<123>>}
    [] m \in {"bytes", "escapes"} -> {<<34>>}
    [] OTHER -> {<<>>}]
\* A value, a member or the rest of one; the rest of a character and the closing
\* quote; the digits that numbers lack; or nothing.
MCEndings == [m \in MCModes |-> {<<>>} \cup
  CASE m = "structures" -> {<<48>>, <<58, 48>>, <<34, 97, 34, 58, 48>>, <<187, 191, 48>>}
    [] m = "nested" -> {<<48>>, <<58, 48>>, <<34, 97, 34, 58, 48>>}
    [] m = "words" -> {<<49>>, <<117, 101>>}
    [] m = "bytes" ->
         {rest \o <<34>> : rest \in {<<>>, <<110>>, <<128>>, <<160>>, <<128, 128>>, <<160, 128>>,
                                    <<128, 128, 128>>, <<144, 128, 128>>}}
    [] m = "escapes" -> {<<34>>, <<48, 48, 48, 34>>, U(68, 67, 48, 48) \o <<34>>}
    [] OTHER -> {<<48>>}]
MCMaxLexemes == [m \in MCModes |->
  CASE m = "structures" -> 5 [] m = "nested" -> 8 [] m \in {"words", "escapes"} -> 3 [] OTHER -> 5]

-----------------------------------------------------------------------------
\* What a string is made of: bytes that are a character, an end or an error by
\* themselves
Singles == {<<c>> : c \in {0, 31, 32, 34, 92, 97, 127, 128}}

\* the ends of the ranges of UTF-8, and what is next to them
Sequences ==
  {<<193, 191>>, <<194, 128>>, <<223, 191>>, <<223, 97>>,
   <<224, 159, 191>>, <<224, 160, 128>>, <<225, 128, 128>>, <<236, 191, 191>>,
   <<237, 159, 191>>, <<237, 160, 128>>, <<238, 128, 128>>, <<239, 191, 191>>,
   <<240, 143, 191, 191>>, <<240, 144, 128, 128>>, <<241, 128, 128, 128>>,
   <<243, 191, 191, 191>>, <<244, 143, 191, 191>>, <<244, 144, 128, 128>>,
   <<245, 128, 128, 128>>}

\* and the escapes.
Pieces ==
  Singles \cup Sequences \cup (Escapes \ {<<97>>, <<34>>, <<92, 117, 48>>})

\* The escape written longest, and one byte: their mixtures fill the buffer.
Fillers == {U(48, 48, 49, 70), <<92, 92>>, <<97>>}

\* With the closing quote and without.
MCTexts ==
  {a \o b \o c : a, b \in Pieces \cup {<<>>}, c \in {<<34>>, <<>>}}
    \cup {a \o b \o c \o d \o <<34>> : a, b, c, d \in Fillers}

\* Whole texts are typed, or one string goes through the server; what is not
\* followed rests where it has no next step.
TypingOnly ==
  /\ JsonInit
  /\ received = <<>> /\ read = ScanStep(<<>>, ScanStart)
  /\ index = 1 /\ dump = DumpStart /\ sent = <<>> /\ got = ScanStart

StringOnly ==
  /\ StringsInit
  /\ mode = "numbers" /\ text = <<>> /\ typed = MaxLexemes[mode] /\ parsed = Parse(text)

MCInit == TypingOnly \/ StringOnly

MCNext ==
  \/ Type /\ UNCHANGED stringVars
  \/ StringsNext /\ UNCHANGED jsonVars

MCSpec == MCInit /\ [][MCNext]_<<jsonVars, stringVars>>
=============================================================================
