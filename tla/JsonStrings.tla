---------------------------- MODULE JsonStrings ----------------------------
(***************************************************************************)
(* A string on its way through the server: scan_string reads it out of the *)
(* bytes a client sent (json::parse, server.cpp:46), dump_escaped writes   *)
(* it into the text that is forwarded, stored or published (js.dump(),     *)
(* service.cpp:171-178), and the receiving client's scan_string reads that *)
(* (main.cpp:196).  A step is one turn of one of the three loops.          *)
(*                                                                         *)
(* Json computes the same of whole texts, by recursion over the operators  *)
(* of JsonChars; as steps it can be followed for texts of every length.    *)
(***************************************************************************)
EXTENDS JsonChars

CONSTANT Texts   \* what clients send after a string's opening quote

ASSUME TextsAssumption == Texts \subseteq Seq(0..255)

VARIABLES
  received,   \* what the server reads
  read,       \* its scan_string: the place of the next byte, token_buffer, and
              \* the token returned, if any
  index,      \* i of dump_escaped, from 1
  dump,       \* its other variables and what it has written
  sent,       \* what the receiver reads after the opening quote
  got         \* the receiver's scan_string

stringVars == <<received, read, index, dump, sent, got>>

ScanStart == [next |-> 1, buffer |-> <<>>, token |-> ""]

\* A turn of scan_string's loop.
ScanStep(bytes, scan) ==
  LET char == ScanChar(bytes, scan.next)
  IN [next |-> scan.next + char.length,
      buffer |-> scan.buffer \o char.value,
      token |-> char.ends]

StringsInit ==
  /\ received \in Texts
  /\ read = ScanStart
  /\ index = 1
  /\ dump = DumpStart
  /\ sent = <<>>
  /\ got = ScanStart

\* json::parse in the server's onMessage.
Read ==
  /\ read.token = ""
  /\ read' = ScanStep(received, read)
  /\ UNCHANGED <<received, index, dump, sent, got>>

\* dump_escaped has a string that was parsed, and has neither returned nor thrown.
Writing == read.token = "value_string" /\ dump.state # "reject" /\ sent = <<>>

Write ==
  /\ Writing
  /\ index <= Len(read.buffer)
  /\ dump' = DumpByte(dump, read.buffer[index])
  /\ index' = index + 1
  /\ UNCHANGED <<received, read, sent, got>>

\* dump_escaped returns, and the closing quote is written.
Send ==
  /\ Writing
  /\ index > Len(read.buffer)
  /\ dump' = DumpEnd(dump)
  /\ sent' = IF dump'.state = "accept" THEN Append(dump'.output, Quote) ELSE sent
  /\ UNCHANGED <<received, read, index, got>>

\* json::parse in the receiver's receiveTaskHandler.
Get ==
  /\ sent # <<>>
  /\ got.token = ""
  /\ got' = ScanStep(sent, got)
  /\ UNCHANGED <<received, read, index, dump, sent>>

StringsNext == Read \/ Write \/ Send \/ Get

StringsSpec == StringsInit /\ [][StringsNext]_stringVars

-----------------------------------------------------------------------------
ScanTokens == {"", "value_string", "parse_error"}
Scans == [next : Nat \ {0}, buffer : Seq(0..255), token : ScanTokens]
DecodeStates ==
  {"accept", "1 more", "2 more", "3 more", "E0", "ED", "F0", "F4", "reject"}

StringsTypeOK ==
  /\ received \in Seq(0..255)
  /\ read \in Scans /\ got \in Scans
  /\ index \in 1..Len(read.buffer) + 1
  /\ dump \in [state : DecodeStates, codepoint : Nat,
               buffer : Seq(0..255), output : Seq(0..255)]
  /\ sent \in Seq(0..255)

\* What the server has parsed it can dump: dump_escaped never throws for a
\* string scan_string has accepted, whatever mixture of escapes, surrogate pairs
\* and plain UTF-8 it was made of.  Nobody catches the exception.
NeverThrows == dump.state # "reject"

\* Nothing dump_escaped writes would end or change the text on its way: no NUL,
\* at which the client's buffer and PUBLISH's %s end, and no line end.
WritesPlain ==
  \A i \in 1..Len(dump.output \o dump.buffer) : (dump.output \o dump.buffer)[i] > 31

\* Whatever byte comes next, what is written for it fits into string_buffer: in
\* the middle of a code point a byte; after one an escape and snprintf's NUL.
BufferFits ==
  Len(dump.buffer) + (IF dump.state = "accept" THEN 7 ELSE 1) <= BufferSize

\* The receiver parses the string that the server parsed: it reports no error, and
\* the quote that ends its string is the one that was written last.
StringArrives ==
  /\ got.token # "parse_error"
  /\ got.token = "value_string" => got.buffer = read.buffer /\ got.next = Len(sent) + 1
=============================================================================
