\* Texts of a few lexemes, and strings of up to two characters or errors and
\* longer ones that fill the buffer.
SPECIFICATION MCSpec
CONSTANTS
  BufferSize = 16
  Bits = 4
  Decimals = 3
  Modes <- MCModes
  Lexemes <- MCLexemes
  Starts <- MCStarts
  Endings <- MCEndings
  MaxLexemes <- MCMaxLexemes
  Texts <- MCTexts
INVARIANTS
  AcceptsGrammar OnlyWhole RoundTrip DumpIsPlain
  StringsTypeOK NeverThrows WritesPlain BufferFits StringArrives
\* Texts end.
CHECK_DEADLOCK FALSE
