\* Numbers and keywords, strings of up to three characters or escapes, closed
\* and open, and comments, with up to two buffer borders anywhere; every
\* sequence of up to nine tokens, read by read() itself and by any client; what
\* read() makes of them is written, and up to seven tokens are read again, with
\* one border anywhere.
CONSTANTS
  Texts <- MCTexts
  MaxCuts = 2
  Inline = 1
  Clients = {"dom", "sax"}
  MaxTokens = 9
  Grow = {0, 1, 3}
  Styles <- MCStyles
  Size = 2
  Base = 1
  Rereads = 7
  Borders = 1
  Spelling <- MCSpelling
SPECIFICATION DocSpec
INVARIANTS DocInv ReadExact RoundTrip
PROPERTIES Ends
