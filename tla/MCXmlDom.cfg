\* Up to three pieces of a document, up to four characters of markup in any
\* order, attributes and comments, with up to two buffer borders anywhere; up
\* to four tags and texts in an element; and values written and read again,
\* with one border.
CONSTANTS
  Inputs <- MCInputs
  Root <- N
  Written <- MCWritten
  Size = 1
  Base = 0
SPECIFICATION DomSpec
INVARIANTS DomInv ReadExact RoundTrip
