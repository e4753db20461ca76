\* An end tag whose blank is the last of a block.
CONSTANTS
  Inputs <- StaleInputs
  Root <- N
  Written = {}
  Size = 1
  Base = 0
SPECIFICATION DomSpec
INVARIANTS EndHasItsName
