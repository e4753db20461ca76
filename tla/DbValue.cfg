\* Two variables with scalars, arrays and arrays in arrays; a behaviour ends
\* with the first call that is given a part of the value it changes.
CONSTANTS
  Handles = {a, b}
  Numbers = {1}
  MaxBlocks = 4
  MaxItems = 2
  MaxDepth = 2
  MaxStored = 4
  Header = 1
  Inline = 1
SPECIFICATION Spec
INVARIANTS Inv
PROPERTIES IsATree
CHECK_DEADLOCK FALSE
