\* Two variables: one record that grows from a table of two to one of five,
\* or smaller ones, shared and copied.
CONSTANTS
  k1 = k1
  k2 = k2
  k3 = k3
  Handles = {a, b}
  Entries <- MCEntries
  Hash <- MCHash
  MaxBlocks = 3
  MaxSize = 4
  MaxBoth = 3
  Header = 1
  Inline = 2
SPECIFICATION Spec
SYMMETRY Symmetry
INVARIANTS Inv
PROPERTIES IsAList
CHECK_DEADLOCK FALSE
