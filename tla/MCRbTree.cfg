\* Nine nodes, of which two and three have equal keys.
CONSTANTS
  Nodes = {1, 2, 3, 4, 5, 6, 7, 8, 9}
  Key <- Mixed
SPECIFICATION Spec
INVARIANTS Inv AnswersExact
