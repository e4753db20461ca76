\* Every command of MCCommands with up to three arguments: a key, its value
\* and a positional one, or a multiple value, its second argument and another;
\* and three keys of up to three characters with an argument of up to four.
CONSTANTS
  Digits = {2}
  Commands <- MCAllCommands
  Inputs <- MCInputs
SPECIFICATION Spec
INVARIANTS Inv ParseExact OptionCalls
PROPERTIES Returns
CHECK_DEADLOCK FALSE
