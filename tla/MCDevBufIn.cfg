\* Every file of up to four characters, in blocks of up to three.
\* An assertion that fails stops the program.
CONSTANTS
  Cap = 3
  Contents <- Files
  Modes = {"crlf", "plain", "mapped"}
  Requests = {1, 3}
  MaxFaults = 1
SPECIFICATION Spec
INVARIANTS Inv InputExact
PROPERTIES EndAfterEverything
CHECK_DEADLOCK FALSE
