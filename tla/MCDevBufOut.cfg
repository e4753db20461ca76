\* Half of the buffer can be line feeds before the gap of one is used up.
CONSTANTS
  Gap = 1
  Cap = 3
  Modes <- AllModes
  Texts <- SomeTexts
  MaxText = 5
  MaxFaults = 1
SPECIFICATION Spec
INVARIANTS Inv OutputExact
PROPERTIES FailsOnlyInEscape OperationsEnd
