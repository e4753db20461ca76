\* Up to three chunks, pieces that end in, at and after a chunk's end.
\* The sequence without chunks can crash, which ends the program.
CONSTANTS
  Byte = {0, 1}
  ChunkSize = 2
  MaxSize = 5
SPECIFICATION Spec
INVARIANTS Inv
PROPERTIES IsAFile
CHECK_DEADLOCK FALSE
