SPECIFICATION Spec
CONSTANTS
  ChunkSize = 3
  MaxSize = 1
  MaxConns = 2
  MaxBytes = 4
  MaxWord = 2
  ParseLen = 7
INVARIANTS
  TypeOK
  LinesConserved
  EofReadsAll
  LeftoverIsBegun
PROPERTIES
  LinesArrive
CHECK_DEADLOCK FALSE
