\* The same small instance; the property is what the header says of count().
SPECIFICATION Spec
CONSTANTS
  Byte = {0, 1}
  MaxSize = 6
  MaxBuffer = 4
  MaxPattern = 2
  Buffers <- MCBuffers
  Patterns <- MCPatterns
  Offsets <- MCOffsets
INVARIANTS
  CountsNonOverlapping
