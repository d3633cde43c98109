\* Two byte values, buffers up to 5 bytes, patterns up to 3, sizes up to 6.
SPECIFICATION FairSpec
CONSTANTS
  Byte = {0, 1}
  MaxSize = 6
  MaxBuffer = 5
  MaxPattern = 3
  Buffers <- MCBuffers
  Patterns <- MCPatterns
  Offsets <- MCOffsets
INVARIANTS
  TypeOK
  PointersInBuffer
  NothingSkipped
  AnswerIsFirst
  ResultsSoFar
PROPERTIES
  CandidatesAdvance
  Terminates
  ImplementsSpec
