\* Integers of 8, 10 and 20 bits instead of 16, 32 and 64, strings of up to
\* 8 bytes instead of 4096.
SPECIFICATION FairSpec
CONSTANTS
  Files <- MCFiles
  Max16 = 255
  Word = 1024
  MaxName = 8
INVARIANTS
  TypeOK
  ValidatedReadsSucceed
  StringsInFile
  ExportsSoFar
  AcceptedIsComplete
  VerdictIsRight
PROPERTIES
  Terminates
