\* Integers of 8, 10 and 20 bits instead of 16, 32 and 64.
SPECIFICATION FairSpec
CONSTANTS
  Files <- MCFiles
  Max16 = 255
  Word = 1024
  MaxVector = 1000
INVARIANTS
  TypeOK
  ValidatedReadsSucceed
  NamesInTable
  SymbolsSoFar
  AcceptedIsComplete
  AcceptsWellFormed
PROPERTIES
  Terminates
