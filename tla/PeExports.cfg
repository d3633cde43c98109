\* What pe.cpp and the headers say of exports.
SPECIFICATION Spec
CONSTANTS
  Files <- DirectoryFiles
  Max16 = 255
  Word = 1024
  MaxName = 8
INVARIANTS
  ExportsAsDocumented
