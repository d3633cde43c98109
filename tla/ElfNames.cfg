\* What elf.hpp says of names and extended numbering.
SPECIFICATION Spec
CONSTANTS
  Files <- SmallFiles
  Max16 = 255
  Word = 1024
  MaxVector = 1000
INVARIANTS
  NamesWithExtendedNumbering
