\* One character of each kind hex_value and isspace tell apart:
\* tab, space, '8', 'B', 'c', '?', 'x'; texts up to 5 characters.
SPECIFICATION FairSpec
CONSTANTS
  Char = {9, 32, 56, 66, 99, 63, 120}
  MaxText = 5
  Texts <- MCTexts
INVARIANTS
  TypeOK
  NoReallocation
  CompiledSoFar
  VerdictIsRight
PROPERTIES
  Terminates
