\* Results of a type whose copies may throw.
SPECIFICATION Spec
CONSTANTS
  Objects <- MCObjects
  Values <- MCValues
  Errors <- MCErrors
  MayThrow = {"copy"}
INVARIANTS
  NeverBothNorNeither
