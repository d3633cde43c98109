\* Three Results of a type whose copies and moves may throw.
SPECIFICATION Spec
CONSTANTS
  Objects <- MCObjects
  Values <- MCValues
  Errors <- MCErrors
  MayThrow = {"copy", "move"}
INVARIANTS
  TypeOK
  TagTellsPayload
  NoLeak
PROPERTIES
  ImplementsSpec
