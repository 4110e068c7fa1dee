CONSTANTS
  Names <- MCNames
  ArgLists <- MCArgLists
SPECIFICATION Spec
INVARIANTS
  IndexFirstMatch
  InterpEndpoints
