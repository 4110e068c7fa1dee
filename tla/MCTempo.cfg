CONSTANTS
  TLEN = 6
  Bases <- MCBases
  ArgLists <- MCArgLists
  Forever <- MCForever
  Probes <- MCProbes
  Tol = 25
SPECIFICATION Spec
INVARIANTS
  TypeOK
  RoundTrip
