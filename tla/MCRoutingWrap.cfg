CONSTANTS
  NBUS = 2
  NCHANS = 1
  Inst = {i1, i2}
  NoSlot = NoSlot
  FileChans = {1}
  MaxCalls = 3
  Args <- MCWrapArgs
SYMMETRY InstSymmetry
SPECIFICATION Spec
INVARIANT RoutingAcyclic
