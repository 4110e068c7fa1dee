CONSTANTS
  NBUS = 4
  NCHANS = 1
  Inst = {i1, i2}
  NoSlot = NoSlot
  FileChans = {1}
  MaxCalls = 3
  Args <- MCPlayOrderArgs
SYMMETRY InstSymmetry
SPECIFICATION Spec
INVARIANT PlayOrderTopological
