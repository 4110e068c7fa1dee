CONSTANTS
  NBUS = 3
  NCHANS = 1
  Inst = {i1, i2}
  NoSlot = NoSlot
  FileChans = {1}
  MaxCalls = 2
  Args <- MCRejectedArgs
SYMMETRY InstSymmetry
SPECIFICATION Spec
INVARIANT AuxBuffersAllocated
