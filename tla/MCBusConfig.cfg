CONSTANTS
  NBUS = 3
  NCHANS = 1
  Inst = {i1, i2}
  NoSlot = NoSlot
  FileChans = {2}
  MaxCalls = 3
  Args <- MCArgs
SYMMETRY InstSymmetry
SPECIFICATION Spec
INVARIANTS
  TypeOK
  PlayListsMatchFlags
  PlayListCoversAuxBuses
  LoopCheckExact
