CONSTANTS
  Devices <- MCDevices
  FrameCounts <- MCFrameCounts
  RcFiles <- MCRcFiles
  HostCalls <- MCHostCalls
  ArgLists <- MCArgLists
SPECIFICATION Spec
INVARIANT
  TypeOK
