CONSTANTS
  RT_THREAD_COUNT = 2
  Work <- MCWork
  FRAMES = 6
  MaxBlocks = 2
SPECIFICATION Spec
PROPERTIES ImplementsST BlocksDrained
