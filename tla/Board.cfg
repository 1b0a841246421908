SPECIFICATION MCFairSpec
CONSTANTS
  MAX_BINARY_SIZE = 4
  BinaryEnd = 7
  U32 = 64
  AtagMemories <- MCAtagMemories
  InitCodes <- MCInitCodes
  UMax = 2147483647
  BumpStart = 13
  BumpEnd = 61
  BumpLayouts <- MCBumpLayouts
  Readers = {1, 2, 3}
  Half = 4
  Sectors = {0, 3, 4, 8}
  Sizes = {2, 3}
  Codes <- MCCodes
  SECTOR = 3
  Pins = {14, 15, 53}
  Functions = {2, 7}
  OldFSEL = {0, 1073741823}
  Lines = {1, 3, 33}
  Classes = {0, 21, 32, 36, 37, 47, 60}
  AtReset = {0, 36}
  Calls = {0, 1}
INVARIANTS
  JumpsToWholeBinary
  HeapIsMemory
  HandlesAreTrue
  InterruptsAreHandled
PROPERTIES
  BumpImplementsHeap
  
  KernelStarts
