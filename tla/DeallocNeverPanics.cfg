SPECIFICATION Spec
CONSTANTS
  UMax = 2147483647
  MemStart = 51
  MemEnd = 149
  Words = {64}
  Layouts <- MCLayouts
INVARIANT DeallocNeverPanics
