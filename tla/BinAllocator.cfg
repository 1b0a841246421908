SPECIFICATION FairSpec
CONSTANTS
  UMax = 2147483647
  MemStart = 51
  MemEnd = 149
  Words = {64}
  Layouts <- MCLayouts
INVARIANTS
  FreeListSorted
  NoOverlap
  NoLeak
  PanicOnlyAtTop
PROPERTIES
  LiveWordsKept
  ExhaustedSearchedAll
  StalePrevNeverMerges
  ImplementsHeap
  CallsEnd
