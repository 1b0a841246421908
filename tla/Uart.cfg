SPECIFICATION FairSpec
CONSTANTS
  p1 = p1
  p2 = p2
  irq = irq
  Procs = {p1, p2}
  Handler = irq
  Depth = 1
  POLL = 1
  MS = 1
  Width = 16
  Timeouts = {1, 16}
  Lens = {0, 2}
  Strings <- MCStrings
INVARIANTS StoreFindsRoom HasByteGuarantee
PROPERTIES HandlerFinishes
