SPECIFICATION Spec
CONSTANTS
  p1 = p1
  p2 = p2
  p3 = p3
  irq = irq
  Procs = {p1, p2, p3}
  Handler = irq
PROPERTIES HandlerNeverSpins
