SPECIFICATION Spec
CONSTANTS
  p1 = p1
  p2 = p2
  p3 = p3
  Boot <- MCBoot2
  TICK = 2
  MS = 2
  Durations = {0, 1}
  Calls = {1}
  Values = {0, 1}
  MaxElapsed = 3
INVARIANTS AllRegistersSurvive
