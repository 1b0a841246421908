SPECIFICATION FairSpec
CONSTANTS
  p1 = p1
  p2 = p2
  p3 = p3
  Boot <- MCBoot3
  TICK = 2
  MS = 2
  Durations = {1}
  Calls = {1, 2}
  Values = {0, 1}
  MaxElapsed = 3
INVARIANTS FrontRuns RegistersSurvive BoundedBypass
PROPERTIES SleepResult NobodyStarves
