SPECIFICATION Spec
CONSTANTS
  B = 5
  Delays = {2, 4}
  Slack = 1
  MaxNow = 12
PROPERTIES SpinsLongEnough
