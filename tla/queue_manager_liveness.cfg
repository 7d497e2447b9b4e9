CONSTANTS
  a = a
  b = b
  c = c
  Nodes = {a, b}
  Managers = {a}
  Preempt = FALSE
  WritesLost = FALSE
  ReportsOnce = TRUE
  MaxRequests = 3
  MaxFaults = 0
  MaxGlitches = 0
SPECIFICATION Spec
PROPERTIES  AlarmsTell
