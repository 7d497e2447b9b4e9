CONSTANTS
  a = a
  b = b
  c = c
  Nodes = {a, b, c}
  Managers = {a}
  Preempt = FALSE
  WritesLost = TRUE
  ReportsOnce = TRUE
  MaxRequests = 2
  MaxFaults = 0
  MaxGlitches = 1
SPECIFICATION Safety
SYMMETRY NodeSymmetry
PROPERTIES PlacesKept
