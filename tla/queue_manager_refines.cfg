CONSTANTS
  a = a
  b = b
  c = c
  Nodes = {a, b, c}
  Managers = {a}
  Preempt = FALSE
  WritesLost = FALSE
  ReportsOnce = FALSE
  MaxRequests = 2
  MaxFaults = 1
  MaxGlitches = 1
SPECIFICATION Safety
SYMMETRY NodeSymmetry
INVARIANTS TypeOK IInv
PROPERTIES Implements
