CONSTANTS
  a = a
  b = b
  c = c
  d = d
  Nodes = {a, b, c}
  QuitAgain = FALSE
  MaxRequests = 1
  MaxFaults = 1
SPECIFICATION Spec
INVARIANTS NeverInvalid StableMeansSynced IInv
PROPERTIES RemovalAfterResync JoinerSettles LeaverDeparts
CHECK_DEADLOCK FALSE
