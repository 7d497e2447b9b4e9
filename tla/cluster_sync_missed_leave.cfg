CONSTANTS
  a = a
  b = b
  c = c
  Nodes = {a, b}
  Quitters = {a}
  QuitAgain = FALSE
  PreemptHandler = TRUE
  PluginsFail = FALSE
  MaxRequests = 1
  MaxFaults = 0
  MaxGlitches = 0
SPECIFICATION Spec
PROPERTIES LeaveHonoured
CHECK_DEADLOCK FALSE
