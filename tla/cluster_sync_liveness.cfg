CONSTANTS
  a = a
  b = b
  c = c
  Nodes = {a, b}
  Quitters = {a}
  QuitAgain = FALSE
  PreemptHandler = TRUE
  PluginsFail = FALSE
  MaxRequests = 1
  MaxFaults = 0
  MaxGlitches = 1
SPECIFICATION Spec
INVARIANTS NoRepeatedWork
PROPERTIES JoinersSettle LeaversDepart LeaveHonouredUnlessMissed
CHECK_DEADLOCK FALSE
