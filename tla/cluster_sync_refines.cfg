CONSTANTS
  a = a
  b = b
  c = c
  Nodes = {a, b}
  Quitters = {a}
  QuitAgain = TRUE
  PreemptHandler = FALSE
  PluginsFail = TRUE
  MaxRequests = 2
  MaxFaults = 1
  MaxGlitches = 1
SPECIFICATION Safety
INVARIANTS HooksInPhase IInv
PROPERTIES Implements OwnEntryOnly
CHECK_DEADLOCK FALSE
