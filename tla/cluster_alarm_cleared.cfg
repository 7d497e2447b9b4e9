CONSTANTS
  p1 = p1
  p2 = p2
  t1 = t1
  t2 = t2
  Plugins = {p1, p2}
  Timers = {t1, t2}
SPECIFICATION Spec
PROPERTIES StuckIsReported
CHECK_DEADLOCK FALSE
