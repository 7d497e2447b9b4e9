CONSTANTS
  u1 = u1
  u2 = u2
  x = x
  Users = {u1, u2}
  Values = {x}
  EtcdFails = TRUE
  ReadsLag = TRUE
  MaxRevision = 3
SPECIFICATION Spec
SYMMETRY Symmetries
VIEW Observed
INVARIANTS RevisionNotAhead IInv
PROPERTIES NoSilentOverwrite
CHECK_DEADLOCK FALSE
