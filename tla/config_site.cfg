CONSTANTS
  a = a
  b = b
  v = v
  w = w
  Nodes = {a, b}
  TimersAccurate = TRUE
  OncePerTurn = TRUE
  Configs = {v, w}
  Earlier = {v}
  MaxUploads = 1
  MaxFaults = 1
SPECIFICATION Spec
INVARIANTS SiteIInv StaleIsDue AlarmAgrees OneAtATime QueueInOrder ListsAgree IInv
PROPERTIES UploadsSurvive FailuresRetried ForcePushesOn FilesSettle ServicesSettle
CHECK_DEADLOCK FALSE
