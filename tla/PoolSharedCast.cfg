SPECIFICATION Spec
CONSTANTS
  None = None
  Reaper = Reaper
  Console = Console
  Watcher = Watcher
  Sessions = {s1, s2}
  Hosts <- Shared
  WAKE_GRACE = 1
  MaxAcquires = 2
  MaxNow = 1
  MaxLate = 0
PROPERTIES
  SharedCastSurvives
CHECK_DEADLOCK FALSE
