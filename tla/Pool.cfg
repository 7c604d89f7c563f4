SPECIFICATION Spec
CONSTANTS
  None = None
  Reaper = Reaper
  Console = Console
  Watcher = Watcher
  Sessions = {s1, s2}
  Hosts <- DeskAndEpoch
  WAKE_GRACE = 1
  MaxAcquires = 3
  MaxNow = 1
  MaxLate = 0
SYMMETRY Symmetry
INVARIANTS
  LeaseAccounting
  EventsBalanced
PROPERTIES
  HeldDisplaySurvives
  ClaimKeyed
CHECK_DEADLOCK FALSE
