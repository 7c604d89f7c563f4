SPECIFICATION FairSpec
CONSTANTS
  None = None
  Reaper = Reaper
  Console = Console
  Watcher = Watcher
  Sessions = {s1, s2}
  Hosts <- Seat
  WAKE_GRACE = 1
  MaxAcquires = 3
  MaxNow = 1
  MaxLate = 1
INVARIANTS
  TypeOK
  OneCreatePerSeat
PROPERTIES
  SlotsFreed
  LingerEnds
  AcquireEnds
CHECK_DEADLOCK FALSE
