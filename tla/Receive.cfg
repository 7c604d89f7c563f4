SPECIFICATION Spec
CONSTANTS
  IndexMod = 8
  LOSS_WINDOW = 2
  PARTIAL_WINDOW = 1
  HARD_LOSS_WINDOW = 2
  REORDER_WINDOW = 2
  BlockCost <- UnitCost
  Budget = 7
  NoFrame = NoFrame
  REPLAY_WINDOW = 4
  LowMod = 10
  MEDIA_KEY_PACKETS = 4
  Plan <- SmallPlan
  Resent <- SmallResent
  FirstSeq = 3
  EpochMod = 4
  MaxFlushes = 1
  Options <- AllOptions
CHECK_DEADLOCK FALSE
INVARIANTS TypeOK ReplayExact GoesUpOnce CountedOnce Metered LateIsNetted
