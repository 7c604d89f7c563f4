SPECIFICATION Spec
CONSTANTS
  LtrInterval = 2
  LtrReach = 8
  RecoveryFlight = 3
  IdrCooldown = 8
  IdrCooldownMax = 30
  EpisodeReset = 10
  EchoMax = 2
  RfiMaxRange = 2
  RfiMaxWidth = 2
  RfiThrottle = 1
  FreezeMax = 5
  DropCreditWindow = 10
  AskGiveUp = 5
  Horizon = 30
  MaxTroubles = 3
  LastTrouble = 11
  DropLag = 2
  HealBound = 17
  Confs <- Sessions
INVARIANTS
  TypeOK
  ConfirmedAnchorIsClean
  ShownIsClean
  Heals
  FreezeIsServed
PROPERTIES
  GapCountedOnce
