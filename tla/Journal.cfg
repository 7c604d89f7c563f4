SPECIFICATION FairSpec
CONSTANTS
  Sessions = {s1, s2}
  Heads = {h1, h2}
  Reclaimer = Reclaimer
  Watch = Watch
  None = None
  OWED_TRIES = 2
  MaxCreates = 2
  MaxCrashes = 1
  MaxUnplugs = 1
  MaxRefusals = 1
INVARIANTS
  TypeOK
  DarkIsJournaled
  NoEntryForgotten
PROPERTIES
  TeardownNeverBlank
  DeskComesBack
CHECK_DEADLOCK FALSE
