SPECIFICATION Spec
CONSTANTS
  Sessions = {s1, s2}
  Heads = {h1, h2}
  Reclaimer = Reclaimer
  Watch = Watch
  None = None
  OWED_TRIES = 2
  MaxCreates = 3
  MaxCrashes = 1
  MaxUnplugs = 1
  MaxRefusals = 1
SYMMETRY Symmetry
PROPERTIES
  NeverBlank
CHECK_DEADLOCK FALSE
