SPECIFICATION Spec
CONSTANTS
  Sessions = {s1, s2, s3}
  Clients = {alice, Anonymous}
  Anonymous = Anonymous
  None = None
  Conflicts = {"separate", "join", "steal", "reject"}
  Keeps = {"lingering", "pinned"}
  Modes = {hd, uhd}
  Bakes = {sdr, hdr}
  max_concurrent = 2
  max_displays = 1
  MaxWedges = 1
SYMMETRY Symmetry
INVARIANTS
  TypeOK
  StealIsExclusive
  HoldersAreListed
  BudgetPerClient
CHECK_DEADLOCK FALSE
