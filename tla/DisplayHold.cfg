SPECIFICATION FairSpec
CONSTANTS
  Sessions = {s1, s2}
  s1 = s1
  s2 = s2
  WAKE_GRACE = 1
  Policies <- MCPolicies
  Naps = {1, 2}
  MaxNow = 3
  MaxAsleep = 3
INVARIANTS TypeOK HoldsCounted
PROPERTIES WakeGraceKept ImplementsHeldResource WindowEnds
CHECK_DEADLOCK FALSE
