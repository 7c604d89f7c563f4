SPECIFICATION Spec
CONSTANTS
  None = None
  Conns = {c1, c2, c3}
  Operators = {o1, o2}
  Devices = {phone, tablet}
  Addresses = {home}
  Strict = {}
  PENDING_CAP = 1
  MAX_PENDING_PER_IP = 1
  MaxActs = 2
  MaxLapses = 1
SYMMETRY Symmetry
INVARIANTS
  TypeOK
  AdmittedIsNotDenied
  NoSleepOnDecided
PROPERTIES
  NewestIsNotSuperseded
CHECK_DEADLOCK FALSE
