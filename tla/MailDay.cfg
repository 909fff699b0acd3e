SPECIFICATION Spec
CONSTANTS
  Requests = {r1, r2, r3}
  Ids = {}
  Codes = {}
  Mails = {m1}
  Ips = {p1, p2}
  None = None
  LIMIT_TIME = 2
  Throttle = 2
  Minute = 1
  Window = 3
  MaxTicks = 3
INVARIANTS FivePerDay
SYMMETRY Symmetry
CHECK_DEADLOCK FALSE
