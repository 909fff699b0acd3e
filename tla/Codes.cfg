SPECIFICATION Spec
CONSTANTS
  Requests = {r1, r2, r3}
  Ids = {i1}
  Codes = {c1, c2}
  Mails = {m1}
  Ips = {p1, p2}
  None = None
  LIMIT_TIME = 5
  Throttle = 2
  Minute = 1
  Window = 2
  MaxTicks = 2
INVARIANTS CaptchaOnce MinuteGap
SYMMETRY Symmetry
CHECK_DEADLOCK FALSE
