SPECIFICATION Spec
CONSTANTS
  Users = {u1}
  Nobody = Nobody
  MaxTok = 2
  Procs = {p1, p2}
  MultiDevice = FALSE
  Ops = {"kick", "password"}
INVARIANTS TypeOK NewestDeviceOnly EndedSessionsRefused
SYMMETRY Symmetry
CHECK_DEADLOCK FALSE
