SPECIFICATION HistorySpec
CONSTANTS
  Users = {u1}
  Nobody = Nobody
  MaxTok = 2
  Procs = {p1}
  MultiDevice = TRUE
  Ops = {"password"}
INVARIANTS OldTokensStayOut
CHECK_DEADLOCK FALSE
