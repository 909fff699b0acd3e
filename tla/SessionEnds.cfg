SPECIFICATION FairSpec
CONSTANTS
  Users = {u1}
  Nobody = Nobody
  MaxTok = 1
  Procs = {p1, p2}
  MultiDevice = TRUE
  Ops = {"update", "delete"}
INVARIANT EndedSessionsRefused
PROPERTY EveryHandlerEnds
CHECK_DEADLOCK FALSE
