SPECIFICATION Spec
CONSTANTS
  Users = {u1}
  Nobody = Nobody
  MaxTok = 2
  Procs = {p1, p2}
  MultiDevice = TRUE
  Ops = {"logout", "delete", "crash"}
INVARIANTS LoggedOutRefused DeletedRefused
PROPERTIES SessionsEndForACause ImplementsSessionAbs
SYMMETRY Symmetry
CHECK_DEADLOCK FALSE
