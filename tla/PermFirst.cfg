SPECIFICATION Spec
CONSTANTS
  Users = {u1}
  Roles = {2}
  Root = 1
  Menus = {2}
  Below <- BelowMC
  Absent = Absent
  Procs = {p1}
  Calls = {"assign"}
INVARIANTS GrantedIsAllowed
SYMMETRY Symmetry
CHECK_DEADLOCK FALSE
