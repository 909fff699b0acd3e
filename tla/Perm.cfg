SPECIFICATION SpecTwo
CONSTANTS
  Users = {u1, u2}
  Roles = {1, 2}
  Root = 1
  Menus = {2}
  Below <- BelowMC
  Absent = Absent
  Procs = {p1, p2}
  Calls = {"assign", "disable", "roleUpdate", "roleDelete", "menuCreate", "menuUpdate", "menuDelete", "expire", "crash"}
  FewRoles = {2}
INVARIANTS RefreshedAlone NoOrphans DisabledHoldsNothing
SYMMETRY Symmetry
CHECK_DEADLOCK FALSE
