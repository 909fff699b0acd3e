SPECIFICATION Spec
CONSTANTS
  Conns = {c1, c2}
  Tokens = {t1, t2}
  u1 = u1
  UserOf <- OneUser
  Insts = {i1, i2}
  None = None
  Ops = {"logout", "delete", "fail", "exit"}
INVARIANTS TypeOK ExpelledStaysOffline OnlineWhileOpen CountIsCurrent
SYMMETRY Symmetry
CHECK_DEADLOCK FALSE
