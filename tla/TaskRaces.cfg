SPECIFICATION Spec
CONSTANTS
  Tasks = {t1}
  Crons = {c1}
  Interval = Interval
  None = None
  Bounded = {t1}
  Procs = {p1, p2}
  Workers = {w1}
  Calls = {"create", "update", "start", "stop", "delete", "once", "boot", "interval", "crash"}
INVARIANTS TypeOK StoppedStaysStopped ActivatedIsScheduled OneInit
SYMMETRY Symmetry
CHECK_DEADLOCK FALSE
