SPECIFICATION PartsSpec
CONSTANTS
  Requests = {r1, r2}
  MaxTodo = 2
  None = None
  MaxRow = 3
  DefaultSize = 2
  MaxSize = 3
  Uploads = {u1, u2}
  Deletes = {d1}
  Names = {a}
  Exts = {"png", "zip"}
  Moments = {1, 2}
  Days = {1}
  MaxOpen = 2
  a = a
  b = b
  d = d
  e = e
  Keys <- SomeKeys
  Searches <- SomeSearches
  Limit = 2
  MaxWrite = 2
  Callers = {o1, o2}
  Ttl = 2
  TimeLimit = 2
  Month = 3
  MaxTime = 6
  Runs = {j1, j2}
  Tasks = {t1}
  Crons = {c1, c2}
  Interval = Interval
  Bounded = {t1}
  Procs = {p1}
  Workers = {w1}
  Calls = {"create", "update", "start", "stop", "delete", "once", "boot", "interval"}
INVARIANTS  DeletedStaysDeleted   RowsHaveFiles WalkIsComplete OverviewIsRecent RunsAreLogged KnownSchedules
PROPERTY ActivatedRuns
CHECK_DEADLOCK FALSE
