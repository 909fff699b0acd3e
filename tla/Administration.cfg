SPECIFICATION PartsSpec
CONSTANTS
  Handlers = {h1, h2}
  Crowd = 2
  None = None
  MaxId = 3
  Edits <- MCEdits
  DeptCrowd = 1
  MaxDept = 3
  MaxUser = 2
  Usernames = {n1}
  MaxPath = 3
  MaxType = 3
  MaxItem = 1
  Values = {v1, v2}
  RoleIds = {o1, o2}
INVARIANTS TreeIsSound RoutesAreReachable PathsFollowParents UsersAreSound NamesDiffer OwnValuesPass EditsAreWhole
PROPERTY DeleteIsExact
SYMMETRY Symmetry
CHECK_DEADLOCK FALSE
