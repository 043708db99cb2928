\* Two request identifiers, and time for one to be used again.
SPECIFICATION Spec
CONSTANTS
  Requests = {"r1", "r2"}
  LongIds = {"r2"}
  Outputs = {odom}
  Commands = {velocity, goal}
  Guarded = {velocity}
  MaxHandles = 2
  MaxRequests = 2
  RequestTtl = 2
  MaxControlRate = 3
  RateWindow = 2
  Interval = 1
  MaxBytes = 2
  CacheBytes = 9
  MaxTime = 2
  MaxSeq = 1
  MaxId = 2
  odom = odom
  velocity = velocity
  goal = goal
INVARIANTS AnsweredRunsOnce CacheAccounted RecordsAgree CalledOnce
CHECK_DEADLOCK FALSE
