CONSTANTS
  Tickets = {1, 2}
  Kinds = {"customer", "agent", "sync"}
  PageSize = 1
  Overlap = 1
  SeedLead = 1
  Handlers = {h1}
  h1 = h1
  HookWhitelisted = TRUE
  PollerWhitelisted = FALSE
  MaxUpdates = 3
  MaxFaults = 1
  IntervalArg = "seconds"
  Schedulers = {sweep}
  sweep = sweep
  Incidents = {"signal", "crash", "webhook", "worker", "load"}
SPECIFICATION Spec
INVARIANTS
  TypeOK
  NothingForgotten
  RowsPassTheGuard
  PoolOutlivesTasks
PROPERTIES
  PollerSurvivesErrors
  Backstop
  NeverHalfAlive
CHECK_DEADLOCK FALSE
