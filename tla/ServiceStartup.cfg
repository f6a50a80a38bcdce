CONSTANTS
  Tickets = {1, 2}
  Kinds = {"customer", "sync"}
  PageSize = 1
  Overlap = 1
  SeedLead = 1
  Handlers = {h1}
  h1 = h1
  HookWhitelisted = TRUE
  PollerWhitelisted = FALSE
  MaxUpdates = 3
  MaxFaults = 0
  IntervalArg = "settings"
  Schedulers = {stale_recovery, exhausted_sweep}
  stale_recovery = stale_recovery
  exhausted_sweep = exhausted_sweep
  Incidents = {}
SPECIFICATION Spec
INVARIANTS
  RunsUntilSignal
CHECK_DEADLOCK FALSE
