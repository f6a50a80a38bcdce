CONSTANTS
  Unit = 2
  Rate = 1
  Burst = 1
  Calls = {c1, c2, c3}
  c1 = c1
  c2 = c2
  c3 = c3
  Payloads <- MCPayloads
  HttpAttempts = 2
  Statuses <- MCStatuses
  AuditPool = "set"
  HasFreshdesk = TRUE
  MaxTime = 3
SPECIFICATION Spec
INVARIANTS
  TypeOK
  RateBound
  AnswersAreAudited
  AuditTellsTheTruth
  NoDeniedField
PROPERTIES
  CallsEnd
CHECK_DEADLOCK FALSE
