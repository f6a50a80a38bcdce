SPECIFICATION Spec

CONSTANTS
  MaxChars = 8
  MinChars = 3
  MaxEdits = 2
  MaxRuns = 2
  MaxParagraphs = 2
  MaxSentences = 3
  RrfK = 60
  Limit = 3
  TopK = 2
  StaleSources = {"billing"}
  Snapshots <- MCSnapshots
  ConflictOf <- MCConflictOf
  Candidates <- MCCandidates
  Tickets <- MCTickets
  CliOutputs <- MCCliOutputs
  AiProps <- MCAiProps

INVARIANTS
  TypeOK
  EveryTextIsCutFaithfully
  StoreIsCurrent
  EveryFusionRespectsRanks
  OnlyHumansArbitrate
  TemplatesAgree
  DraftIsGrounded
  InjectionIsFlagged
  ValidMeansListed

PROPERTIES
  RerunChangesNothing
