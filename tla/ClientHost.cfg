SPECIFICATION FairSpec
CONSTANTS
  Logs = {a, b}
  None = None
  DefineOps = 1
  RefusalLimit = 2
  MaxTurns = 3
  MaxLaunches = 2
  MaxReads = 1
  MaxPolls = 1
  MaxUpsets = 1
  MaxIds = 2
INVARIANTS
  TypeOK
  ReadyMeansServing
  ReadsAreOfTheirLog
  ArtifactsHaveOneWriter
  KnowledgeBeforeFold
PROPERTIES
  RequestsSettle
  ReadsArrive
  LosersTouchNothing
CHECK_DEADLOCK FALSE
