SPECIFICATION Spec
CONSTANTS
  Procs = {p1, p2}
  NoProc = NoProc
  CommandIds = {1, 2}
  Actions <- MCActions
  NoAction = NoAction
  IdempotencyKey <- MCIdempotencyKey
  BusinessKey <- MCBusinessKey
  Authority <- MCAuthority
  Ops = {"advance", "reserve", "revise", "reopen", "recover"}
  AdvanceKinds <- MCPlanning
  Seeds <- MCWriterSeeds
  NoRequest = NoRequest
  NoEvent = NoEvent
  NoFile = NoFile
  TornFile = TornFile
  MaxEvents = 11
  MaxRevision = 3
  MaxCrashes = 1
  MaxArtifacts = 0
  TearFiles = TRUE
  ReuseIds = FALSE
SYMMETRY MCSymmetry
INVARIANTS
  ReservedOnce
  ReservationBindsPreparedHead
  CommandCommitsOnce
  CommittedHistoryProjects
PROPERTIES
  DecidedOnThisHistory
  ImplementsDurableLog
