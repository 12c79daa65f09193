SPECIFICATION Spec
CONSTANTS
  Procs = {p1, p2}
  NoProc = NoProc
  CommandIds = {1, 2}
  Actions = {}
  NoAction = NoAction
  IdempotencyKey <- MCNoKeys
  BusinessKey <- MCNoKeys
  Authority <- MCNoKeys
  Ops = {"advance", "revise"}
  AdvanceKinds <- MCMessages
  Seeds <- MCRevisionSeeds
  NoRequest = NoRequest
  NoEvent = NoEvent
  NoFile = NoFile
  TornFile = TornFile
  MaxEvents = 8
  MaxRevision = 2
  MaxCrashes = 0
  MaxArtifacts = 0
  TearFiles = FALSE
  ReuseIds = TRUE
SYMMETRY MCSymmetry
INVARIANTS
  CommittedHistoryProjects
