SPECIFICATION RecoverySpec
CONSTANTS
  Procs = {p1, p2}
  NoProc = NoProc
  CommandIds = {1}
  Actions = {}
  NoAction = NoAction
  IdempotencyKey <- MCNoKeys
  BusinessKey <- MCNoKeys
  Authority <- MCNoKeys
  Ops = {"advance", "revise", "recover", "freeze"}
  AdvanceKinds <- MCIntake
  Seeds <- MCDeduplicatedSeeds
  NoRequest = NoRequest
  NoEvent = NoEvent
  NoFile = NoFile
  TornFile = TornFile
  MaxEvents = 4
  MaxRevision = 2
  MaxCrashes = 2
  MaxArtifacts = 1
  TearFiles = FALSE
  ReuseIds = TRUE
INVARIANTS
  TypeOK
  AcknowledgedIsCommitted
  CheckpointsAgree
  QuietRunVerifies
  FrozenLedgerHolds
PROPERTIES
  CutIsQuarantined
  RequestsAnswered
  InterruptedIsRecovered
