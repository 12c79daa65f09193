SPECIFICATION RetrySpec
CONSTANTS
  Actions <- MCRivals
  Operation <- MCOperation
  BusinessKey <- MCBusinessKey
  Faults <- MCFaults
  NoAction = NoAction
  NoJob = NoJob
  NoTail = NoTail
  NoFile = NoFile
  WholeFile = WholeFile
  TornFile = TornFile
  MaxAttempts = 6
  MaxCrashes = 2
  TearFiles = TRUE
INVARIANTS
  TypeOK
  ReceiptMeansEffects
  IntentBeforeEffect
  OneRemedyPerQuantity
  NoBlindRetry
PROPERTIES
  CutIsQuarantined
  ImplementsRemedy
  RetriedIsAnswered
\* The bound on the attempt journal ends a behaviour.
CHECK_DEADLOCK FALSE
