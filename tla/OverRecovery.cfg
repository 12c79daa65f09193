SPECIFICATION Spec
CONSTANTS
  Lines <- MCLines
  RiskFlags = {"suspected_fraud"}
  Batches <- MCBatches
  Revisions <- MCRevisions
  Candidates <- MCCandidates
  NoChoice = NoChoice
  NoCandidate = NoCandidate
  NoDecision = NoDecision
  NoContract = NoContract
  NoReservation = NoReservation
  NoClass = NoClass
  Instants = {0, 1}
  MaxRevision = 2
  MaxRuns = 2
INVARIANT
  NeverOverRecovers
\* A stopped, blocked or closed case, and the bounds, end a behaviour.
CHECK_DEADLOCK FALSE
