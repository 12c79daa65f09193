SPECIFICATION Spec
CONSTANTS
  p1 = p1
  p2 = p2
  a1 = a1
  a2 = a2
  v1 = v1
  v2 = v2
  m1 = m1
  m2 = m2
  NoAction = NoAction
  NoId = NoId
  NoJob = NoJob
  NoFile = NoFile
  Procs = {p1}
  Actions = {a1}
  Replacements = {}
  Routes = {"DELEGATED_DECISION"}
  Verifications = {v1}
  Messages = {m1}
  MaxRevision = 1
  MaxCrashes = 0
PROPERTIES
  FrozenRunIsStill
\* A frozen, stopped or closed case, and the bounds, end a behaviour.
CHECK_DEADLOCK FALSE
