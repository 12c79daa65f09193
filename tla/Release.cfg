SPECIFICATION FairSpec
CONSTANTS
  Operators = {o1, o2}
  Launchers = {l1, l2}
  Scorers = {s1, s2}
  Privileged = {s1}
  Images <- MCImages
  Pinned <- MCPinned
  Flawed = {l2}
  NoOne = NoOne
  NoFile = NoFile
  TornFile = TornFile
  Altered = Altered
  NoData = NoData
  TearFiles = TRUE
  MaxCrashes = 2
  MaxAlterations = 1
INVARIANTS
  TypeOK
  RecordsAreBacked
  EligibleIsOneContainer
PROPERTIES
  ImplementsPromise
  AttestedRunConcludes
\* A released, damaged or wrongly prepared run stops, as do the bounds.
CHECK_DEADLOCK FALSE
