SPECIFICATION Spec
CONSTANTS
  Runs = {r1}
  Materials = {m1, m2}
  Generators = {g1, g2}
  Releasers = {p1, p2}
  Handlings <- MCHandlings
  NoFile = NoFile
  Torn = Torn
  Blank = Blank
  None = None
  MaxGenerations = 2
  MaxCommits = 4
  MaxEdits = 1
SYMMETRY Alike
INVARIANTS
  TypeOK
  PackReproduces
  ScoredBlind
\* Once the bounds are reached and every file is written, nothing is left to do.
CHECK_DEADLOCK FALSE
