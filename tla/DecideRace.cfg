SPECIFICATION Spec
CONSTANTS
  Requests = {q1, q2, q3}
  Writes = {w1}
  Keys = {k1}
  Roots = {r1}
  Rels = {l1}
  DecideTTL = 2
  DescTTL = 2
  MaxTime = 5
  MaxDur = 1
  MaxOpen = 2
  MaxCrashes = 1
SYMMETRY Symmetry
VIEW LiveView
CONSTRAINT RaceOrAge
CHECK_DEADLOCK FALSE
INVARIANTS
  TypeOK
  HitSeesAnnounced
  StaleOnlyByOverlap
  BoundedStaleness
