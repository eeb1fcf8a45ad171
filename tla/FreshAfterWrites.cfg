SPECIFICATION Spec
CONSTANTS
  Requests = {q1, q2}
  Writes = {w1}
  Keys = {k1}
  Roots = {r1}
  Rels = {}
  DecideTTL = 1
  DescTTL = 1
  MaxTime = 0
  MaxDur = 0
  MaxOpen = 2
  MaxCrashes = 0
CHECK_DEADLOCK FALSE
INVARIANT FreshAfterWrites
