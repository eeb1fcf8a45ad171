SPECIFICATION Spec
CONSTANTS
  GrantIds = {g1}
  Principals = {p1, p2}
  Super = Super
  Dicts = {d1}
  NoDict = NoDict
  Requests = {q1}
  Saves = {s1}
  Deletes = {}
  DictSaves = {}
  Refreshes = {}
  MaxTurns = 0
  MaxEvents = 1
CHECK_DEADLOCK FALSE
INVARIANT WritesRefreshTheirKeys
