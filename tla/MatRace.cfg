SPECIFICATION Spec
CONSTANTS
  GrantIds = {g1}
  Principals = {p1}
  Super = Super
  Dicts = {d1}
  NoDict = NoDict
  Requests = {q1, q2}
  Saves = {s1}
  Deletes = {x1}
  DictSaves = {v1}
  Refreshes = {f1}
  MaxTurns = 1
  MaxEvents = 2
CONSTRAINT FewEvents
SYMMETRY Symmetry
VIEW LiveView
CHECK_DEADLOCK FALSE
INVARIANTS
  TypeOK
  AnsweredWritesShow
