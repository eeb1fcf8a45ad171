SPECIFICATION Spec
CONSTANTS
  Values = {v1, v2, v3}
  NoParent = NoParent
  Unregistered = Unregistered
  Calls = {c1}
  Saves = {s1}
CHECK_DEADLOCK FALSE
PROPERTY AlwaysEnds
