SPECIFICATION MCSpec
CONSTANTS
  u1 = u1
  g1 = g1
  g2 = g2
  o1 = o1
  viewer = viewer
  Member = Member
  NoTuple = NoTuple
  Users = {u1}
  Groups = {g1, g2}
  Objects = {o1}
  Relations = {Member, viewer}
  Tuples <- MCTuples
  Asks <- MCAsks
  TupleIds = {1, 2, 3}
  Calls = {c1}
  Writes = {w1}
  Values = {v1, v2, v3}
  NoParent = NoParent
  Unregistered = Unregistered
  Expansions = {c1}
  Saves = {s1}
CHECK_DEADLOCK FALSE
INVARIANT LookupIsExact
PROPERTIES
  UsersetsAreTheClosure
  LookupEnds
  AnswersTheSubtree
  EndsUnlessOnCycle
