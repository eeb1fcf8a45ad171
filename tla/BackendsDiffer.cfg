SPECIFICATION Spec
CONSTANTS
  Superadmin = "superadmin"
  Below <- MCBelow
  Likes <- MCLikes
  LengthOf <- MCLengthOf
  Word = 32
  Depth = 3
  Policies <- NullPolicies
  Listed = 2
  Grants <- MCGrants
  MaxGrants = 1
  Tuples <- MCTuples
  MaskRules <- MCMaskRules
  Subjects <- MCSubjects
  Resources <- MCResources
  RowNames = {1, 2, 3}
  RowOf <- NullRows
INVARIANT BackendsAgree
