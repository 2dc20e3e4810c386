SPECIFICATION RetentionSpec
CONSTANTS
  Posts = {p1, p2}
  Mentions = {m1}
  NoPost = NoPost
  MaxTime = 5
  FutureLimit = 0
  InOrder = TRUE
  MaxErrors = 1
  MaxCrashes = 0
  MinCount = 1
  MinAge = 4
SYMMETRY Symmetry
INVARIANTS
  RetentionTypeOK
PROPERTIES
  KeepsNewest
  AgainOnlyIfRedated
CHECK_DEADLOCK FALSE
