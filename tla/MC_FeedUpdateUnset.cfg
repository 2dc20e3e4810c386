SPECIFICATION FairSpec
CONSTANTS
  Posts = {p1}
  Mentions = {m1, m2}
  NoPost = NoPost
  MaxTime = 2
  FutureLimit = 0
  InOrder = TRUE
  MaxErrors = 1
  MaxCrashes = 0
PROPERTY AccountsScheduled
CHECK_DEADLOCK FALSE
