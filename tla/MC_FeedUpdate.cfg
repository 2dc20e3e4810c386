SPECIFICATION FairSpec
CONSTANTS
  Posts = {p1, p2}
  Mentions = {m1, m2}
  NoPost = NoPost
  MaxTime = 2
  FutureLimit = 0
  InOrder = TRUE
  MaxErrors = 1
  MaxCrashes = 1
INVARIANTS
  TypeOK
  FeedInv
  LossBounded
PROPERTIES
  LedgerPromise
  PostsRecorded
  PostsTooted
CHECK_DEADLOCK FALSE
