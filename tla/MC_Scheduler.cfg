SPECIFICATION FairSpec
CONSTANTS
  Feeds = {f1, f2, f3, f4}
  NoFeed = NoFeed
INVARIANTS
  TypeOK
  FairTurns
PROPERTY OnlyAStuckFeedStarves
CHECK_DEADLOCK FALSE
