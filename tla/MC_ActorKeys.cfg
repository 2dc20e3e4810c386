SPECIFICATION KeysSpec
CONSTANTS
  Feeds = {f1}
  Users = {u1}
  Mentions = {m1}
  Loop = Loop
  NoFeed = NoFeed
  Written = {}
  AdminDeletes = FALSE
  Reliable = TRUE
  MaxCreations = 2
INVARIANT NoKeyMismatch
CHECK_DEADLOCK FALSE
