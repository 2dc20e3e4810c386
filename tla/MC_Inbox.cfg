SPECIFICATION FairSpec
CONSTANTS
  u1 = u1
  Users = {u1}
  Refused = {}
  AutoAccept = TRUE
  Activities <- SomeActivities
  Requests = {r1, r2}
  MaxLost = 1
  NoRow = NoRow
  NoActivity = NoActivity
INVARIANTS
  TypeOK
  InboxInv
  CarriedOutOnce
PROPERTIES
  ListPromise
  FollowSettles
CHECK_DEADLOCK FALSE
