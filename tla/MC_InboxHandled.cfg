SPECIFICATION Spec
CONSTANTS
  u1 = u1
  Users = {u1}
  Refused = {}
  AutoAccept = TRUE
  Activities <- OneFollow
  Requests = {r1}
  MaxLost = 1
  NoRow = NoRow
  NoActivity = NoActivity
INVARIANT AlreadyHandledMeansHandled
CHECK_DEADLOCK FALSE
