SPECIFICATION Spec
CONSTANTS
  Feeds = {f1, f2}
  Users = {u1}
  Mentions = {m1}
  Loop = Loop
  NoFeed = NoFeed
  Written = {"toots"}
  AdminDeletes = TRUE
  MaxCreations = 2
SYMMETRY Symmetry
INVARIANTS
  TypeOK
  AccountsInv
PROPERTY PurgeTakesLateFollowsOnly
CHECK_DEADLOCK FALSE
