SPECIFICATION FairSpec
CONSTANTS
  u1 = u1
  Toots = {t1}
  Users = {u1}
  Inboxes = {i1, i2, i3}
  Owner <- MCOwner
  MaxParallel = 2
  MaxRowId = 3
  MaxRuns = 2
  MaxFailedDeletes = 1
INVARIANTS
  TypeOK
  NoDoubleSend
  ParallelSendsBounded
  NoLeakedSlot
  DuplicatesBounded
PROPERTIES
  DeliveryPromise
  QueueDrains
CHECK_DEADLOCK FALSE
