SPECIFICATION Spec
CONSTANTS
  h1 = h1
  h2 = h2
  p1 = p1
  p2 = p2
  p3 = p3
  Hosts = {h1, h2}
  Pages = {p1, p2, p3}
  NoPage = NoPage
  Workers = {w1, w2}
  HostOf <- MCHostOf
  Gap = 2
  MaxHosts = 1
  MaxStale = 1
  MaxTime = 4
  MaxSlots = 3
  Ttl = 2
  MaxSize = 2
INVARIANTS
  TypeOK
  CacheBounded
  WaitBounded
  SleepersSpaced
  SlotsSpaced
PROPERTIES
  ForgetsOldestOnly
  PastCapOnlyWhenBusy
CHECK_DEADLOCK FALSE
