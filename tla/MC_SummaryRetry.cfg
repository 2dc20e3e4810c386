SPECIFICATION FairSpec
CONSTANTS
  Toots = {t1, t2}
  NoToot = NoToot
  MaxRetries = 3
  Backoff <- GrowingBackoff
  MaxWait = 3
  MaxLate = 1
  MaxFailures = 1
INVARIANTS
  TypeOK
  RetriesBounded
  SummariesBounded
  DoneMeansRewritten
PROPERTIES
  ClosedStaysClosed
  PendingSettles
