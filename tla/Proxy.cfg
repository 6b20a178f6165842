SPECIFICATION FairSpec
CONSTANTS
  None = None
  Conns = {1, 2}
  Host <- SameHost
  Lifetime = 1
  MaxTime = 2
  MaxRequests <- TwoAndNone
INVARIANTS OneCertificatePerHost ObservedBeforeDelivered PairsWithoutInterim
PROPERTIES RequestEnds
CHECK_DEADLOCK FALSE
