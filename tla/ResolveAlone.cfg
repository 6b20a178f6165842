SPECIFICATION Spec
CONSTANTS
  None = None  Empty = Empty  Torn = Torn
  p1 = p1  p2 = p2  t1 = t1  t2 = t2  a1 = a1  a2 = a2  c1 = c1  c2 = c2
  Procs = {p1}
  Toolsets = {t1}
  File <- FileShared
  Modules = {1, 2}
  Versions = {1, 2}
  Archives = {a1, a2}
  Commits = {c1, c2}
  Build <- BuildOf
  Toolsets0 <- FirstVersion
  Locks0 <- LocksFirst
  Overlays0 <- OverlaysNone
  Releases0 <- ReleasesMixed
  Tags0 <- TagsFirst
  Caches0 <- CachesMixed
  Upgrades <- AnyUpgrade
  MaxFaults = 1
  MaxEdits = 1
INVARIANTS SuccessMeansLocked LoadedMatchesPin SuccessLeavesCacheWarm
PROPERTY LockChangesOnlyOnSuccess
