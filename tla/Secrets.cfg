SPECIFICATION FairSpec
CONSTANTS
  None = None
  Threads = {t1, t2}
  Keys = {k1, k2}
  Values = {v1}
  MaxFaults = 2
INVARIANTS AckedIsDurable MemoryMatchesFile
PROPERTIES ImplementsWriteBack CallsReturn
