SPECIFICATION PFairSpec
CONSTANTS
  None = None  c1 = c1  c2 = c2
  Conns = {c1, c2}
  Threads <- ThreeThreads
  MaxCalls <- FewCalls
INVARIANTS AtMostOneLate AnswersAreOwn FilesMatchHandles
PROPERTIES  GuestCallsEnd
CHECK_DEADLOCK FALSE
