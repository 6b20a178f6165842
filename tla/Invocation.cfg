SPECIFICATION FairSpec
CONSTANTS
  Calls = {c1, c2}
  Paths = {p1, p2}
  Given = {p1}
  None = None
  Caller = Caller
  MaxExecs = 1
INVARIANTS AloneOwnServer   NoSocketLeft
PROPERTIES CallReturns
CHECK_DEADLOCK FALSE
