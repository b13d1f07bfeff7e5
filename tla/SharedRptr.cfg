CONSTANTS
  Proc = {p1, p2, p3}
  NoProc = NoProc
  MaxManagers = 4
  MaxHandles = 2
SPECIFICATION FairSpec
INVARIANTS TypeOK RefcountExact NoDangling NoEarlyFree
PROPERTIES NoResurrection Reclaimed ImplementsSharedObject
CHECK_DEADLOCK FALSE
