CONSTANTS
  Proc = {p1, p2}
  NoProc = NoProc
  Waiter = {w1}
  MaxCells = 3
SPECIFICATION FairSpec
INVARIANTS TypeOK OneSetter ValueOfCall HeapExact
PROPERTIES WaitReturns
CHECK_DEADLOCK FALSE
