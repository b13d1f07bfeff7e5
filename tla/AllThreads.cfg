CONSTANTS
  Worker = {0, 1, 2}
  Task = {t1, t2, t3, t4}
  Caller = Caller
  Nobody = Nobody
  Starts <- MCStarts
SPECIFICATION FairStart
INVARIANTS TypeOK OncePerWorker Pinned
PROPERTIES InitializeReturns
CHECK_DEADLOCK FALSE
