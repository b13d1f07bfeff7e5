CONSTANTS
  Proc = {p1, p2}
  MainProc = {p1}
  Task = {t1, t2}
  Free = Free
  Loop = Loop
  Gone = Gone
  Nowhere = Nowhere
  Nothing = Nothing
SPECIFICATION FairSpec
INVARIANTS TypeOK BarrierHolds OnePlace
PROPERTIES Terminates ImplementsTaskPool
CHECK_DEADLOCK FALSE
