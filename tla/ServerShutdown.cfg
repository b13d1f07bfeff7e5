CONSTANTS
  Proc = {p1, p2}
  MainProc = {p1}
  Task = {t1, t2}
  Free = Free
  Loop = Loop
  Gone = Gone
  Nowhere = Nowhere
  Nothing = Nothing
SPECIFICATION Spec
INVARIANTS EnqueueFromAnyThread
CHECK_DEADLOCK FALSE
