CONSTANTS
  Proc = {p0, p1}
  NoProc = NoProc
  User = p0
  Maps = {"inc", "add", "there"}
  MaxOps = 3
SPECIFICATION Spec
INVARIANTS NoAbort
CHECK_DEADLOCK FALSE
