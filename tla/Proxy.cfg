CONSTANTS
  Proc = {p0, p1}
  NoProc = NoProc
  User = p0
  Maps = {"add", "here"}
  MaxOps = 3
SPECIFICATION FairSpec
INVARIANTS TypeOK NoAbort CachedProc AsIfLocal
PROPERTIES Resolves
CHECK_DEADLOCK FALSE
