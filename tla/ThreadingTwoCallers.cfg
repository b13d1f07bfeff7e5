CONSTANTS
  Worker = {h1, h2, h3}
  User = {u1, u2}
  Caller = {u1, u2}
  MaxRounds = 2
  Nobody = Nobody
SPECIFICATION Spec
INVARIANTS AllActive
CHECK_DEADLOCK FALSE
