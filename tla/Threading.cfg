CONSTANTS
  Worker = {h1, h2, h3, h4}
  User = {u1, u2, u3}
  Caller = {u1}
  MaxRounds = 2
  Nobody = Nobody
SPECIFICATION FairSpec
INVARIANTS TypeOK Exclusive InUse AllActive
PROPERTIES DisableReturns
CHECK_DEADLOCK FALSE
