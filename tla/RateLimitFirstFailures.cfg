SPECIFICATION FairSpec
CONSTANTS
  Requests = {r1, r2, r3}
  Pool = 4
  MaxAttempts = 2
  Window = 1
  Lockout = 2
  MaxTime = 2
  NoRow = NoRow
  NoOne = NoOne
PROPERTY LockoutHolds
CHECK_DEADLOCK FALSE
