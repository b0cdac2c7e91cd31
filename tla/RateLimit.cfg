SPECIFICATION FairSpec
CONSTANTS
  Requests = {r1, r2, r3}
  Pool = 4
  MaxAttempts = 2
  Window = 1
  Lockout = 2
  MaxTime = 3
  NoRow = NoRow
  NoOne = NoOne
INVARIANTS
  TypeOK
  NoEarlyLockout
  CountsTheRowItRead
PROPERTIES
  LockoutHoldsOnceSeen
  RequestsAreAnswered
CHECK_DEADLOCK FALSE
