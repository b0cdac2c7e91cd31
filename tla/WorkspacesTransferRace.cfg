SPECIFICATION Spec
CONSTANTS
  Users = {u1, u2, u3}
  Invites = {i1, i2}
  Requests = {r1, r2}
  MaxRequests = 4
  NoUser = NoUser
  TransferRaces = TRUE
SYMMETRY Interchangeable
INVARIANT ExactlyOneOwner
CHECK_DEADLOCK FALSE
