SPECIFICATION RequestsSpec

CONSTANTS
  Users = {u1, u2}
  Workspaces = {w1, w2}
  Sessions = {s1, s2}
  Requests = {r1, r2}
  Connections = {c1, c2}
  Nobody = Nobody
  Rows <- MCRows

SYMMETRY Sym

INVARIANTS
  RequestsTypeOK
  IsolatedReads
  RevokedStayOut

CHECK_DEADLOCK FALSE
