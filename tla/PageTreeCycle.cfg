SPECIFICATION PageSpec

CONSTANTS
  Pages = {p1, p2, p3}
  PageWorkspaces = {w1, w2}
  Moves = {m1, m2}
  NoParent = NoParent
  MaxDepth = 2

SYMMETRY Sym

INVARIANTS
  Acyclic

CHECK_DEADLOCK FALSE
