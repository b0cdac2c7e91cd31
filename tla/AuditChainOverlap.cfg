SPECIFICATION Spec
CONSTANTS
  SignIns = {s1, s2}
  Genesis = Genesis
  NoHash = NoHash
  NoOne = NoOne
  MaxEvents = 0
INVARIANT ChainVerifies
CHECK_DEADLOCK FALSE
