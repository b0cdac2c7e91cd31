SPECIFICATION Spec
CONSTANTS
  Calls = {c1, c2}
  Keys = {k1, k2}
  Limit = 2
  MaxTokens = 2
  MaxUsed = 2
  MaxMonth = 2
  NoOne = NoOne
  NoKey = NoKey
INVARIANT InsertMeetsNoOtherKey
CHECK_DEADLOCK FALSE
