SPECIFICATION FairSpec
CONSTANTS
  Calls = {c1, c2, c3}
  Keys = {k1, k2}
  Limit = 2
  MaxTokens = 2
  MaxUsed = 2
  MaxMonth = 2
  NoOne = NoOne
  NoKey = NoKey
INVARIANTS
  TypeOK
  WithinLimit
  OneEventPerKey
PROPERTIES
  LedgerIsKept
  CallsEnd
CHECK_DEADLOCK FALSE
