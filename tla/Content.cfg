SPECIFICATION ContentSpec

CONSTANTS
  u1 = u1  u2 = u2  u3 = u3  w1 = w1  w2 = w2  t1 = t1
  Actors <- MCActors
  NoteIds = {n1}
  Drafts = {d1, d2}
  Original = Original
  MaxVersion = 4
  BudgetWorkspace = w1
  Calls = {e1, e2}
  Months = {m1, m2}
  Currencies = {eur, usd}
  Amounts <- MCAmounts
  Limits = {1, 2}
  MaxTotal = 2
  TaskIds = {1, 2, 3}
  OtherIds = {1}
  Statuses = {"todo", "done"}
  PageLimits = {0, 2, 5}
  MaxPage = 2
  Habits = {h1}
  Dates = {1}
  Deltas <- MCDeltas
  MaxXp = 1
  MaxImports = 1
  States = {s1, s2}
  Callbacks = {c1, c2, c3}
  Nonces = {x1, x2}
  Deliveries = {y1, y2, y3}
  Tabs = {t1, t2}
  SessionTokens = {k1, k2}
  NoToken = NoToken
  MaxRequests = 3

INVARIANTS
  ContentTypeOK
  HistoryComplete
  AppliedAtMostOnce
  CheckedWithinLimit
  ListingSeesSurvivors
  SubmittedFieldsSurvive
  ReplayRefused
  NonceProcessedOnce
  SignedOutStaysOut

PROPERTIES
  NothingUnseenIsOverwritten
  DeletedStaysDeleted
  OwnWorkspaceOnly

CHECK_DEADLOCK FALSE
