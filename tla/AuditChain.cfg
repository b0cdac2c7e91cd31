SPECIFICATION FairSpec
CONSTANTS
  SignIns = {s1, s2, s3}
  Genesis = Genesis
  NoHash = NoHash
  NoOne = NoOne
  MaxEvents = 1
INVARIANTS
  TypeOK
  LinksResolve
  LinearInOrder
  AnsweredSignInsAreRecorded
PROPERTY SignInsEnd
CHECK_DEADLOCK FALSE
