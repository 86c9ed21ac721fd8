SPECIFICATION FairSpec
CONSTANTS
  Accounts = {a1, a2}
  Tokens = {t1, t2, t3}
  Requests = {r1, r2}
  Workers = {w1, w2}
  First = a1
  FirstToken = t1
  None = None
  MaxActs = 2
  MaxCrashes = 1
INVARIANTS
  EmailHasItsAccount
  GoneIsLast
  RecordedKeepHolds
  OneSuccessor
  DeviceIsListed
PROPERTIES
  DeletionEnds
CHECK_DEADLOCK FALSE
