SPECIFICATION Spec
CONSTANTS
  Store = Store
  Admin = Admin
  Codes = {1, 2}
  Length <- OneDayEach
  Purchases = {p1, p2}
  Ends <- SomeEnds
  GivenDays = {2}
  Never = Never
  None = None
  Workers = {w1, w2}
  MaxTime = 1
  MaxActs = 4
SYMMETRY Interchangeable
INVARIANTS CodesFollowOn QueueTellsLatestEnd UntilIsFirstGap
PROPERTY ChangesAtOnce
CHECK_DEADLOCK FALSE
