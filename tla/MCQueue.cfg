SPECIFICATION FairSpec
CONSTANTS
  Accounts = {a}
  Devices = {d1, d2}
  Contents = {x, y}
  Empty = Empty
  None = None
  BackupsKeep = 1
  MaxActs = 3
  MaxFailures = 1
  MaxSwitches = 1
INVARIANTS
  AgreedIsShared
PROPERTIES
  NothingLostOnPhone
  ReplacedOnlyIfKept
  Follows
CHECK_DEADLOCK FALSE
