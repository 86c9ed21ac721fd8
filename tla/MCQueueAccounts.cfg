SPECIFICATION Spec
CONSTANTS
  Accounts = {a, b}
  Devices = {d1, d2}
  Contents = {x, y}
  Empty = Empty
  None = None
  BackupsKeep = 1
  MaxActs = 3
  MaxFailures = 0
  MaxSwitches = 2
PROPERTIES
  ReplacedOnlyIfKept
CHECK_DEADLOCK FALSE
