SPECIFICATION Spec
CONSTANTS
  Entries = {1, 2}
  Drains = {d1, d2}
  Shards = 2
  ShardOf <- MCShardOf
  Accepts <- MCAccepts
  Limit = 2
  ParkAfter = 2
  AtMostOnce <- MCAtMostOnce
  MaxRetries = 1
  FailureCap = 4
  None = None
SYMMETRY Interchangeable
INVARIANTS
  NothingDropped
  WorkNotRepeated
  ParkingsPaid
PROPERTIES
  GoneStaysGone
