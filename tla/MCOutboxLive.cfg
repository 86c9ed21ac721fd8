SPECIFICATION FairSpec
CONSTANTS
  Entries = {1, 2}
  Drains = {d1, d2}
  Shards = 1
  ShardOf <- MCShardOf
  Accepts <- MCAccepts
  Limit = 1
  ParkAfter = 2
  AtMostOnce = {}
  MaxRetries = 0
  FailureCap = 2
  None = None
PROPERTIES
  Settles
