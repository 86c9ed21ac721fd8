SPECIFICATION FairSpec
CONSTANTS
  untold = untold
  short = short
  None = None
  Episodes = {untold, short}
  Size <- MCSize
  Declared <- MCDeclared
  Silent = {short}
  Budget = 2
  Starred = {}
  MaxTicks = 2
INVARIANTS
  OneTransfer
  WithinBudget
PROPERTIES
  DownloadsEnd
