SPECIFICATION FairSpec
CONSTANTS
  ann = ann
  old = old
  feed = feed
  Listeners = {ann}
  Tokens = {old}
  Orders = {old}
  Shows = {feed}
  Codes = {}
  Workers = {w1, w2, w3}
  Kind <- MCKind
  Tests = {}
  OrderOf <- MCOrderOf
  ShowOf <- MCShowOf
  AccountOf <- MCAccountOf
  CodeShow <- MCCodeShow
  MaxUses <- MCMaxUses
  Plus = Plus
  None = None
  ByCode = ByCode
PROPERTIES
  PurchaseNeverRewritten
  VoidedIsRefunded
  DueIsAcknowledged
