SPECIFICATION Spec
CONSTANTS
  ann = ann
  bob = bob
  gifted = gifted
  sold = sold
  again = again
  o1 = o1
  o2 = o2
  feed = feed
  code = code
  Listeners = {ann, bob}
  Tokens = {gifted, sold, again}
  Orders = {o1, o2}
  Shows = {feed}
  Codes = {code}
  Workers = {w1, w2}
  Kind <- MCKind
  Tests = {again}
  OrderOf <- MCOrderOf
  ShowOf <- MCShowOf
  AccountOf <- MCAccountOf
  CodeShow <- MCCodeShow
  MaxUses <- MCMaxUses
  Plus = Plus
  None = None
  ByCode = ByCode
INVARIANTS
  GiftHasOneHome
  ShowFollowsItsPurchase
PROPERTIES
  OwnedShowKeepsItsSource
  RefundIsFinal
SYMMETRY Interchangeable
