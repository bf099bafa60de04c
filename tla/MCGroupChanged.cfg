SPECIFICATION Spec
CONSTANTS
  Cadence = 0
  SoftStep = 0
  SoftCap = 0
  BlockStep = 0
  BlockCap = 0
  m1 = m1
  m2 = m2
  m3 = m3
  Member = {m1, m2}
  Order <- MCPairOrder
  StoreOf <- MCPairStoreOf
  Price = {1, 2}
  Cashback = {0, 1}
  ThresholdTypes = {"price_drop_percent", "effective_price_below", "unknown"}
  ThresholdValue = 1
  CloseSpread = 0
  Runs = 2
  NoMember = NoMember
INVARIANTS
  ChangedMeansCheaper
