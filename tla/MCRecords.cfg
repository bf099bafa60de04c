CHECK_DEADLOCK FALSE
SPECIFICATION LaneSpec
CONSTANTS
  Prices = {100, 104, 300}
  MaxNow = 5
  Keep = 3
  Lookback = 3
  MaxSamples = 4
  MinSamples = 3
  MaxPrice = 1000
  MinDropAmount = 5
  MinDropPct = 100
  IqrMultiplier = 3
  ZScore = 4
  ZeroVarAbs = 100
  ZeroVarPct = 5000
  Products = {p1, p2}
  Target = 3
  Shops = {"s1"}
  PerShop = 2
  MaxDay = 2
  Urls = {"u1", "u2"}
  MaxLines = 4
  MaxEntries = 3
  Slots = 2
  MaxRetries = 1
  Budget = 2
  MaxSecond = 2
  CrawledStores = {c1}
  Found = 1
  LastHour = 3
  MaxCrawls = 3
  RowLimit = 2
  RecentDays = 1
  BaselineDays = 2
  ParseDrop = 15
  ErrorRise = 10
  DealDrop = 5
  Cadence = 0
  SoftStep = 0
  SoftCap = 0
  BlockStep = 0
  BlockCap = 0
  m1 = m1
  m2 = m2
  m3 = m3
  Member = {m1, m2, m3}
  Order <- MCOrder
  StoreOf <- MCStoreOf
  Price = {1, 2}
  Cashback = {0, 1}
  ThresholdTypes = {"price_drop_percent", "effective_price_below", "unknown"}
  ThresholdValue = 1
  CloseSpread = 0
  Runs = 2
  NoMember = NoMember
  MaxOffers = 2
  Amounts = {3}
  MaxRisks = 5
  MaxItems = 3
  MaxDraft = 4
INVARIANTS
  RecordsTyped
  VersionIsHonest
  
  ReportIsEarned
  
  NarrativeIsSound
PROPERTIES
  
  RegularPricePasses
  
  
