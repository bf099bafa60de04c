CHECK_DEADLOCK FALSE
SPECIFICATION LaneSpec
CONSTANTS
  u1 = u1
  u2 = u2
  u3 = u3
  u4 = u4
  s1 = s1
  s2 = s2
  NoStore = NoStore
  NoHint = NoHint
  Urls = {u1, u2, u3, u4}
  Stores = {s1, s2}
  GoodPaths = {u1, u3}
  Manifests <- MCManifests
  StoreOf <- MCStoreOf
  Offers <- MCOffers
  Similarity <- MCSimilarity
  Tasks = {t1, t2}
  Cooldowns = {0, 240}
  MaxMails = 1
  Writers = {api, reviewer}
  Artifacts = {p1, p2}
  Decisions = {"confirmed", "overridden"}
  MaxJobs = 3
  pat1 = pat1
  pat2 = pat2
  Summaries <- MCSummaries
  Verdicts = {"confirmed"}
  PerPatternLimit = 2
  Wishes = {{"import"}, {"reset", "seed", "import", "harvest"}}
  Budgets = {0, 1}
  MaxRuns = 3
  MaxCampaigns = 1
  MaxReviews = 1
  TaskRuns = {t1, t2}
  GroupRuns = {g1}
  Pages = {p1}
  Amounts = {1, 2}
  MaxEdits = 1
  ShopKeys = {"s1"}
  Callbacks = {d1, d2, b1, b2}
  Bounces = {b1, b2}
  Answers = {"accepted", "refused"}
  LastDay = 2
  IndexReach = 0
  ReportReach = 1
  MaxLogLines = 1
  MaxPapers = 1
  MaxBusy = 1
SYMMETRY MCPatterns
INVARIANTS
  ServicesTyped
  EvidenceIsSound
  IntakeIsSafe
  
  
  
  
PROPERTIES
  ReviewsAreSafe
  
  ReportsAreTrue
