SPECIFICATION VisitorSpec
CONSTANTS
  t1 = t1
  t2 = t2
  r1 = r1
  r2 = r2
  r3 = r3
  r4 = r4
  k1 = k1
  k2 = k2
  v1 = v1
  v2 = v2
  o1 = o1
  NoRecord = NoRecord
  Threads <- TwoThreads
  Records <- FourRecords
  Soft = 2
  Hard = 3
  Window = 1
  BanTime = 2
  NoCookie = NoCookie
  TTL = 5
  Threshold = 2
  CookieWindow = 2
  CookieThreads <- TwoThreads
  Cookies <- TwoCookies
  ChThreads <- TwoThreads
  Visitors <- TwoVisitors
  Tokens <- OneToken
  NoToken = NoToken
  LoopLimit = 1
  MaxPages = 2
  LoopWindow = 1
  LoopAge = 2
  MinSolve = 1
  HoldTime = 1
  TransparentTTL = 1
  ChallengeTTL = 2
  EscThreads <- OneThread
  EscThreshold = 1
  EscWindow = 1
  EscCooldown = 2
INVARIANTS VisitorTypesOK SoftLimitHolds FloodIsBanned BurstBounded EarnedOnce
PROPERTIES BanEnds RevocationHolds EntriesForgotten Forgiveness
