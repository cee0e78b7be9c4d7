SPECIFICATION NodeSpec
CONSTANTS
  c1 = c1
  c2 = c2
  c3 = c3
  k1 = k1
  k2 = k2
  k3 = k3
  v0 = v0
  v1 = v1
  v2 = v2
  n1 = n1
  n2 = n2
  xx = xx
  yy = yy
  toolong = toolong
  w1 = w1
  w2 = w2
  l1 = l1
  l2 = l2
  s1 = s1
  a1 = a1
  a2 = a2
  Admins <- TwoAdmins
  SoldPlans <- FreeAndPro
  LicenseOps <- LicenseOperations
  LastDay = 3
  NoRow = NoRow
  Nothing = Nothing
  NoConn = NoConn
  MaxTotal = 2
  MaxIdle = 1
  Callers <- ThreeCallers
  Conns <- ThreeConns
  Images <- ThreeImages
  Working <- WorkingImages
  Installed = v0
  Releases <- ThreeImages
  Current = v0
  Absent = Absent
  Torn = Torn
  OfflineThreshold = 3
  ReconnectInterval = 1
  MaxReconnectBackoff = 5
  MaxAttempts = 5
  MaxConsecFailures = 2
  MaxRestartFailures = 2
  MaxReloadFailures = 2
  RestartCooldown = 2
  ReloadCooldown = 2
  FailureWindow = 4
  Threshold = 2
  Cooldown = 2
  MaxKeys = 1
  Networks <- TwoNetworks
  Countries <- TwoCountries
  Listed <- ListedCodes
  None = None
  Watchers <- TwoWatchers
  Rates <- LowAndHigh
  PlanLimits <- UnlimitedAndTwo
  AnalyzerWindow = 1
  EmergencyTime = 1
  EmergencyFactor = 1
  AttackFactor = 3
  MaxSamples = 2
  MaxEntries = 2
  SnapshotMaxSize = 2
  Overhead = 1
  Logins <- TwoLogins
  Sessions <- OneSession
  Versions <- OneVersion
  NoSession = NoSession
  FailLimit = 2
  FailWindow = 1
  LockTime = 2
  SessionTTL = 1
  RegLimit = 1
  RegWindow = 1
  MaxUnlogged = 1
  Binaries <- OneBinary
  Numbers <- FollowedNumbers
  Texts <- FollowedTexts
  Contents <- NewImages
  Missing = Missing
  CutOff = CutOff
  Drafts <- SomeDrafts
  Edited <- SomeEdited
  Policies <- FourPolicies
  OldVersion <- VersionOfNode
  cpu1 = cpu1
  cpu2 = cpu2
  src = src
  bad = bad
  far = far
  lan = lan
  friend = friend
  net24 = net24
  Cpus <- TwoCpus
  Packets <- SomePackets
  Network <- InNet24
  Allowed <- Friends
  Blocklisted <- OneBad
  Abroad <- OneFar
  PrivateSources <- NotRouted
  FilterSettings <- Filters
  MaxClock = 1
  RuntimeDocuments <- ServerDocuments
  RestDocument <- PlainAdvanced
  RestPolicy <- Strict
  RestFilter <- Ample
INVARIANTS NodeTypesOK SlotsAccounted EveryConnectionOwned GoodCopyKept
  ToldTheMode ReportedOnce BackoffRespected AlertNotOverdue RefreshCatchesUp
  PaidAsSold BansLeaveLast GuessesBounded AnnouncementKept RunsAsDocumented AcceptedExpands AcceptedAsSigned
  LimitHoldsAlone SuccessIsWhole
PROPERTIES ImplementsLeasePool RolledBackExactly CalmBeforeOff KeptUnlessPurged
CHECK_DEADLOCK FALSE
