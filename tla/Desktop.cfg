SPECIFICATION DesktopSpec
CONSTANTS
  Fact = {x}
  Build = {"unix", "windows"}
  MaxErrors <- Refusals
  Absent = Absent
  Garbled = Garbled
  offA = offA
  offB = offB
  login1 = login1
  tokT = tokT
  tokU = tokU
  Unknown = Unknown
  Official = {offA, offB}
  Token = {tokT, tokU}
  Login = {login1}
  Batch <- Batches
  MaxAccounts = 2
  MaxIds = 3
  SessionId = {i1, i2}
  Passphrase = {k1}
  SessionTtl = 1
  MaxSessions = 1
  LastTick = 2
  carA = carA
  carB = carB
  QuotaCar = {carA, carB}
  ToolsOf <- SharedTools
  Asker = {a1, a2}
  MaxTried = 2
  MaxStarts = 2
  NoCar = NoCar
  HCar = {hA, hB}
  HSeat = {s1}
  Command = {w1, w2}
  HBuild = {"unix", "windows"}
  MaxRecords = 2
  NoFile = NoFile
  Damaged = Damaged
  Ride = {ride1, ride2}
  NoUpdate = NoUpdate
  Offer <- Offers
  Target = "here"
  Versioned = TRUE
  Tool = {"t1"}
  CarAccess = {"x", "y"}
  Setting <- Settings
  MaxFaults = 1
  Releases = 3
  Broken = {2}
  Launch = {l1}
  MaxToolMishaps = 1
  Rider = {r1}
  HostLimit = 1
  MaxRides = 2
  MaxDials = 3
  MaxLosses = 2
  Metered = {m1, m2}
  Answer <- Answers
  Prices <- PriceList
  LongContext = 2
  Million = 2
  TokenLimits <- SomeLimits
  Ttl = 1
  Ahead = 1
  Five = 1
  Day = 1
  Week = 2
  Skew = 1
  MaxTime = 3
  LastDay = 3
  MaxEntries = 2
  Retention = 2
  MaxBytes = 2
  MaxLogged = 4
  MaxCuts = 2
  InviteCar = {carA, carB}
  CodesOf <- InviteCodes
  Lease = 7
  Interval = 1
  Pass = 1
  Misses = 1
  OwnerQuota = 1
  Renewal = {"l1"}
  NoInvites = NoInvites
INVARIANTS
  DesktopTypeOK
  StoreIsKept
  OfficialOnce
  ShownBeforeApplied
  BestAccountSpeaks
  HistoryIsSound
  InstallsAndRidesExclude
  OriginalKept
  PointerIsSound
  LinkIsRepaired
  RequestsAccounted
  LogsKeepTheNewest
  DamageIsContained
  InvitesAreTrue
PROPERTIES
  AccountsReplacedWhole
  ImportsAreFaithful
  LastResultStays
  VerifiedIsKept
  UntouchedWhileInUse
CHECK_DEADLOCK FALSE
