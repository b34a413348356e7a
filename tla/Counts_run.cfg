CONSTANTS
  u1 = u1
  wow = wow
  c1 = c1
  c2 = c2
  Users <- OneUser
  Calls <- TwoCalls
  Kits <- OneKit
  KitTools <- OneFreeOnePaid
  Caps <- CapOfOneAndTwo
  MaxPending = 1
  MaxReports = 1
  ReportCalls = 2
  VisitGap = 0
  DayLength = 1
  Budget <- Busy
  i1 = i1
  i2 = i2
  i3 = i3
  i4 = i4
  d1 = d1
  d2 = d2
  d3 = d3
  a1 = a1
  a2 = a2
  a3 = a3
  a4 = a4
  v1 = v1
  v2 = v2
  p1 = p1
  p2 = p2
  h1 = h1
  h2 = h2
  Instances <- FourInstances
  Devices <- ThreeDevices
  DeviceOf <- TheirDevice
  Addresses <- FourAddresses
  TrustedRange <- InRange
  CodeUsers <- TwoCodeUsers
  CodePosts <- TwoCodePosts
  Hosts <- TwoHosts
  Callers <- TwoCallers
  Clients <- TwoCalls
  FullOf <- Bursts
  RateOf <- Rates
  Cost = 2
  Tracked <- TwoOrOne
  SweepInterval = 3
  PerMinute = 2
  PerHost = 1
  PerAddress = 1
  Minute = 2
  MaxAge = 2
  CacheSize = 1
  MaxTime = 4
SPECIFICATION CountsSpec
SYMMETRY Symmetry
INVARIANT LimitsHold
INVARIANT UsageExact
INVARIANT EventsAccounted
INVARIANT VisitsAgree
INVARIANT FetchesBounded
INVARIANT KeysOfTheWait
PROPERTY BucketsHold
CHECK_DEADLOCK FALSE
