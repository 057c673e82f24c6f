\* Every component of the platform on its own small instance.
SPECIFICATION PlatformSpec
CONSTANTS
  Parts = {"keys", "rate", "requests", "upstream", "server", "worker", "money", "listing", "retention"}
  \* KeyCache: two callers, a rotated key; a refresh interval longer than a key's age
  Callers = {a, b}
  Kids = {k1, k2}
  FirstKids = {k1}
  NoCaller = NoCaller
  NoKid = NoKid
  MinRefresh = 2
  MaxKeyAge = 1
  ClientTimeout = 1
  MaxClock = 3
  \* RateLimit: an interval and a tolerance that neither unit divides
  Buckets = {q}
  Limit = 1
  Period = 5
  Burst = 2
  NsPerUs = 2
  UsPerMs = 3
  MaxNow = 9
  \* RequestPath: two calls, one slot
  Requests = {r1, r2}
  AdmissionLimit = 1
  TenantClaims = {"", "acme"}
  \* UpstreamCall: a read that is retried
  RetryMethods = {"GetOrder"}
  MaxAttempts = 3
  DefaultTimeout = 3
  MinBudget = 1
  ReservePercent = 20
  MaxInstant = 5
  \* ServerLifecycle: one call over each surface, or two over one
  Calls = {c1, c2}
  \* WorkerProcess: the smallest pool the configuration accepts
  MaxConns = 1
  \* Money: five-bit integers, two nanos to the unit
  Width = 5
  NanosPerUnit = 2
  Currencies = {"EUR", "USD"}
  MaxNanos = 3
  MaxQuantity = 5
  \* OrderListing: three orders, pages of one and two
  OrderIds = {1, 2, 3}
  ListTenants = {"acme", "globex"}
  PageSizes = {0, 5}
  DefaultPageSize = 1
  MaxPageSize = 2
  MaxTime = 1
  \* EventRetention: long enough for two copies and a pruned deduplication row
  DuplicateWindow = 3
  StreamMaxAge = 3
  ProcessedEvents = 4
  Horizon = 12
INVARIANTS
  PlatformTypeOK
  QuotaHolds
  SlotsMatchCalls
  OnlyAuthorisedCallsAreHandled
  AnswersAreMapped
  UpstreamFaultsStayUpstream
  ShutdownLosesNoCall
  ExitReleasesWhatWasBuilt
  ExitAfterTheLoops
  AmountsAreExact
  ListingsAreExact
  DoubleCountsAreLate
PROPERTIES
  RotationIsNoticed
  RevocationTakesEffect
  HeldKeySurvivesOutage
  AnswersPredictTheNext
  VerificationsEnd
  CallsAreAnswered
  SigtermEndsProcesses
  LoopsNeverWaitForever
\* Processes exit, and the model's clocks stop.
CHECK_DEADLOCK FALSE
