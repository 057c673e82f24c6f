\* A caller gives up while its handler works.
SPECIFICATION PlatformSpec
CONSTANTS
  Parts = {"requests"}
  Callers = {a, b}
  Kids = {k1, k2}
  FirstKids = {k1}
  NoCaller = NoCaller
  NoKid = NoKid
  MinRefresh = 2
  MaxKeyAge = 1
  ClientTimeout = 1
  MaxClock = 3
  Buckets = {q}
  Limit = 1
  Period = 5
  Burst = 2
  NsPerUs = 2
  UsPerMs = 3
  MaxNow = 9
  Requests = {r1, r2}
  AdmissionLimit = 1
  TenantClaims = {"", "acme"}
  RetryMethods = {"GetOrder"}
  MaxAttempts = 3
  DefaultTimeout = 3
  MinBudget = 1
  ReservePercent = 20
  MaxInstant = 5
  Calls = {c1, c2}
  MaxConns = 1
  Width = 5
  NanosPerUnit = 2
  Currencies = {"EUR", "USD"}
  MaxNanos = 3
  MaxQuantity = 5
  OrderIds = {1, 2, 3}
  ListTenants = {"acme", "globex"}
  PageSizes = {0, 5}
  DefaultPageSize = 1
  MaxPageSize = 2
  MaxTime = 1
  DuplicateWindow = 3
  StreamMaxAge = 3
  ProcessedEvents = 4
  Horizon = 12
INVARIANT
  CancellationIsNotInternal
CHECK_DEADLOCK FALSE
