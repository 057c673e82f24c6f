\* Two requests at a time, one relay, one worker; a row may be stored twice.
SPECIFICATION FairSpec
CHECK_DEADLOCK FALSE
CONSTANTS
  c1 = c1
  c2 = c2
  t1 = t1
  o1 = o1
  r1 = r1
  w1 = w1
  Nobody = Nobody
  NoMsg = NoMsg
  Clients = {c1, c2}
  Tenants = {t1}
  Orders = {o1}
  TenantOf <- MCTenantOf
  Seed <- MCSeed
  MaxRequests = 3
  Relays = {r1}
  BatchSize = 1
  TransientErrors = {"refused"}
  MaxRelayFaults = 1
  Workers = {w1}
  MaxDeliver = 1
  MaxWorkerFaults = 1
  Copies = 2
  Contents <- MCContents
INVARIANTS
  PathTypeOK
  CountsAreReal
  NoOrderGoesMissing
  CreatedBeforeCancelled
PROPERTIES
  ImplementsRelay
  EventuallyCounted
