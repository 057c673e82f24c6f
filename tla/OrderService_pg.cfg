SPECIFICATION FairSpec
CHECK_DEADLOCK FALSE
CONSTANTS
  c1 = c1
  c2 = c2
  c3 = c3
  t1 = t1
  t2 = t2
  o1 = o1
  o2 = o2
  o3 = o3
  Nobody = Nobody
  Clients <- ThreeClients
  Tenants <- TwoTenants
  Orders <- ThreeOrders
  TenantOf <- MCTenantOf
  Seed <- MCSeed
  Backend = "orderpg"
  MaxRequests = 4
INVARIANTS
  OrdersMatchEvents
PROPERTIES
  OutboxIdsFollowCommits
  TransactionsEnd
