SPECIFICATION Spec
CHECK_DEADLOCK FALSE
CONSTANTS
  c1 = c1
  c2 = c2
  c3 = c3
  t1 = t1
  t2 = t2
  o1 = o1
  o2 = o2
  o3 = o3
  Nobody = Nobody
  Clients <- TwoClients
  Tenants <- TwoTenants
  Orders <- TwoOrders
  TenantOf <- MCTenantOf
  Seed <- MCSeed
  Backend = "orderpg"
  MaxRequests = 3
SYMMETRY Symmetry
INVARIANTS
  CancelledOnce
