--------------------------- MODULE MCOrderService --------------------------
(* TLC instances of OrderService. *)
EXTENDS OrderService, TLC

CONSTANTS c1, c2, c3, t1, t2, o1, o2, o3

TwoClients == {c1, c2}
ThreeClients == {c1, c2, c3}
TwoTenants == {t1, t2}
TwoOrders == {o1, o2}
ThreeOrders == {o1, o2, o3}
Symmetry == Permutations(Clients)

\* o1 is still to be created, o2 is seeded, o3 belongs to the other tenant.
MCTenantOf == [o \in Orders |-> IF o = o3 THEN t2 ELSE t1]
MCSeed == [o \in Orders |-> IF o = o2 THEN "CONFIRMED" ELSE Absent]
=============================================================================
