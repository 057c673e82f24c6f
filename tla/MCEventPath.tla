---------------------------- MODULE MCEventPath ----------------------------
(* TLC instance of EventPath. *)
EXTENDS EventPath

CONSTANTS c1, c2, t1, o1, r1, w1

MCTenantOf == [o \in Orders |-> t1]
MCSeed == [o \in Orders |-> "ABSENT"]

\* An order is created; then both clients cancel it at the same time.
MCContents == [i \in Rows |-> IF i = 1 THEN Created(o1) ELSE Cancelled(o1)]
=============================================================================
