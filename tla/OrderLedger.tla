---------------------------- MODULE OrderLedger ----------------------------
(***************************************************************************)
(* What order.Service promises: creating and cancelling are atomic, each   *)
(* leaves exactly one new event behind, and an order is cancelled only     *)
(* from a status that allows it, so it is cancelled once.                  *)
(***************************************************************************)
CONSTANTS Seed, Absent, Cancellable

VARIABLES
  orders,  \* the status of every order
  events   \* the events recorded so far

vars == <<orders, events>>

Init == orders = Seed /\ events = {}

Record(e) ==
  /\ e \notin events
  /\ events' = events \cup {e}

Create(e) ==
  /\ e.type = "OrderCreated"
  /\ orders[e.order] = Absent
  /\ orders' = [orders EXCEPT ![e.order] = "PENDING"]
  /\ Record(e)

Cancel(e) ==
  /\ e.type = "OrderCancelled"
  /\ orders[e.order] \in Cancellable
  /\ orders' = [orders EXCEPT ![e.order] = "CANCELLED"]
  /\ Record(e)

Next == \E e \in events' : Create(e) \/ Cancel(e)

Spec == Init /\ [][Next]_vars
=============================================================================
