--------------------------- MODULE EventDelivery ---------------------------
(***************************************************************************)
(* What the outbox promises, and nothing about how: an event recorded by a *)
(* business transaction may be handed to the broker any number of times,   *)
(* and the outbox may consider it finished only after the broker has it.   *)
(* internal/platform/outbox/outbox.go states the promise as "no lost       *)
(* events" and "at-least-once"; OutboxRelay is shown to implement this.    *)
(***************************************************************************)
CONSTANT Rows       \* the identities of outbox rows

VARIABLES
  recorded,   \* rows some business transaction committed
  delivered,  \* rows the broker has stored at least once
  retired     \* rows nobody will try to publish again

vars == <<recorded, delivered, retired>>

Init == recorded = {} /\ delivered = {} /\ retired = {}

Record(e) ==
  /\ e \notin recorded
  /\ recorded' = recorded \cup {e}
  /\ UNCHANGED <<delivered, retired>>

Deliver(e) ==
  /\ e \in recorded
  /\ delivered' = delivered \cup {e}
  /\ UNCHANGED <<recorded, retired>>

Retire(E) ==
  /\ E \subseteq delivered
  /\ retired' = retired \cup E
  /\ UNCHANGED <<recorded, delivered>>

Next ==
  \/ \E e \in Rows : Record(e) \/ Deliver(e)
  \/ \E E \in SUBSET Rows : Retire(E)

Spec == Init /\ [][Next]_vars
=============================================================================
