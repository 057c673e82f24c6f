---------------------------- MODULE OrderService ---------------------------
(***************************************************************************)
(* order.Service's two writing operations, Create and Cancel, as the       *)
(* concurrent transactions they run in: internal/order/service.go over     *)
(* order.Atomic, implemented by internal/order/orderpg (Postgres at its    *)
(* default isolation, READ COMMITTED) and internal/order/ordermem (one     *)
(* mutex and a staged copy).                                               *)
(*                                                                         *)
(* A transaction is split at every statement.  What it writes stays in     *)
(* staged until Commit; a written order row is locked until the            *)
(* transaction ends; a plain SELECT neither takes a lock nor waits.        *)
(*                                                                         *)
(* Left out: items, money and timestamps, requests rejected before the     *)
(* transaction starts, and reads outside a transaction.                    *)
(***************************************************************************)
EXTENDS Integers, FiniteSets

CONSTANTS
  Clients,      \* concurrent request goroutines, over all replicas
  Tenants,
  Orders,       \* order ids
  TenantOf,     \* TenantOf[o] is the tenant that order o belongs to
  Seed,         \* Seed[o] is the status before the first request (order.Seed)
  Backend,      \* which store implements order.Atomic
  MaxRequests,  \* bound: requests that reach their transaction
  Nobody        \* no client

Absent == "ABSENT"
Statuses == {"PENDING", "CONFIRMED", "SHIPPED", "CANCELLED"}

ASSUME TenantOfAssumption == TenantOf \in [Orders -> Tenants]
ASSUME SeedAssumption == Seed \in [Orders -> Statuses \cup {Absent}]
ASSUME BackendAssumption == Backend \in {"orderpg", "ordermem"}
ASSUME MaxRequestsAssumption == MaxRequests \in Nat
ASSUME NobodyAssumption == Nobody \notin Clients

VARIABLES
  orders,    \* committed status of every order
  events,    \* committed outbox rows
  nextId,    \* next value of the outbox id sequence (never rolled back)
  requests,  \* requests started
  pc,        \* the next statement of each client's transaction
  op,        \* what the client asked for
  staged,    \* the transaction's private copy of the order's status
  row,       \* id of the outbox row the transaction inserted, 0 if none
  writer,    \* writer[o]: the transaction holding o's row lock
  mutex      \* ordermem: the transaction holding Store.mu

vars == <<orders, events, nextId, requests, pc, op, staged, row, writer, mutex>>

Types == {"OrderCreated", "OrderCancelled"}
Ops == [type : Types, tenant : Tenants, order : Orders]
Event(i, type, o) == [id |-> i, type |-> type, order |-> o]
Events == [id : Nat \ {0}, type : Types, order : Orders]
Steps == {"idle", "insert", "get", "update", "publish", "commit"}

NoOp == [type |-> "none"]

TypeOK ==
  /\ orders \in [Orders -> Statuses \cup {Absent}]
  /\ events \subseteq Events
  /\ nextId \in Nat \ {0}
  /\ requests \in Nat
  /\ pc \in [Clients -> Steps]
  /\ op \in [Clients -> Ops \cup {NoOp}]
  /\ \A c \in Clients : pc[c] # "idle" => op[c] \in Ops
  /\ staged \in [Clients -> Statuses \cup {Absent}]
  /\ row \in [Clients -> Nat]
  /\ writer \in [Orders -> Clients \cup {Nobody}]
  /\ mutex \in Clients \cup {Nobody}

Init ==
  /\ orders = Seed
  /\ events = {}
  /\ nextId = 1
  /\ requests = 0
  /\ pc = [c \in Clients |-> "idle"]
  /\ op = [c \in Clients |-> NoOp]
  /\ staged = [c \in Clients |-> Absent]
  /\ row = [c \in Clients |-> 0]
  /\ writer = [o \in Orders |-> Nobody]
  /\ mutex = Nobody

-----------------------------------------------------------------------------
(* Helpers *)

\* The state machine of order.go, as the statuses that s may move to.
allowedTransitions ==
  [s \in Statuses |->
     CASE s = "PENDING"   -> {"CONFIRMED", "CANCELLED"}
       [] s = "CONFIRMED" -> {"SHIPPED", "CANCELLED"}
       [] OTHER           -> {}]

CanTransitionTo(s, next) == s \in Statuses /\ next \in allowedTransitions[s]

Cancellable == {s \in Statuses : CanTransitionTo(s, "CANCELLED")}

\* A new id is one nobody has used: UUIDs do not repeat.
IsFreshId(o) ==
  /\ orders[o] = Absent
  /\ \A c \in Clients : pc[c] # "idle" => op[c].order # o \/ op[c].type # "OrderCreated"

\* Mutant: the in-memory store runs the callback without taking its mutex.
InTx_Unlocked(c, first, request) ==
  /\ pc[c] = "idle"
  /\ requests < MaxRequests
  /\ requests' = requests + 1
  /\ mutex' = mutex
  /\ pc' = [pc EXCEPT ![c] = first]
  /\ op' = [op EXCEPT ![c] = request]
  /\ UNCHANGED <<orders, events, nextId, staged, row, writer>>

\* InTx opens a transaction; ordermem first takes Store.mu.
InTx(c, first, request) ==
  /\ pc[c] = "idle"
  /\ requests < MaxRequests
  /\ requests' = requests + 1
  /\ Backend = "ordermem" => mutex = Nobody
  /\ mutex' = IF Backend = "ordermem" THEN c ELSE mutex
  /\ pc' = [pc EXCEPT ![c] = first]
  /\ op' = [op EXCEPT ![c] = request]
  /\ UNCHANGED <<orders, events, nextId, staged, row, writer>>

\* Mutant: an error return that does not release what the transaction locked.
EndTx_KeepingLocks(c) ==
  /\ pc' = [pc EXCEPT ![c] = "idle"]
  /\ op' = [op EXCEPT ![c] = NoOp]
  /\ staged' = [staged EXCEPT ![c] = Absent]
  /\ row' = [row EXCEPT ![c] = 0]
  /\ UNCHANGED <<nextId, requests, writer, mutex>>

\* The transaction ends, committed or not: locks go, the private copy goes.
EndTx(c) ==
  /\ pc' = [pc EXCEPT ![c] = "idle"]
  /\ op' = [op EXCEPT ![c] = NoOp]
  /\ staged' = [staged EXCEPT ![c] = Absent]
  /\ row' = [row EXCEPT ![c] = 0]
  /\ writer' = [o \in Orders |-> IF writer[o] = c THEN Nobody ELSE writer[o]]
  /\ mutex' = IF mutex = c THEN Nobody ELSE mutex
  /\ UNCHANGED <<nextId, requests>>

-----------------------------------------------------------------------------
(* Operations *)

\* Service.Create: a validated request with a new id enters its transaction.
BeginCreate(c, o) ==
  /\ IsFreshId(o)
  /\ InTx(c, "insert", [type |-> "OrderCreated", tenant |-> TenantOf[o], order |-> o])

\* Store.Create: INSERT the order and its items.
InsertOrder(c) ==
  /\ pc[c] = "insert"
  /\ staged' = [staged EXCEPT ![c] = "PENDING"]
  /\ writer' = [writer EXCEPT ![op[c].order] = c]
  /\ pc' = [pc EXCEPT ![c] = "publish"]
  /\ UNCHANGED <<orders, events, nextId, requests, op, row, mutex>>

\* Service.Cancel: any tenant may name any id.
BeginCancel(c, t, o) ==
  InTx(c, "get", [type |-> "OrderCancelled", tenant |-> t, order |-> o])

\* Get found the order within the tenant.
Visible(c) ==
  /\ op[c].tenant = TenantOf[op[c].order]
  /\ orders[op[c].order] # Absent

\* Store.Get and Order.Cancel: read the committed row, check the transition.
GetOrder(c) ==
  /\ pc[c] = "get"
  /\ Visible(c)
  /\ CanTransitionTo(orders[op[c].order], "CANCELLED")
  /\ staged' = [staged EXCEPT ![c] = "CANCELLED"]
  /\ pc' = [pc EXCEPT ![c] = "update"]
  /\ UNCHANGED <<orders, events, nextId, requests, op, row, writer, mutex>>

\* ErrNotFound or ErrInvalidTransition: the callback fails, InTx rolls back.
CancelRejected(c) ==
  /\ pc[c] = "get"
  /\ ~(Visible(c) /\ CanTransitionTo(orders[op[c].order], "CANCELLED"))
  /\ EndTx(c)
  /\ UNCHANGED <<orders, events>>

\* Mutant: the update is deferred, so publishing happens without the row lock.
UpdateOrder_WithoutLock(c) ==
  /\ pc[c] = "update"
  /\ pc' = [pc EXCEPT ![c] = "publish"]
  /\ UNCHANGED <<orders, events, nextId, requests, op, staged, row, writer, mutex>>

\* Store.Update: UPDATE ... WHERE tenant_id AND id waits for the row lock and
\* does not look at the status it overwrites.
UpdateOrder(c) ==
  /\ pc[c] = "update"
  /\ writer[op[c].order] = Nobody
  /\ writer' = [writer EXCEPT ![op[c].order] = c]
  /\ pc' = [pc EXCEPT ![c] = "publish"]
  /\ UNCHANGED <<orders, events, nextId, requests, op, staged, row, mutex>>

\* Publish: INSERT the outbox row, which draws its id from the sequence.
Publish(c) ==
  /\ pc[c] = "publish"
  /\ row' = [row EXCEPT ![c] = nextId]
  /\ nextId' = nextId + 1
  /\ pc' = [pc EXCEPT ![c] = "commit"]
  /\ UNCHANGED <<orders, events, requests, op, staged, writer, mutex>>

\* Mutant: the event is written outside the transaction and its failure ignored.
Commit_WithoutEvent(c) ==
  /\ pc[c] = "commit"
  /\ orders' = [orders EXCEPT ![op[c].order] = staged[c]]
  /\ events' \in {events, events \cup {Event(row[c], op[c].type, op[c].order)}}
  /\ EndTx(c)

\* The transaction commits: order and event become visible together.  Whether
\* the caller is answered or sees an error makes no difference to the store.
Commit(c) ==
  /\ pc[c] = "commit"
  /\ orders' = [orders EXCEPT ![op[c].order] = staged[c]]
  /\ events' = events \cup {Event(row[c], op[c].type, op[c].order)}
  /\ EndTx(c)

\* orderpg: a statement fails, the deadline passes or the replica dies; Postgres
\* rolls back.  ordermem's callback cannot fail after its checks.
Rollback(c) ==
  /\ Backend = "orderpg"
  /\ pc[c] # "idle"
  /\ EndTx(c)
  /\ UNCHANGED <<orders, events>>

-----------------------------------------------------------------------------
(* Specification *)

Begin(c) ==
  \/ \E o \in Orders : BeginCreate(c, o)
  \/ \E t \in Tenants, o \in Orders : BeginCancel(c, t, o)

Step(c) ==
  \/ InsertOrder(c)
  \/ GetOrder(c)
  \/ CancelRejected(c)
  \/ UpdateOrder(c)
  \/ Publish(c)
  \/ Commit(c)

Next == \E c \in Clients : Begin(c) \/ Step(c) \/ Rollback(c)

Spec == Init /\ [][Next]_vars

\* A goroutine that can execute its next statement does.
FairSpec == Spec /\ \A c \in Clients : WF_vars(Step(c))

-----------------------------------------------------------------------------
(* Properties *)

HasEvent(type, o) == \E e \in events : e.type = type /\ e.order = o

\* "The order exists but the event was lost" and its converse are impossible: an
\* order changed by a request and its event appear together, for both stores.
OrdersMatchEvents ==
  \A o \in Orders :
    /\ (orders[o] # Absent /\ Seed[o] = Absent) <=> HasEvent("OrderCreated", o)
    /\ (orders[o] = "CANCELLED" /\ Seed[o] # "CANCELLED") <=> HasEvent("OrderCancelled", o)

\* The events of one order commit in the order of their outbox ids, although ids
\* are drawn before commit: the relay's ORDER BY id depends on it.
OutboxIdsFollowCommits ==
  [][\A e \in events' \ events, d \in events : d.order = e.order => d.id < e.id]_vars

\* service.go: two concurrent cancels do not both succeed.
CancelledOnce ==
  \A d, e \in events :
    d.order = e.order /\ d.type = "OrderCancelled" /\ e.type = "OrderCancelled" => d = e

\* Every transaction ends: waiting for a row lock or for the mutex is not forever.
TransactionsEnd == \A c \in Clients : pc[c] # "idle" ~> pc[c] = "idle"

\* The atomic promise, for a store that implements it.
Ledger == INSTANCE OrderLedger

\* The store behaves as if Create and Cancel were single atomic steps.
ImplementsLedger == Ledger!Spec
=============================================================================
