------------------------- MODULE OrderServiceProofs ------------------------
(***************************************************************************)
(* Machine-checked safety of the order transactions, for every number of   *)
(* clients, orders and requests: atomicity and outbox order for both       *)
(* stores, and the single cancellation that only ordermem provides.        *)
(***************************************************************************)
EXTENDS OrderService, TLAPS

\* A creating transaction owns an id nobody else has.
CreateInFlight(c) ==
  /\ pc[c] \in {"insert", "publish", "commit"}
  /\ orders[op[c].order] = Absent
  /\ pc[c] # "insert" => staged[c] = "PENDING"
  /\ \A d \in Clients :
       d # c /\ pc[d] # "idle" /\ op[d].order = op[c].order => op[d].type # "OrderCreated"

\* A cancelling transaction past its check works on an existing order that was
\* not cancelled before the first request.
CancelInFlight(c) ==
  /\ pc[c] # "insert"
  /\ pc[c] # "get" => /\ staged[c] = "CANCELLED"
                      /\ orders[op[c].order] # Absent
                      /\ Seed[op[c].order] # "CANCELLED"

InFlight ==
  \A c \in Clients : pc[c] # "idle" =>
    /\ op[c].type = "OrderCreated" => CreateInFlight(c)
    /\ op[c].type = "OrderCancelled" => CancelInFlight(c)

\* Whoever has written the order holds its row lock until it ends.
LockHeld ==
  \A c \in Clients : pc[c] \in {"publish", "commit"} => writer[op[c].order] = c

\* Ids are drawn from an increasing sequence, and a transaction's id is larger
\* than those of the committed events of its order.
IdsBelowNext ==
  /\ \A e \in events : e.id < nextId
  /\ \A c \in Clients : pc[c] = "commit" =>
       /\ row[c] \in 1..(nextId - 1)
       /\ \A e \in events : e.order = op[c].order => e.id < row[c]

\* Orders are never deleted, and a cancelled seed order stays cancelled.
SeedKept ==
  \A o \in Orders :
    /\ Seed[o] # Absent => orders[o] # Absent
    /\ Seed[o] = "CANCELLED" => orders[o] = "CANCELLED"

\* The inductive invariant of both stores.
IInv == TypeOK /\ InFlight /\ LockHeld /\ IdsBelowNext /\ SeedKept /\ OrdersMatchEvents

-----------------------------------------------------------------------------
(* The invariant is inductive *)

LEMMA InitIInv == Init => IInv
  BY SeedAssumption, NobodyAssumption
  DEF Init, IInv, TypeOK, InFlight, LockHeld, IdsBelowNext, SeedKept, OrdersMatchEvents, HasEvent,
      Steps, Events, NoOp

LEMMA BeginPreservesIInv ==
  ASSUME IInv, NEW c \in Clients, Begin(c)
  PROVE  IInv'
  <1>1. ASSUME NEW o \in Orders, BeginCreate(c, o)
        PROVE  IInv'
    <2>1. /\ UNCHANGED <<orders, events, nextId, staged, row, writer>>
          /\ pc[c] = "idle"
          /\ pc' = [pc EXCEPT ![c] = "insert"]
          /\ op' = [op EXCEPT ![c] = [type |-> "OrderCreated", tenant |-> TenantOf[o], order |-> o]]
      BY <1>1 DEF BeginCreate, InTx
    <2>2. TypeOK'
      BY <1>1, TenantOfAssumption, MaxRequestsAssumption DEF BeginCreate, InTx, IInv, TypeOK, Ops, Types, Steps
    <2>3. InFlight'
      BY <1>1, <2>1 DEF BeginCreate, IsFreshId, IInv, TypeOK, InFlight, CreateInFlight, CancelInFlight, Ops
    <2>4. LockHeld' /\ IdsBelowNext' /\ SeedKept' /\ OrdersMatchEvents'
      BY <2>1 DEF IInv, TypeOK, LockHeld, IdsBelowNext, SeedKept, OrdersMatchEvents, HasEvent
    <2>5. QED BY <2>2, <2>3, <2>4 DEF IInv
  <1>2. ASSUME NEW t \in Tenants, NEW o \in Orders, BeginCancel(c, t, o)
        PROVE  IInv'
    <2>1. /\ UNCHANGED <<orders, events, nextId, staged, row, writer>>
          /\ pc[c] = "idle"
          /\ pc' = [pc EXCEPT ![c] = "get"]
          /\ op' = [op EXCEPT ![c] = [type |-> "OrderCancelled", tenant |-> t, order |-> o]]
      BY <1>2 DEF BeginCancel, InTx
    <2>2. TypeOK'
      BY <1>2, MaxRequestsAssumption DEF BeginCancel, InTx, IInv, TypeOK, Ops, Types, Steps
    <2>3. InFlight'
      BY <2>1 DEF IInv, TypeOK, InFlight, CreateInFlight, CancelInFlight, Ops
    <2>4. LockHeld' /\ IdsBelowNext' /\ SeedKept' /\ OrdersMatchEvents'
      BY <2>1 DEF IInv, TypeOK, LockHeld, IdsBelowNext, SeedKept, OrdersMatchEvents, HasEvent
    <2>5. QED BY <2>2, <2>3, <2>4 DEF IInv
  <1>3. QED BY <1>1, <1>2 DEF Begin

\* Ending a transaction without changing the store.
LEMMA EndTxPreservesIInv ==
  ASSUME IInv, NEW c \in Clients, EndTx(c), UNCHANGED <<orders, events>>
  PROVE  IInv'
  <1>1. TypeOK'
    BY DEF EndTx, IInv, TypeOK, Steps, Absent
  <1>2. InFlight'
    BY DEF EndTx, IInv, TypeOK, InFlight, CreateInFlight, CancelInFlight
  <1>3. LockHeld' /\ IdsBelowNext' /\ SeedKept' /\ OrdersMatchEvents'
    BY DEF EndTx, IInv, TypeOK, LockHeld, IdsBelowNext, SeedKept, OrdersMatchEvents, HasEvent, Ops
  <1>4. QED BY <1>1, <1>2, <1>3 DEF IInv

\* The statements before Commit change nothing but the transaction's own state.
LEMMA StatementPreservesIInv ==
  ASSUME IInv, NEW c \in Clients,
         InsertOrder(c) \/ GetOrder(c) \/ UpdateOrder(c) \/ Publish(c)
  PROVE  IInv'
  <1>1. CASE InsertOrder(c)
    <2>1. TypeOK'
      BY <1>1 DEF InsertOrder, IInv, TypeOK, Ops, Steps, Statuses
    <2>2. InFlight'
      BY <1>1 DEF InsertOrder, IInv, TypeOK, InFlight, CreateInFlight, CancelInFlight, Ops
    <2>3. ASSUME NEW d \in Clients, d # c, pc[d] \in {"publish", "commit"}
          PROVE  op[d].order # op[c].order
      BY <1>1, <2>3 DEF InsertOrder, IInv, TypeOK, InFlight, CreateInFlight, CancelInFlight, Ops, Types
    <2>4. LockHeld'
      BY <1>1, <2>3 DEF InsertOrder, IInv, TypeOK, LockHeld, Ops
    <2>5. IdsBelowNext' /\ SeedKept' /\ OrdersMatchEvents'
      BY <1>1 DEF InsertOrder, IInv, TypeOK, IdsBelowNext, SeedKept, OrdersMatchEvents, HasEvent
    <2>6. QED BY <2>1, <2>2, <2>4, <2>5 DEF IInv
  <1>2. CASE GetOrder(c)
    <2>1. TypeOK'
      BY <1>2 DEF GetOrder, IInv, TypeOK, Steps, Statuses
    <2>2. op[c].order \in Orders /\ orders[op[c].order] \notin {"CANCELLED", Absent}
      BY <1>2 DEF GetOrder, Visible, CanTransitionTo, allowedTransitions, IInv, TypeOK, Ops, Statuses, Absent
    <2>3. Seed[op[c].order] # "CANCELLED"
      BY <2>2 DEF IInv, SeedKept
    <2>4. InFlight'
      BY <1>2, <2>2, <2>3 DEF GetOrder, IInv, TypeOK, InFlight, CreateInFlight, CancelInFlight, Ops
    <2>5. LockHeld' /\ IdsBelowNext' /\ SeedKept' /\ OrdersMatchEvents'
      BY <1>2 DEF GetOrder, IInv, TypeOK, LockHeld, IdsBelowNext, SeedKept, OrdersMatchEvents, HasEvent
    <2>6. QED BY <2>1, <2>4, <2>5 DEF IInv
  <1>3. CASE UpdateOrder(c)
    <2>1. TypeOK'
      BY <1>3 DEF UpdateOrder, IInv, TypeOK, Ops, Steps
    <2>2. InFlight'
      BY <1>3 DEF UpdateOrder, IInv, TypeOK, InFlight, CreateInFlight, CancelInFlight, Ops, Types
    <2>3. ASSUME NEW d \in Clients, pc[d] \in {"publish", "commit"}
          PROVE  op[d].order # op[c].order
      BY <1>3, <2>3, NobodyAssumption DEF UpdateOrder, IInv, LockHeld
    <2>4. LockHeld'
      BY <1>3, <2>3 DEF UpdateOrder, IInv, TypeOK, LockHeld, Ops
    <2>5. IdsBelowNext' /\ SeedKept' /\ OrdersMatchEvents'
      BY <1>3 DEF UpdateOrder, IInv, TypeOK, IdsBelowNext, SeedKept, OrdersMatchEvents, HasEvent
    <2>6. QED BY <2>1, <2>2, <2>4, <2>5 DEF IInv
  <1>4. CASE Publish(c)
    <2>1. TypeOK'
      BY <1>4 DEF Publish, IInv, TypeOK, Steps
    <2>2. InFlight'
      BY <1>4 DEF Publish, IInv, TypeOK, InFlight, CreateInFlight, CancelInFlight, Ops
    <2>3. IdsBelowNext'
      BY <1>4 DEF Publish, IInv, TypeOK, IdsBelowNext, Events
    <2>4. LockHeld' /\ SeedKept' /\ OrdersMatchEvents'
      BY <1>4 DEF Publish, IInv, TypeOK, LockHeld, SeedKept, OrdersMatchEvents, HasEvent
    <2>5. QED BY <2>1, <2>2, <2>3, <2>4 DEF IInv
  <1>5. QED BY <1>1, <1>2, <1>3, <1>4

\* The facts about a committing transaction that the proofs below use.
LEMMA Committing ==
  ASSUME IInv, NEW c \in Clients, pc[c] = "commit"
  PROVE  /\ op[c] \in Ops
         /\ row[c] \in 1..(nextId - 1)
         /\ \A e \in events : e.order = op[c].order => e.id < row[c]
         /\ \A d \in Clients : d # c /\ pc[d] \in {"publish", "commit"}
                               => op[d].order # op[c].order
         /\ \/ /\ op[c].type = "OrderCreated"
               /\ orders[op[c].order] = Absent
               /\ staged[c] = "PENDING"
            \/ /\ op[c].type = "OrderCancelled"
               /\ orders[op[c].order] # Absent
               /\ Seed[op[c].order] # "CANCELLED"
               /\ staged[c] = "CANCELLED"
  <1>1. op[c] \in Ops
    BY DEF IInv, TypeOK
  <1>2. QED
    BY <1>1 DEF IInv, InFlight, CreateInFlight, CancelInFlight, IdsBelowNext, LockHeld, Ops, Types

LEMMA CommitPreservesIInv ==
  ASSUME IInv, NEW c \in Clients, Commit(c)
  PROVE  IInv'
  <1> DEFINE o == op[c].order
             new == Event(row[c], op[c].type, o)
  <1>1. /\ pc[c] = "commit"
        /\ orders' = [orders EXCEPT ![o] = staged[c]]
        /\ events' = events \cup {new}
        /\ EndTx(c)
    BY DEF Commit
  <1>2. o \in Orders /\ op[c].type \in Types
    BY <1>1, Committing DEF Ops
  <1>3. new.id = row[c] /\ new.type = op[c].type /\ new.order = o
    BY DEF Event
  <1>4. new \in Events
    BY <1>1, <1>2, Committing DEF Event, Events, IInv, TypeOK
  <1> HIDE DEF new
  <1>5. TypeOK'
    BY <1>1, <1>2, <1>4 DEF EndTx, IInv, TypeOK, Steps, Absent
  <1>6. InFlight'
    <2>1. ASSUME NEW d \in Clients, d # c, pc[d] # "idle", op[d].type = "OrderCreated"
          PROVE  op[d].order # o
      BY <1>1, <2>1, Committing DEF IInv, InFlight, CreateInFlight
    <2>2. orders'[o] # Absent
      BY <1>1, <1>2, Committing DEF IInv, TypeOK, Absent
    <2>3. QED
      BY <1>1, <1>2, <2>1, <2>2 DEF EndTx, IInv, TypeOK, InFlight, CreateInFlight, CancelInFlight, Ops
  <1>7. LockHeld'
    BY <1>1 DEF EndTx, IInv, TypeOK, LockHeld, Ops
  <1>8. IdsBelowNext'
    BY <1>1, <1>3, Committing DEF EndTx, IInv, TypeOK, IdsBelowNext
  <1>9. SeedKept'
    BY <1>1, <1>2, Committing DEF IInv, TypeOK, SeedKept, Absent
  <1>10. OrdersMatchEvents'
    <2>1. ASSUME NEW p \in Orders, p # o
          PROVE  /\ orders'[p] = orders[p]
                 /\ \A type : HasEvent(type, p)' <=> HasEvent(type, p)
      BY <1>1, <1>2, <1>3, <2>1 DEF HasEvent, IInv, TypeOK
    <2>2. ASSUME NEW p \in Orders, p = o
          PROVE  /\ orders'[p] = staged[c]
                 /\ \A type : HasEvent(type, p)' <=> HasEvent(type, p) \/ type = op[c].type
      BY <1>1, <1>2, <1>3, <2>2 DEF HasEvent, IInv, TypeOK
    <2>3. ASSUME NEW p \in Orders
          PROVE  /\ (orders'[p] # Absent /\ Seed[p] = Absent) <=> HasEvent("OrderCreated", p)'
                 /\ (orders'[p] = "CANCELLED" /\ Seed[p] # "CANCELLED")
                      <=> HasEvent("OrderCancelled", p)'
      <3>1. CASE p # o
        BY <2>1, <3>1 DEF IInv, OrdersMatchEvents
      <3>2. CASE p = o
        BY <1>1, <2>2, <3>2, Committing DEF IInv, SeedKept, OrdersMatchEvents, Absent
      <3>3. QED BY <3>1, <3>2
    <2>4. QED BY <2>3 DEF OrdersMatchEvents
  <1>11. QED BY <1>5, <1>6, <1>7, <1>8, <1>9, <1>10 DEF IInv

LEMMA NextPreservesIInv == IInv /\ [Next]_vars => IInv'
  <1> SUFFICES ASSUME IInv, [Next]_vars PROVE IInv'
    OBVIOUS
  <1>1. CASE UNCHANGED vars
    BY <1>1 DEF vars, IInv, TypeOK, InFlight, CreateInFlight, CancelInFlight, LockHeld,
                IdsBelowNext, SeedKept, OrdersMatchEvents, HasEvent
  <1>2. ASSUME NEW c \in Clients, Begin(c) \/ Step(c) \/ Rollback(c)
        PROVE  IInv'
    BY <1>2, BeginPreservesIInv, StatementPreservesIInv, CommitPreservesIInv, EndTxPreservesIInv
       DEF Step, CancelRejected, Rollback
  <1>3. QED BY <1>1, <1>2 DEF Next

-----------------------------------------------------------------------------
(* Theorems for both stores *)

LEMMA SpecIInv == Spec => []IInv
  BY InitIInv, NextPreservesIInv, PTL DEF Spec

\* Every state of the order transactions is well formed.
THEOREM TypeCorrect == Spec => []TypeOK
  BY SpecIInv, PTL DEF IInv

\* Order and event are written together or not at all, whatever interleaves
\* and wherever a transaction is cut off.
THEOREM OrderAndEventAreAtomic == Spec => []OrdersMatchEvents
  BY SpecIInv, PTL DEF IInv

\* Outbox ids of one order increase in commit order, which is what lets the
\* relay publish them in sequence.
THEOREM OutboxIdsAreOrdered == Spec => OutboxIdsFollowCommits
  <1>1. ASSUME IInv, [Next]_vars
        PROVE  [\A e \in events' \ events, d \in events : d.order = e.order => d.id < e.id]_vars
    <2>1. ASSUME NEW c \in Clients, Commit(c)
          PROVE  \A e \in events' \ events, d \in events : d.order = e.order => d.id < e.id
      BY <1>1, <2>1, Committing DEF Commit, Event
    <2>2. ASSUME NEW c \in Clients, Begin(c) \/ Rollback(c) \/ (Step(c) /\ ~Commit(c))
          PROVE  events' = events
      BY <2>2 DEF Begin, BeginCreate, BeginCancel, InTx, Rollback, Step, InsertOrder,
                  GetOrder, CancelRejected, UpdateOrder, Publish
    <2>3. QED BY <1>1, <2>1, <2>2 DEF Next
  <1>2. QED BY <1>1, SpecIInv, PTL DEF Spec, OutboxIdsFollowCommits

-----------------------------------------------------------------------------
(* What the outbox says about an order *)

\* The sequence gives every row an id of its own.
IdsAreUnique ==
  /\ \A d, e \in events : d.id = e.id => d = e
  /\ \A c \in Clients : pc[c] = "commit" => \A e \in events : e.id # row[c]
  /\ \A c, d \in Clients : pc[c] = "commit" /\ pc[d] = "commit" /\ row[c] = row[d] => c = d

\* An order is created by one event, and cancelled by events with larger ids.
CreatedFirst ==
  /\ \A d, e \in events :
       d.order = e.order /\ d.type = "OrderCreated" /\ e.type = "OrderCreated" => d = e
  /\ \A e \in events : e.type = "OrderCancelled" /\ Seed[e.order] = Absent =>
       \E d \in events : d.order = e.order /\ d.type = "OrderCreated" /\ d.id < e.id

\* The inductive invariant of the outbox's history.
HInv == IInv /\ IdsAreUnique /\ CreatedFirst

\* The only step that adds an event is a commit.
LEMMA OnlyCommitsAddEvents ==
  ASSUME IInv, NEW c \in Clients, Begin(c) \/ Step(c) \/ Rollback(c), ~Commit(c)
  PROVE  /\ events' = events
         /\ nextId \in Nat /\ nextId <= nextId'
         /\ \A d \in Clients : pc'[d] = "commit" =>
              \/ pc[d] = "commit" /\ row'[d] = row[d]
              \/ d = c /\ row'[d] = nextId
  <1>1. CASE Begin(c)
    BY <1>1 DEF Begin, BeginCreate, BeginCancel, InTx, IInv, TypeOK
  <1>2. CASE Rollback(c) \/ CancelRejected(c)
    BY <1>2 DEF Rollback, CancelRejected, EndTx, IInv, TypeOK
  <1>3. CASE InsertOrder(c) \/ GetOrder(c) \/ UpdateOrder(c) \/ Publish(c)
    BY <1>3 DEF InsertOrder, GetOrder, UpdateOrder, Publish, IInv, TypeOK
  <1>4. QED BY <1>1, <1>2, <1>3 DEF Step

\* A commit adds an event with a new id: the order's first, or one after its first.
LEMMA CommitKeepsHistory ==
  ASSUME HInv, NEW c \in Clients, Commit(c)
  PROVE  IdsAreUnique' /\ CreatedFirst'
  <1> DEFINE new == Event(row[c], op[c].type, op[c].order)
  <1>1. /\ events' = events \cup {new} /\ pc[c] = "commit"
        /\ new.id = row[c] /\ new.type = op[c].type /\ new.order = op[c].order
        /\ \A d \in Clients : pc'[d] = "commit" => d # c /\ pc[d] = "commit" /\ row'[d] = row[d]
    BY DEF Commit, Event, EndTx, HInv, IInv, TypeOK
  <1>2. /\ op[c] \in Ops /\ op[c].order \in Orders /\ op[c].type \in Types
        /\ \A e \in events : e.order = op[c].order => e.id < row[c]
    BY <1>1, Committing DEF HInv, Ops
  <1> HIDE DEF new
  <1>3. IdsAreUnique'
    BY <1>1 DEF HInv, IdsAreUnique
  <1>4. CASE op[c].type = "OrderCreated"
    <2>1. ~HasEvent("OrderCreated", op[c].order)
      BY <1>1, <1>2, <1>4, Committing DEF HInv, IInv, OrdersMatchEvents
    <2>2. QED BY <1>1, <1>3, <1>4, <2>1 DEF HInv, CreatedFirst, HasEvent
  <1>5. CASE op[c].type = "OrderCancelled"
    <2>1. Seed[op[c].order] = Absent => HasEvent("OrderCreated", op[c].order)
      BY <1>1, <1>2, <1>5, Committing DEF HInv, IInv, OrdersMatchEvents
    <2>2. Seed[new.order] = Absent =>
            \E d \in events : d.order = new.order /\ d.type = "OrderCreated" /\ d.id < new.id
      BY <1>1, <1>2, <2>1 DEF HasEvent
    <2>3. QED BY <1>1, <1>3, <1>5, <2>2 DEF HInv, CreatedFirst
  <1>6. QED BY <1>2, <1>4, <1>5 DEF Types

LEMMA NextPreservesHInv == HInv /\ [Next]_vars => HInv'
  <1> SUFFICES ASSUME HInv, [Next]_vars PROVE IdsAreUnique' /\ CreatedFirst'
    BY NextPreservesIInv DEF HInv
  <1>1. CASE UNCHANGED vars
    BY <1>1 DEF vars, HInv, IdsAreUnique, CreatedFirst
  <1>2. ASSUME NEW c \in Clients, Begin(c) \/ Step(c) \/ Rollback(c), ~Commit(c)
        PROVE  IdsAreUnique' /\ CreatedFirst'
    <2>1. /\ events' = events
          /\ \A d \in Clients : pc'[d] = "commit" =>
               \/ pc[d] = "commit" /\ row'[d] = row[d]
               \/ d = c /\ row'[d] = nextId
      BY <1>2, OnlyCommitsAddEvents DEF HInv
    <2>2. /\ \A e \in events : e.id # nextId
          /\ \A d \in Clients : pc[d] = "commit" => row[d] # nextId
      BY DEF HInv, IInv, TypeOK, IdsBelowNext, Events
    <2>3. QED BY <2>1, <2>2 DEF HInv, IdsAreUnique, CreatedFirst
  <1>3. QED BY <1>1, <1>2, CommitKeepsHistory DEF Next

LEMMA InitHInv == Init => HInv
  BY InitIInv DEF Init, HInv, IdsAreUnique, CreatedFirst

\* An order's outbox rows tell its story: one creation, then cancellations, with
\* ids that no other row has, whatever was rolled back in between.
THEOREM OutboxTellsTheStory == Spec => [](IdsAreUnique /\ CreatedFirst)
  <1>1. HInv => IdsAreUnique /\ CreatedFirst
    BY DEF HInv
  <1>2. QED BY <1>1, InitHInv, NextPreservesHInv, PTL DEF Spec

-----------------------------------------------------------------------------
(* Theorems for the in-memory store *)

\* Store.mu admits one transaction at a time, so what a cancel checked is still
\* true when it commits.
MutexHeld == \A c \in Clients : pc[c] # "idle" => mutex = c

CheckStillTrue ==
  \A c \in Clients :
    pc[c] \in {"update", "publish", "commit"} /\ op[c].type = "OrderCancelled"
      => orders[op[c].order] \in Cancellable

MemInv == IInv /\ MutexHeld /\ CheckStillTrue /\ CancelledOnce

LEMMA MemInvInductive ==
  ASSUME Backend = "ordermem"
  PROVE  MemInv /\ [Next]_vars => MemInv'
  <1> SUFFICES ASSUME MemInv, [Next]_vars PROVE MutexHeld' /\ CheckStillTrue' /\ CancelledOnce'
    BY NextPreservesIInv DEF MemInv
  <1>1. CASE UNCHANGED vars
    BY <1>1 DEF vars, MemInv, MutexHeld, CheckStillTrue, CancelledOnce
  <1>2. ASSUME NEW c \in Clients, Begin(c)
        PROVE  MutexHeld' /\ CheckStillTrue' /\ CancelledOnce'
    <2>1. PICK request : InTx(c, "insert", request) \/ InTx(c, "get", request)
      BY <1>2 DEF Begin, BeginCreate, BeginCancel
    <2>2. QED
      BY <2>1, NobodyAssumption
      DEF InTx, MemInv, IInv, TypeOK, MutexHeld, CheckStillTrue, CancelledOnce
  <1>3. ASSUME NEW c \in Clients, InsertOrder(c) \/ UpdateOrder(c) \/ Publish(c)
        PROVE  MutexHeld' /\ CheckStillTrue' /\ CancelledOnce'
    BY <1>3 DEF InsertOrder, UpdateOrder, Publish, MemInv, IInv, TypeOK, InFlight, CancelInFlight,
                MutexHeld, CheckStillTrue, CancelledOnce
  <1>4. ASSUME NEW c \in Clients, GetOrder(c)
        PROVE  MutexHeld' /\ CheckStillTrue' /\ CancelledOnce'
    BY <1>4 DEF GetOrder, CanTransitionTo, Cancellable, MemInv, IInv, TypeOK,
                MutexHeld, CheckStillTrue, CancelledOnce
  <1>5. ASSUME NEW c \in Clients, CancelRejected(c) \/ Rollback(c)
        PROVE  MutexHeld' /\ CheckStillTrue' /\ CancelledOnce'
    BY <1>5 DEF CancelRejected, Rollback, EndTx, MemInv, IInv, TypeOK,
                MutexHeld, CheckStillTrue, CancelledOnce
  <1>6. ASSUME NEW c \in Clients, Commit(c)
        PROVE  MutexHeld' /\ CheckStillTrue' /\ CancelledOnce'
    <2>1. \A d \in Clients : d # c => pc[d] = "idle"
      BY <1>6, NobodyAssumption DEF Commit, MemInv, MutexHeld
    <2>2. MutexHeld' /\ CheckStillTrue'
      BY <1>6, <2>1 DEF Commit, EndTx, MemInv, IInv, TypeOK, MutexHeld, CheckStillTrue
    <2>3. op[c].type = "OrderCancelled" => ~HasEvent("OrderCancelled", op[c].order)
      BY <1>6, Committing
      DEF Commit, MemInv, IInv, CheckStillTrue, OrdersMatchEvents, Cancellable, CanTransitionTo,
          allowedTransitions, Ops, Statuses
    <2>4. CancelledOnce'
      BY <1>6, <2>3 DEF Commit, Event, MemInv, CancelledOnce, HasEvent
    <2>5. QED BY <2>2, <2>4
  <1>7. QED BY <1>1, <1>2, <1>3, <1>4, <1>5, <1>6 DEF Next, Step

\* With ordermem two concurrent cancels of an order never both succeed.
THEOREM MemoryStoreCancelsOnce ==
  ASSUME Backend = "ordermem"
  PROVE  Spec => []CancelledOnce
  <1>1. Init => MemInv
    BY InitIInv DEF Init, MemInv, MutexHeld, CheckStillTrue, CancelledOnce
  <1>2. MemInv /\ [Next]_vars => MemInv'
    BY MemInvInductive
  <1>3. QED BY <1>1, <1>2, PTL DEF Spec, MemInv

\* With ordermem every transaction is one atomic step of OrderLedger.
THEOREM MemoryStoreImplementsLedger ==
  ASSUME Backend = "ordermem"
  PROVE  Spec => ImplementsLedger
  <1>1. Init => MemInv /\ Ledger!Init
    BY InitIInv DEF Init, MemInv, MutexHeld, CheckStillTrue, CancelledOnce, Ledger!Init
  <1>2. MemInv /\ [Next]_vars => MemInv'
    BY MemInvInductive
  <1>3. MemInv /\ [Next]_vars => [Ledger!Next]_(Ledger!vars)
    <2> SUFFICES ASSUME MemInv, [Next]_vars PROVE [Ledger!Next]_(Ledger!vars)
      OBVIOUS
    <2>1. ASSUME NEW c \in Clients, Commit(c)
          PROVE  Ledger!Next
      <3> DEFINE new == Event(row[c], op[c].type, op[c].order)
      <3>1. new.id = row[c] /\ new.type = op[c].type /\ new.order = op[c].order
        BY DEF Event
      <3>2. /\ orders' = [orders EXCEPT ![new.order] = staged[c]]
            /\ events' = events \cup {new}
            /\ pc[c] = "commit"
        BY <2>1, <3>1 DEF Commit
      <3> HIDE DEF new
      <3>3. new \notin events
        BY <3>1, <3>2, Committing DEF MemInv
      <3>4. CASE op[c].type = "OrderCreated"
        <4>1. Ledger!Create(new)
          BY <3>1, <3>2, <3>3, <3>4, Committing DEF Ledger!Create, Ledger!Record, MemInv
        <4>2. QED BY <3>2, <4>1 DEF Ledger!Next
      <3>5. CASE op[c].type = "OrderCancelled"
        <4>1. Ledger!Cancel(new)
          BY <3>1, <3>2, <3>3, <3>5, Committing
          DEF Ledger!Cancel, Ledger!Record, MemInv, CheckStillTrue
        <4>2. QED BY <3>2, <4>1 DEF Ledger!Next
      <3>6. QED BY <3>2, <3>4, <3>5, Committing DEF MemInv, Ops, Types
    <2>2. ASSUME NEW c \in Clients, Begin(c) \/ Rollback(c) \/ (Step(c) /\ ~Commit(c))
          PROVE  UNCHANGED Ledger!vars
      BY <2>2 DEF Begin, BeginCreate, BeginCancel, InTx, Rollback, Step, InsertOrder,
                  GetOrder, CancelRejected, UpdateOrder, Publish, Ledger!vars
    <2>3. QED BY <2>1, <2>2 DEF Next, vars, Ledger!vars
  <1>4. QED BY <1>1, <1>2, <1>3, PTL DEF Spec, ImplementsLedger, Ledger!Spec
=============================================================================
