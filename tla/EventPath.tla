----------------------------- MODULE EventPath -----------------------------
(***************************************************************************)
(* The event path from end to end: the transactions of OrderService write  *)
(* the outbox that the relays of OutboxRelay drain into the stream that    *)
(* the workers of EventConsumer project into order_counts (cmd/orderd,     *)
(* cmd/worker, the stores on Postgres).                                    *)
(*                                                                         *)
(* Each part is an instance of its own module.  Two actions belong to two  *)
(* parts at once.  The commit of a business transaction makes its row      *)
(* visible to the relays; OutboxRelay's assumption on it (Insert) is not   *)
(* repeated here, it has to follow.  A publish that reaches the broker     *)
(* becomes a message of the stream, unless JetStream takes it for a        *)
(* repeat, which only a row that it has stored can be.                     *)
(*                                                                         *)
(* A relay and a consumer share a worker process; that both die at once is *)
(* one crash of each.                                                      *)
(***************************************************************************)
EXTENDS Integers, FiniteSets

CONSTANTS
  Clients, Tenants, Orders, TenantOf, Seed, MaxRequests, Nobody,   \* OrderService
  Relays, BatchSize, TransientErrors, MaxRelayFaults,              \* OutboxRelay
  Workers, MaxDeliver, MaxWorkerFaults, NoMsg,                     \* EventConsumer
  Copies,       \* bound: messages the stream stores for one row
  Contents      \* Contents[i] is what outbox row i says, should it ever commit:
                \* every behaviour has its own

Rows == 1..MaxRequests
Msgs == Rows \X (1..Copies)
Created(o) == [type |-> "OrderCreated", order |-> o]
Cancelled(o) == [type |-> "OrderCancelled", order |-> o]

ASSUME ServiceAssumption ==
  /\ TenantOf \in [Orders -> Tenants]
  /\ Seed \in [Orders -> {"PENDING", "CONFIRMED", "SHIPPED", "CANCELLED", "ABSENT"}]
  /\ MaxRequests \in Nat
  /\ Nobody \notin Clients
ASSUME RelayAssumption ==
  /\ BatchSize \in Nat \ {0}
  /\ TransientErrors \subseteq {"timeout", "refused"}
  /\ MaxRelayFaults \in Nat
ASSUME ConsumerAssumption ==
  /\ MaxDeliver \in Nat \ {0}
  /\ MaxWorkerFaults \in Nat
  /\ NoMsg \notin Msgs
ASSUME ContentsAssumption ==
  Contents \in [Rows -> {Created(o) : o \in Orders} \cup {Cancelled(o) : o \in Orders}]

VARIABLES
  orders, events, nextId, requests, clientPc, op, staged, row, writer, mutex,
  outbox, published_at, failed_at, pruned, quarantined, stored,
  relayPc, batch, acked, session, poison, cancelled, faults,
  stream, deliveries, settled, dlq, processed, counted, buffer, workerPc, msg, attempt, failed, broken

Service == INSTANCE OrderService WITH Backend <- "orderpg", pc <- clientPc

Relay == INSTANCE OutboxRelay WITH
  MaxRow <- MaxRequests,
  Aggregate <- [i \in Rows |-> Contents[i].order],
  MaxFaults <- MaxRelayFaults,
  pc <- relayPc

\* The message is the row's; the projection has no opinion about a cancellation.
Consumer == INSTANCE EventConsumer WITH
  Ids <- Rows,
  MsgId <- [m \in Msgs |-> m[1]],
  Kind <- [i \in Rows |-> IF Contents[i].type = "OrderCreated" THEN "created" ELSE "other"],
  MaxFaults <- MaxWorkerFaults,
  pc <- workerPc

serviceVars == <<orders, events, nextId, requests, clientPc, op, staged, row, writer, mutex>>
relayVars == <<outbox, published_at, failed_at, pruned, quarantined, stored,
               relayPc, batch, acked, session, poison, cancelled, faults>>
consumerVars == <<stream, deliveries, settled, dlq, processed, counted,
                  buffer, workerPc, msg, attempt, failed, broken>>
vars == <<serviceVars, relayVars, consumerVars>>

\* The parts are well typed together; no message is delivered more often than
\* the durable consumer's MaxDeliver (consumer.go: Run).
PathTypeOK == Service!TypeOK /\ Relay!TypeOK /\ Consumer!TypeOK

Init == Service!Init /\ Relay!Init /\ Consumer!Init

-----------------------------------------------------------------------------
(* Where two parts meet *)

\* A business transaction commits, its order and its outbox row together.
Commit(c) ==
  /\ Service!Commit(c)
  /\ row[c] \in Rows /\ Contents[row[c]] = [type |-> op[c].type, order |-> op[c].order]
  /\ outbox' = outbox \cup {row[c]}
  /\ UNCHANGED <<published_at, failed_at, pruned, quarantined, stored, relayPc, batch, acked, session,
                 poison, cancelled, faults>>
  /\ UNCHANGED consumerVars

\* Relay r has sent row i to the broker and learns the outcome, or dies first.
Sends(r, i) ==
  \/ Relay!Publish(r, i)
  \/ \E kind \in TransientErrors : Relay!PublishTransient(r, i, kind)
  \/ Relay!IsNextToPublish(r, i) /\ (Relay!DrainCancelled(r) \/ Relay!Crash(r))

\* What relay r sent is stored as a new message: the first of its row, or a
\* repeat whose Nats-Msg-Id has left the duplicate window.
SendStored(r, i) ==
  /\ Sends(r, i)
  /\ i \in stored'
  /\ \E k \in 1..Copies :
       /\ \A l \in 1..(k - 1) : <<i, l>> \in stream
       /\ Consumer!Store(<<i, k>>)
  /\ UNCHANGED serviceVars

-----------------------------------------------------------------------------
(* Steps of one part *)

\* Mutant: Publish writes its row on a connection of its own, where it commits at
\* once and outlives a rollback of the order.
ServiceStep_OwnConnection(c) ==
  /\ \/ Service!Begin(c) \/ Service!InsertOrder(c) \/ Service!GetOrder(c)
     \/ Service!CancelRejected(c) \/ Service!UpdateOrder(c)
     \/ Service!Publish(c) /\ nextId \in Rows
        /\ Contents[nextId] = [type |-> op[c].type, order |-> op[c].order]
     \/ Service!Rollback(c)
  /\ outbox' = outbox \cup (nextId..(nextId' - 1))
  /\ UNCHANGED <<published_at, failed_at, pruned, quarantined, stored, relayPc, batch, acked, session,
                 poison, cancelled, faults>>
  /\ UNCHANGED consumerVars

\* A transaction begins, runs a statement or fails.
ServiceStep(c) ==
  /\ \/ Service!Begin(c)
     \/ Service!InsertOrder(c)
     \/ Service!GetOrder(c)
     \/ Service!CancelRejected(c)
     \/ Service!UpdateOrder(c)
     \/ Service!Publish(c)
     \/ Service!Rollback(c)
  /\ UNCHANGED <<relayVars, consumerVars>>

\* A relay's step that gives the broker nothing it did not have: no publish, one
\* that did not arrive, or a repeat within the duplicate window.
RelayStep(r) ==
  /\ Relay!RelayStep(r) \/ Relay!Fault(r)
  /\ stored' = stored
  /\ UNCHANGED <<serviceVars, consumerVars>>

\* The pruner and the operator.
TableStep ==
  /\ \/ \E i \in Rows : Relay!Replay(i)
     \/ \E S \in SUBSET Rows : Relay!Prune(S)
  /\ UNCHANGED <<serviceVars, consumerVars>>

\* A message is delivered, dispatched or lost, or a worker works on one.
ConsumerStep(w) ==
  /\ \/ \E m \in Msgs : Consumer!Deliver(w, m)
     \/ \E d \in Consumer!Deliveries : Consumer!Dispatch(w, d) \/ Consumer!DeliveryLost(w, d)
     \/ Consumer!Step(w)
     \/ Consumer!FaultStep(w)
  /\ UNCHANGED <<serviceVars, relayVars>>

Next ==
  \/ \E c \in Clients : Commit(c) \/ ServiceStep(c)
  \/ \E r \in Relays : RelayStep(r) \/ \E i \in Rows : SendStored(r, i)
  \/ TableStep
  \/ \E w \in Workers : ConsumerStep(w)

Spec == Init /\ [][Next]_vars

\* The fairness of OutboxRelay and of EventConsumer: what happens without a fault.
RelayRuns(r) == Relay!RelayStep(r) /\ (RelayStep(r) \/ \E i \in Rows : SendStored(r, i))
WorkerRuns(w) == Consumer!Runs(w) /\ ConsumerStep(w)
StreamDelivers == Consumer!Delivers /\ \E w \in Workers : ConsumerStep(w)

FairSpec ==
  /\ Spec
  /\ \A r \in Relays : WF_vars(RelayRuns(r))
  /\ \A w \in Workers : WF_vars(WorkerRuns(w))
  /\ WF_vars(StreamDelivers)

-----------------------------------------------------------------------------
(* Properties *)

\* The read model never runs ahead of the truth (orderproj.go: order_counts): an
\* order is counted at most once, by one event, and only if it was created.
CountsAreReal ==
  \A i \in Rows : counted[i] > 0 =>
    /\ counted[i] = 1
    /\ Contents[i].type = "OrderCreated"
    /\ orders[Contents[i].order] # Service!Absent
    /\ \A j \in Rows : counted[j] > 0 /\ Contents[j] = Contents[i] => j = i

\* The row waits in the outbox, quarantined or not, for a relay to publish it.
InOutbox(i) == i \in outbox \ published_at

\* The message is still to be dispatched, has taken effect, is on the dead-letter
\* subject, or lost each of its deliveries, the last of them broken off.
InHand(m) ==
  \/ ~Consumer!Finished(m)
  \/ Consumer!Accounted(m)
  \/ Consumer!GivenUp(m)

\* No created order goes missing on the way (outbox.go: "no lost events",
\* consumer.go: deadLetter): its event is in the outbox or in the stream's hands.
NoOrderGoesMissing ==
  \A o \in Orders : Seed[o] = Service!Absent /\ orders[o] # Service!Absent =>
    \E i \in Rows :
      /\ Contents[i] = Created(o)
      /\ InOutbox(i) \/ \E m \in stream : m[1] = i /\ InHand(m)

\* The broker never has the cancellation of an order without its creation, unless
\* that is quarantined (outbox.go: per-aggregate order, with a single relay).
CreatedBeforeCancelled ==
  \A o \in Orders, i \in stored : Contents[i] = Cancelled(o) /\ Seed[o] = Service!Absent =>
    \E j \in stored \cup quarantined : Contents[j] = Created(o)

\* Every created order is eventually counted, or its event is where an operator
\* finds it, quarantined or dead-lettered, or was given up after each delivery of
\* it failed or was thrown away with a worker's buffer.
EventuallyCounted ==
  \A o \in Orders : Seed[o] = Service!Absent /\ orders[o] # Service!Absent ~>
    \E i \in Rows :
      /\ Contents[i] = Created(o)
      /\ \/ i \in processed \cup failed_at \cup dlq
         \/ \E m \in stream : m[1] = i /\ Consumer!GivenUp(m)

\* The relays get the outbox that OutboxRelay assumes: the row locks of the stores
\* commit the rows of one order in the order of their ids.
ImplementsRelay == Relay!Spec
=============================================================================
