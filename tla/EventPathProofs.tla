-------------------------- MODULE EventPathProofs --------------------------
(***************************************************************************)
(* Machine-checked safety of the whole event path, for every number of     *)
(* clients, orders, relays, workers and faults.  Every step of the path is *)
(* shown to be a step of each of its parts, so that what is proved of them *)
(* holds of the whole; the glue invariants then carry a fact about the     *)
(* orders over the outbox and the stream to order_counts.                  *)
(***************************************************************************)
EXTENDS EventPath, TLAPS

\* The parts, with what is proved about them.
SP == INSTANCE OrderServiceProofs WITH Backend <- "orderpg", pc <- clientPc

RP == INSTANCE OutboxRelayProofs WITH
  MaxRow <- MaxRequests,
  Aggregate <- [i \in Rows |-> Contents[i].order],
  MaxFaults <- MaxRelayFaults,
  pc <- relayPc

CP == INSTANCE EventConsumerProofs WITH
  Ids <- Rows,
  MsgId <- [m \in Msgs |-> m[1]],
  Kind <- [i \in Rows |-> IF Contents[i].type = "OrderCreated" THEN "created" ELSE "other"],
  MaxFaults <- MaxWorkerFaults,
  pc <- workerPc

\* The outbox, with what the pruner deleted from it, is what the transactions
\* committed, and a row says what its event is.
OutboxIsEvents ==
  /\ \A e \in events : /\ e.id \in outbox \cup pruned
                       /\ Contents[e.id] = [type |-> e.type, order |-> e.order]
  /\ \A i \in outbox \cup pruned : \E e \in events : e.id = i

\* The rows the broker has stored are those with a message in the stream.
StreamIsStored == \A i \in Rows : i \in stored <=> \E m \in stream : m[1] = i

\* The inductive invariant: those of the parts and the two that join them.
PathInv == SP!HInv /\ RP!IInv /\ CP!IInv /\ OutboxIsEvents /\ StreamIsStored

-----------------------------------------------------------------------------
(* The assumptions of the parts hold *)

LEMMA ServiceConstants ==
  /\ TenantOf \in [Orders -> Tenants]
  /\ Seed \in [Orders -> SP!Statuses \cup {SP!Absent}]
  /\ "orderpg" \in {"orderpg", "ordermem"}
  /\ MaxRequests \in Nat
  /\ Nobody \notin Clients
  BY ServiceAssumption DEF ServiceAssumption, SP!Statuses, SP!Absent

LEMMA RelayConstants ==
  /\ MaxRequests \in Nat
  /\ BatchSize \in Nat \ {0}
  /\ DOMAIN [i \in Rows |-> Contents[i].order] = 1..MaxRequests
  /\ TransientErrors \subseteq {"timeout", "refused"}
  /\ MaxRelayFaults \in Nat
  BY ServiceAssumption, RelayAssumption DEF ServiceAssumption, RelayAssumption, Rows

LEMMA ConsumerConstants ==
  /\ [m \in Msgs |-> m[1]] \in [Msgs -> Rows]
  /\ [i \in Rows |-> IF Contents[i].type = "OrderCreated" THEN "created" ELSE "other"]
       \in [Rows -> {"created", "other", "poison"}]
  /\ MaxDeliver \in Nat \ {0}
  /\ MaxWorkerFaults \in Nat
  /\ NoMsg \notin Msgs
  BY ConsumerAssumption DEF ConsumerAssumption, Msgs

-----------------------------------------------------------------------------
(* Every step is a step of the order service or none of its business *)

LEMMA ServiceRefined == [Next]_vars => [SP!Next]_(SP!vars)
  <1> SUFFICES ASSUME [Next]_vars PROVE [SP!Next]_(SP!vars)
    OBVIOUS
  <1>1. ASSUME NEW c \in Clients, Commit(c)
        PROVE  SP!Next
    <2>1. SP!Commit(c)
      BY <1>1 DEF Commit, Service!Commit, SP!Commit, Service!EndTx, SP!EndTx, Service!Event, SP!Event,
                  Service!NoOp, SP!NoOp, Service!Absent, SP!Absent
    <2>2. QED BY <2>1 DEF SP!Next, SP!Step
  <1>2. ASSUME NEW c \in Clients, ServiceStep(c)
        PROVE  SP!Next
    <2>1. \/ SP!Begin(c) \/ SP!InsertOrder(c) \/ SP!GetOrder(c) \/ SP!CancelRejected(c)
          \/ SP!UpdateOrder(c) \/ SP!Publish(c) \/ SP!Rollback(c)
      BY <1>2
      DEF ServiceStep, Service!Begin, SP!Begin, Service!BeginCreate, SP!BeginCreate,
          Service!BeginCancel, SP!BeginCancel, Service!InTx, SP!InTx, Service!IsFreshId, SP!IsFreshId,
          Service!InsertOrder, SP!InsertOrder, Service!GetOrder, SP!GetOrder,
          Service!CancelRejected, SP!CancelRejected, Service!UpdateOrder, SP!UpdateOrder,
          Service!Publish, SP!Publish, Service!Rollback, SP!Rollback, Service!EndTx, SP!EndTx,
          Service!Visible, SP!Visible, Service!CanTransitionTo, SP!CanTransitionTo,
          Service!allowedTransitions, SP!allowedTransitions, Service!Statuses, SP!Statuses,
          Service!NoOp, SP!NoOp, Service!Absent, SP!Absent
    <2>2. QED BY <2>1 DEF SP!Next, SP!Step
  <1>3. CASE UNCHANGED serviceVars
    BY <1>3 DEF serviceVars, SP!vars
  <1>4. QED
    BY <1>1, <1>2, <1>3 DEF Next, vars, RelayStep, SendStored, TableStep, ConsumerStep

-----------------------------------------------------------------------------
(* ... a step of the consumers ... *)

\* FiniteSets is FiniteSets, through whichever instance.
LEMMA SameCardinality ==
  /\ \A S : Consumer!Cardinality(S) = CP!Cardinality(S)
  /\ \A S : Relay!Cardinality(S) = RP!Cardinality(S)
  <1>1. \A S : Consumer!Cardinality(S) = CP!Cardinality(S)
    BY DEF Consumer!Cardinality, CP!Cardinality
  <1>2. \A S : Relay!Cardinality(S) = RP!Cardinality(S)
    BY DEF Relay!Cardinality, RP!Cardinality
  <1>3. QED BY <1>1, <1>2

LEMMA ConsumerRefined == [Next]_vars => [CP!Next]_(CP!vars)
  <1> SUFFICES ASSUME [Next]_vars PROVE [CP!Next]_(CP!vars)
    OBVIOUS
  <1>1. ASSUME NEW r \in Relays, NEW i \in Rows, SendStored(r, i)
        PROVE  CP!Next
    <2>1. PICK k \in 1..Copies : Consumer!Store(<<i, k>>)
      BY <1>1 DEF SendStored
    <2>2. CP!Store(<<i, k>>)
      BY <2>1 DEF Consumer!Store, CP!Store, Consumer!database, CP!database, Consumer!history, CP!history
    <2>3. QED BY <2>2 DEF CP!Next, Msgs
  <1>2. ASSUME NEW w \in Workers, ConsumerStep(w)
        PROVE  CP!Next
    <2>1. CASE \E m \in Msgs : Consumer!Deliver(w, m)
      <3>1. \E m \in Msgs : CP!Deliver(w, m)
        BY <2>1 DEF Consumer!Deliver, CP!Deliver, Consumer!database, CP!database,
                    Consumer!history, CP!history
      <3>2. QED BY <3>1 DEF CP!Next
    <2>2. CASE \E d \in Consumer!Deliveries : Consumer!Dispatch(w, d) \/ Consumer!DeliveryLost(w, d)
      <3>1. \A d : Consumer!Dispatch(w, d) => CP!Dispatch(w, d)
        BY DEF Consumer!Dispatch, CP!Dispatch, Consumer!server, CP!server, Consumer!database,
               CP!database, Consumer!history, CP!history
      <3>2. \A d : Consumer!DeliveryLost(w, d) => CP!DeliveryLost(w, d)
        BY SameCardinality
        DEF Consumer!DeliveryLost, CP!DeliveryLost, Consumer!Break, CP!Break, Consumer!Fails,
            CP!Fails, Consumer!server, CP!server, Consumer!database, CP!database
      <3>3. QED BY <2>2, <3>1, <3>2 DEF CP!Next, Consumer!Deliveries, CP!Deliveries
    <2>3. CASE Consumer!Step(w)
      <3>1. CP!Step(w)
        BY <2>3
        DEF Consumer!Step, CP!Step, Consumer!HandleOther, CP!HandleOther, Consumer!HandlePoison,
            CP!HandlePoison, Consumer!ClaimEvent, CP!ClaimEvent, Consumer!CommitProjection,
            CP!CommitProjection, Consumer!Ack, CP!Ack, Consumer!DeadLetter, CP!DeadLetter,
            Consumer!Term, CP!Term, Consumer!Apply, CP!Apply, Consumer!Settle, CP!Settle,
            Consumer!Goto, CP!Goto, Consumer!Return, CP!Return, Consumer!Id, CP!Id,
            Consumer!server, CP!server, Consumer!database, CP!database, Consumer!history, CP!history
      <3>2. QED BY <3>1 DEF CP!Next
    <2>4. CASE Consumer!FaultStep(w)
      <3>1. /\ Consumer!Fault(w) => CP!Fault(w)
            /\ Consumer!Break(Consumer!Dispatching(w)) => CP!Break(CP!Dispatching(w))
            /\ Consumer!Break(Consumer!Holds(w)) => CP!Break(CP!Holds(w))
            /\ Consumer!Holds(w) = CP!Holds(w)
        BY SameCardinality
        DEF Consumer!Fault, CP!Fault, Consumer!Break, CP!Break, Consumer!Fails, CP!Fails,
            Consumer!Holds, CP!Holds, Consumer!Dispatching, CP!Dispatching
      <3>2. (Consumer!HandlerFailed(w) => CP!HandlerFailed(w)) /\ (Consumer!Return(w) => CP!Return(w))
        BY DEF Consumer!HandlerFailed, CP!HandlerFailed, Consumer!Goto, CP!Goto,
               Consumer!Return, CP!Return
      <3>3. CP!FaultStep(w)
        BY <2>4, <3>1, <3>2
        DEF Consumer!FaultStep, CP!FaultStep, Consumer!CommitUnanswered, CP!CommitUnanswered,
            Consumer!HandleFail, CP!HandleFail, Consumer!AckFail, CP!AckFail,
            Consumer!DeadLetterFail, CP!DeadLetterFail, Consumer!TermFail, CP!TermFail,
            Consumer!Crash, CP!Crash, Consumer!Apply, CP!Apply, Consumer!Id, CP!Id,
            Consumer!server, CP!server, Consumer!database, CP!database
      <3>4. QED BY <3>3 DEF CP!Next
    <2>5. QED BY <1>2, <2>1, <2>2, <2>3, <2>4 DEF ConsumerStep
  <1>3. CASE UNCHANGED consumerVars
    BY <1>3 DEF consumerVars, CP!vars, CP!server, CP!database, CP!history
  <1>4. QED
    BY <1>1, <1>2, <1>3 DEF Next, vars, RelayStep, Commit, ServiceStep, TableStep

-----------------------------------------------------------------------------
(* ... and a step of the relays, whose outbox the transactions fill *)

\* A commit is an Insert: the id it drew is new, and no committed row of its order
\* has a larger one.
LEMMA CommitIsInsert ==
  ASSUME PathInv, NEW c \in Clients, Commit(c)
  PROVE  RP!Insert(row[c]) /\ row[c] \in Rows
  <1>1. /\ clientPc[c] = "commit" /\ row[c] \in Rows
        /\ Contents[row[c]].order = op[c].order
        /\ outbox' = outbox \cup {row[c]}
        /\ UNCHANGED <<published_at, failed_at, pruned, quarantined, stored, relayPc, batch, acked,
                       session, poison, cancelled, faults>>
    BY DEF Commit, Service!Commit
  <1>2. \A j \in outbox \cup pruned : j \in Rows
    BY DEF PathInv, RP!IInv, RP!TypeOK, RP!Rows, Rows
  <1>3. ASSUME NEW j \in outbox \cup pruned
        PROVE  j # row[c] /\ (Contents[j].order = op[c].order => j < row[c])
    <2>1. PICK e \in events : e.id = j /\ Contents[j] = [type |-> e.type, order |-> e.order]
      BY <1>3 DEF PathInv, OutboxIsEvents
    <2>2. e.id # row[c]
      BY <1>1, <2>1 DEF PathInv, SP!HInv, SP!IdsAreUnique
    <2>3. e.order = op[c].order => e.id < row[c]
      BY <1>1, <2>1 DEF PathInv, SP!HInv, SP!IInv, SP!IdsBelowNext
    <2>4. QED BY <2>1, <2>2, <2>3
  <1>4. QED BY <1>1, <1>2, <1>3 DEF RP!Insert, RP!relay

LEMMA SameRelayStep ==
  ASSUME NEW r \in Relays
  PROVE  /\ Relay!RelayStep(r) <=> RP!RelayStep(r)
         /\ Relay!Fault(r) <=> RP!Fault(r)
  <1>1. Relay!RelayStep(r) <=> RP!RelayStep(r)
    <2>1. Relay!Claim(r) <=> RP!Claim(r)
      BY SameCardinality
      DEF Relay!Claim, RP!Claim, Relay!Claimable, RP!Claimable, Relay!Locked, RP!Locked,
             Relay!FirstRows, RP!FirstRows, Relay!table, RP!table
    <2>2. Relay!Quarantine(r) <=> RP!Quarantine(r)
      BY DEF Relay!Quarantine, RP!Quarantine, Relay!Locked, RP!Locked, Relay!NoRow, RP!NoRow
    <2>3. QED
      BY <2>1, <2>2
      DEF Relay!RelayStep, RP!RelayStep, Relay!Publish, RP!Publish, Relay!Commit, RP!Commit,
          Relay!CommitFail, RP!CommitFail, Relay!DrainCancelled, RP!DrainCancelled,
          Relay!RunReturn, RP!RunReturn, Relay!Restart, RP!Restart,
          Relay!IsNextToPublish, RP!IsNextToPublish, Relay!EndDrain, RP!EndDrain,
          Relay!Rows, RP!Rows, Relay!table, RP!table
  <1>2. Relay!Fault(r) <=> RP!Fault(r)
    BY DEF Relay!Fault, RP!Fault, Relay!PublishTransient, RP!PublishTransient,
           Relay!PublishPermanent, RP!PublishPermanent, Relay!QuarantineFail, RP!QuarantineFail,
           Relay!CommitUnanswered, RP!CommitUnanswered, Relay!LoseSession, RP!LoseSession,
           Relay!Cancel, RP!Cancel, Relay!Crash, RP!Crash, Relay!AfterError, RP!AfterError,
           Relay!MaybeStored, RP!MaybeStored, Relay!SpendFault, RP!SpendFault,
           Relay!IsNextToPublish, RP!IsNextToPublish, Relay!EndDrain, RP!EndDrain,
           Relay!NoRow, RP!NoRow, Relay!Rows, RP!Rows, Relay!table, RP!table
  <1>3. QED BY <1>1, <1>2

\* Whatever becomes of a publish is a step of the relay.
LEMMA SendIsRelayStep ==
  ASSUME NEW r \in Relays, NEW i \in Rows, Sends(r, i)
  PROVE  RP!RelayStep(r) \/ RP!Fault(r)
  <1>1. Relay!RelayStep(r) \/ Relay!Fault(r)
    BY DEF Sends, Relay!RelayStep, Relay!Fault, Relay!Rows, Rows
  <1>2. QED BY <1>1, SameRelayStep

LEMMA RelayRefined == PathInv /\ [Next]_vars => [RP!Next]_(RP!vars)
  <1> SUFFICES ASSUME PathInv, [Next]_vars PROVE [RP!Next]_(RP!vars)
    OBVIOUS
  <1>1. ASSUME NEW c \in Clients, Commit(c)
        PROVE  RP!Next
    BY <1>1, CommitIsInsert DEF RP!Next, RP!Rows, Rows
  <1>2. ASSUME NEW r \in Relays, RelayStep(r) \/ \E i \in Rows : SendStored(r, i)
        PROVE  RP!Next
    <2>1. RP!RelayStep(r) \/ RP!Fault(r)
      BY <1>2, SameRelayStep, SendIsRelayStep DEF RelayStep, SendStored
    <2>2. QED BY <2>1 DEF RP!Next
  <1>3. CASE TableStep
    <2>1. \/ \E i \in RP!Rows : RP!Replay(i)
          \/ \E S \in SUBSET RP!Rows : RP!Prune(S)
      BY <1>3 DEF TableStep, Relay!Replay, RP!Replay, Relay!Prune, RP!Prune, Relay!relay, RP!relay,
                  RP!Rows, Rows
    <2>2. QED BY <2>1 DEF RP!Next
  <1>4. CASE UNCHANGED relayVars
    BY <1>4 DEF relayVars, RP!vars, RP!table, RP!relay
  <1>5. QED
    BY <1>1, <1>2, <1>3, <1>4 DEF Next, vars, ServiceStep, ConsumerStep

-----------------------------------------------------------------------------
(* The invariant is inductive *)

LEMMA InitRefined == Init => SP!Init /\ RP!Init /\ CP!Init
  <1>1. Service!Init => SP!Init
    BY DEF Service!Init, SP!Init, Service!NoOp, SP!NoOp, Service!Absent, SP!Absent
  <1>2. Relay!Init => RP!Init
    BY DEF Relay!Init, RP!Init, Relay!NoRow, RP!NoRow
  <1>3. Consumer!Init => CP!Init
    BY DEF Consumer!Init, CP!Init
  <1>4. QED BY <1>1, <1>2, <1>3 DEF Init

LEMMA InitPathInv == Init => PathInv
  <1> SUFFICES ASSUME Init PROVE PathInv
    OBVIOUS
  <1>1. SP!HInv
    BY InitRefined, SP!InitHInv, ServiceConstants
  <1>2. RP!IInv
    BY InitRefined, RP!InitIInv, RelayConstants
  <1>3. CP!IInv
    BY InitRefined, CP!InitIInv, ConsumerConstants
  <1>4. events = {} /\ outbox = {} /\ pruned = {} /\ stored = {} /\ stream = {}
    BY InitRefined DEF SP!Init, RP!Init, CP!Init
  <1>5. QED BY <1>1, <1>2, <1>3, <1>4 DEF PathInv, OutboxIsEvents, StreamIsStored

\* Only a commit adds to the outbox and its events, and the pruner's deletions
\* are remembered.
LEMMA NextOutboxIsEvents ==
  ASSUME PathInv, [Next]_vars
  PROVE  OutboxIsEvents'
  <1>1. ASSUME NEW c \in Clients, Commit(c)
        PROVE  OutboxIsEvents'
    <2> DEFINE new == [id |-> row[c], type |-> op[c].type, order |-> op[c].order]
    <2>1. /\ events' = events \cup {new}
          /\ (outbox \cup pruned)' = (outbox \cup pruned) \cup {row[c]}
          /\ Contents[row[c]] = [type |-> op[c].type, order |-> op[c].order]
      BY <1>1 DEF Commit, Service!Commit, Service!Event
    <2>2. new.id = row[c] /\ new.type = op[c].type /\ new.order = op[c].order
      OBVIOUS
    <2> HIDE DEF new
    <2>3. QED BY <2>1, <2>2 DEF PathInv, OutboxIsEvents
  <1>2. CASE UNCHANGED <<events, outbox, pruned>>
    BY <1>2 DEF PathInv, OutboxIsEvents
  <1>3. ASSUME NEW c \in Clients, ServiceStep(c)
        PROVE  UNCHANGED <<events, outbox, pruned>>
    BY <1>3
    DEF ServiceStep, Service!Begin, Service!BeginCreate, Service!BeginCancel, Service!InTx,
        Service!InsertOrder, Service!GetOrder, Service!CancelRejected, Service!UpdateOrder,
        Service!Publish, Service!Rollback, Service!EndTx, relayVars
  <1>4. ASSUME NEW r \in Relays, RP!RelayStep(r) \/ RP!Fault(r)
        PROVE  UNCHANGED <<outbox, pruned>>
    BY <1>4
    DEF RP!RelayStep, RP!Fault, RP!Claim, RP!Publish, RP!Quarantine, RP!Commit, RP!CommitFail,
        RP!DrainCancelled, RP!RunReturn, RP!Restart, RP!PublishTransient, RP!PublishPermanent,
        RP!QuarantineFail, RP!CommitUnanswered, RP!LoseSession, RP!Cancel, RP!Crash, RP!table
  <1>5. ASSUME NEW r \in Relays, RelayStep(r) \/ \E i \in Rows : SendStored(r, i)
        PROVE  UNCHANGED <<events, outbox, pruned>>
    BY <1>4, <1>5, SameRelayStep, SendIsRelayStep DEF RelayStep, SendStored, serviceVars
  <1>6. CASE TableStep
    <2>1. events' = events /\ (outbox \cup pruned)' = outbox \cup pruned
      BY <1>6 DEF TableStep, Relay!Replay, Relay!Prune, serviceVars, PathInv, RP!IInv,
                  RP!TableConsistent
    <2>2. QED BY <2>1 DEF PathInv, OutboxIsEvents
  <1>7. QED
    BY <1>1, <1>2, <1>3, <1>5, <1>6 DEF Next, vars, serviceVars, relayVars, ConsumerStep

\* A publish reaches the set of stored rows and the stream together.
LEMMA NextStreamIsStored ==
  ASSUME PathInv, [Next]_vars
  PROVE  StreamIsStored'
  <1>1. ASSUME NEW r \in Relays, NEW i \in Rows, SendStored(r, i)
        PROVE  StreamIsStored'
    <2>1. PICK k \in 1..Copies : stream' = stream \cup {<<i, k>>}
      BY <1>1 DEF SendStored, Consumer!Store
    <2>2. batch[r] \subseteq Int
      BY ServiceAssumption DEF PathInv, RP!IInv, RP!TypeOK, RP!Rows, ServiceAssumption
    <2>3. \A j : Relay!IsNextToPublish(r, i) /\ Relay!IsNextToPublish(r, j) => i = j
      BY <2>2 DEF Relay!IsNextToPublish
    <2>4. stored' = stored \cup {i}
      BY <1>1, <2>3 DEF SendStored, Sends, Relay!Publish, Relay!PublishTransient,
                        Relay!DrainCancelled, Relay!Crash, Relay!MaybeStored
    <2>5. <<i, k>>[1] = i
      OBVIOUS
    <2>6. QED BY <2>1, <2>4, <2>5 DEF PathInv, StreamIsStored
  <1>2. CASE UNCHANGED <<stored, stream>>
    BY <1>2 DEF PathInv, StreamIsStored
  <1>3. ASSUME NEW w \in Workers, ConsumerStep(w)
        PROVE  UNCHANGED <<stored, stream>>
    BY <1>3
    DEF ConsumerStep, relayVars, Consumer!Deliver, Consumer!Dispatch, Consumer!DeliveryLost,
        Consumer!Step, Consumer!FaultStep,
        Consumer!HandleOther, Consumer!HandlePoison, Consumer!ClaimEvent, Consumer!CommitProjection,
        Consumer!Ack, Consumer!DeadLetter, Consumer!Term, Consumer!CommitUnanswered,
        Consumer!HandleFail, Consumer!AckFail, Consumer!DeadLetterFail, Consumer!TermFail,
        Consumer!Crash, Consumer!server
  <1>4. CASE TableStep
    BY <1>2, <1>4 DEF TableStep, Relay!Replay, Relay!Prune, consumerVars
  <1>5. QED
    BY <1>1, <1>2, <1>3, <1>4 DEF Next, vars, relayVars, consumerVars, Commit, ServiceStep, RelayStep

LEMMA NextPathInv == PathInv /\ [Next]_vars => PathInv'
  <1> SUFFICES ASSUME PathInv, [Next]_vars PROVE PathInv'
    OBVIOUS
  <1>1. SP!HInv'
    BY ServiceRefined, SP!NextPreservesHInv, ServiceConstants DEF PathInv
  <1>2. RP!IInv'
    BY RelayRefined, RP!NextPreservesIInv, RelayConstants DEF PathInv
  <1>3. CP!IInv'
    BY ConsumerRefined, CP!NextIInv, ConsumerConstants DEF PathInv
  <1>4. QED BY <1>1, <1>2, <1>3, NextOutboxIsEvents, NextStreamIsStored DEF PathInv

LEMMA SpecPathInv == Spec => []PathInv
  BY InitPathInv, NextPathInv, PTL DEF Spec

\* Every reachable state of the path is well typed; no message is delivered more
\* than MaxDeliver times.
THEOREM PathTypeCorrect == Spec => []PathTypeOK
  <1>1. SP!TypeOK => Service!TypeOK
    BY DEF SP!TypeOK, Service!TypeOK, SP!Statuses, Service!Statuses, SP!Absent, Service!Absent,
           SP!Events, Service!Events, SP!Steps, Service!Steps, SP!Ops, Service!Ops, SP!NoOp,
           Service!NoOp, SP!Types, Service!Types
  <1>2. RP!TypeOK => Relay!TypeOK
    BY DEF RP!TypeOK, Relay!TypeOK, RP!Rows, Relay!Rows, RP!PCs, Relay!PCs, RP!NoRow, Relay!NoRow
  <1>3. CP!TypeOK => Consumer!TypeOK
    BY DEF CP!TypeOK, Consumer!TypeOK, CP!PCs, Consumer!PCs, CP!Deliveries, Consumer!Deliveries
  <1>4. PathInv => SP!TypeOK /\ RP!TypeOK /\ CP!TypeOK
    BY DEF PathInv, SP!HInv, SP!IInv, RP!IInv, CP!IInv
  <1>5. QED BY <1>1, <1>2, <1>3, <1>4, SpecPathInv, PTL DEF PathTypeOK

-----------------------------------------------------------------------------
(* The whole implements its parts *)

LEMMA PartsRefined == Spec => SP!Spec /\ RP!Spec /\ CP!Spec
  <1>1. Spec => SP!Spec
    BY InitRefined, ServiceRefined, PTL DEF Spec, SP!Spec
  <1>2. Spec => RP!Spec
    BY SpecPathInv, InitRefined, RelayRefined, PTL DEF Spec, RP!Spec
  <1>3. Spec => CP!Spec
    BY InitRefined, ConsumerRefined, PTL DEF Spec, CP!Spec
  <1>4. QED BY <1>1, <1>2, <1>3

\* The transactions of the stores fill the outbox as OutboxRelay assumes: what is
\* proved of the relays holds of those that drain a real outbox.
THEOREM PathImplementsRelay == Spec => ImplementsRelay
  <1>1. RP!Init => Relay!Init
    BY DEF Relay!Init, RP!Init, Relay!NoRow, RP!NoRow
  <1>2. [RP!Next]_(RP!vars) => [Relay!Next]_(Relay!vars)
    <2>1. ASSUME NEW r \in Relays
          PROVE  (RP!RelayStep(r) => Relay!RelayStep(r)) /\ (RP!Fault(r) => Relay!Fault(r))
      BY SameRelayStep
    <2>2. QED
      BY <2>1 DEF Relay!Next, RP!Next, Relay!Insert, RP!Insert, Relay!Replay, RP!Replay,
                  Relay!Prune, RP!Prune, Relay!Rows, RP!Rows, Relay!relay, RP!relay,
                  Relay!vars, RP!vars, Relay!table, RP!table
  <1>3. QED BY <1>1, <1>2, PartsRefined, PTL DEF ImplementsRelay, Relay!Spec, RP!Spec

-----------------------------------------------------------------------------
(* What holds from end to end *)

\* A recorded row is the event of an order.
LEMMA RecordedRow ==
  ASSUME PathInv, NEW i \in outbox \cup pruned
  PROVE  /\ i \in Rows
         /\ \E e \in events : e.id = i /\ Contents[i].type = e.type /\ Contents[i].order = e.order
  <1>1. i \in Rows
    BY DEF PathInv, RP!IInv, RP!TypeOK, RP!Rows, Rows
  <1>2. PICK e \in events : e.id = i /\ Contents[i] = [type |-> e.type, order |-> e.order]
    BY DEF PathInv, OutboxIsEvents
  <1>3. QED BY <1>1, <1>2

\* The projection never runs ahead of the orders table: what order_counts counts
\* is a created order, once, whatever is rolled back, redelivered or duplicated
\* between the two.
THEOREM ProjectionIsTruthful == Spec => []CountsAreReal
  <1>1. CP!Spec => []CP!OnlyStoredCounts
    BY CP!CountsComeFromStream, ConsumerConstants
  <1>2. ASSUME PathInv, CP!OnlyStoredCounts
        PROVE  CountsAreReal
    <2>1. ASSUME NEW i \in Rows, counted[i] > 0
          PROVE  /\ counted[i] = 1 /\ Contents[i].type = "OrderCreated"
                 /\ \E e \in events : /\ e.type = "OrderCreated" /\ e.id = i
                                      /\ e.order = Contents[i].order
      <3>1. /\ counted[i] = 1 /\ Contents[i].type = "OrderCreated"
            /\ \E m \in stream : m \in Msgs /\ m[1] = i
        BY <1>2, <2>1 DEF CP!OnlyStoredCounts, PathInv, CP!IInv, CP!TypeOK
      <3>2. i \in outbox \cup pruned
        BY <1>2, <2>1, <3>1 DEF PathInv, StreamIsStored, RP!IInv, RP!StoredWereRecorded
      <3>3. QED BY <1>2, <3>1, <3>2, RecordedRow
    <2>2. ASSUME NEW i \in Rows, counted[i] > 0
          PROVE  orders[Contents[i].order] # Service!Absent
      <3>1. PICK e \in events : e.type = "OrderCreated" /\ e.order = Contents[i].order
        BY <2>1, <2>2
      <3>2. e.order \in Orders
        BY <1>2 DEF PathInv, SP!HInv, SP!IInv, SP!TypeOK, SP!Events
      <3>3. QED
        BY <1>2, <3>1, <3>2
        DEF PathInv, SP!HInv, SP!IInv, SP!OrdersMatchEvents, SP!HasEvent, SP!Absent, Service!Absent
    <2>3. ASSUME NEW i \in Rows, NEW j \in Rows, counted[i] > 0, counted[j] > 0,
                 Contents[j] = Contents[i]
          PROVE  j = i
      <3>1. PICK d \in events : d.type = "OrderCreated" /\ d.id = i /\ d.order = Contents[i].order
        BY <2>1, <2>3
      <3>2. PICK e \in events : e.type = "OrderCreated" /\ e.id = j /\ e.order = Contents[i].order
        BY <2>1, <2>3
      <3>3. d = e
        BY <1>2, <3>1, <3>2 DEF PathInv, SP!HInv, SP!CreatedFirst
      <3>4. QED BY <3>1, <3>2, <3>3
    <2>4. QED BY <2>1, <2>2, <2>3 DEF CountsAreReal
  <1>3. QED BY <1>1, <1>2, PartsRefined, SpecPathInv, PTL

\* A created order's event is in the outbox until the broker has it, and from then
\* on in the stream's hands; to drop it takes the loss of every delivery.
THEOREM NothingGoesMissing == Spec => []NoOrderGoesMissing
  <1>1. CP!Spec => []CP!DropNeedsBrokenDelivery
    BY CP!DropsAreExpensive, ConsumerConstants
  <1>2. ASSUME PathInv, CP!DropNeedsBrokenDelivery
        PROVE  NoOrderGoesMissing
    <2> SUFFICES ASSUME NEW o \in Orders, Seed[o] = Service!Absent, orders[o] # Service!Absent
                 PROVE  \E i \in Rows : /\ Contents[i] = Created(o)
                                        /\ InOutbox(i) \/ \E m \in stream : m[1] = i /\ InHand(m)
      BY DEF NoOrderGoesMissing
    <2>1. PICK e \in events : e.type = "OrderCreated" /\ e.order = o
      BY <1>2 DEF PathInv, SP!HInv, SP!IInv, SP!OrdersMatchEvents, SP!HasEvent, SP!Absent, Service!Absent
    <2>2. e.id \in Rows /\ e.id \in outbox \cup pruned /\ Contents[e.id] = Created(o)
      BY <1>2, <2>1 DEF PathInv, OutboxIsEvents, RP!IInv, RP!TypeOK, RP!Rows, Rows, Created
    <2>3. CASE e.id \in outbox \ published_at
      BY <2>2, <2>3 DEF InOutbox
    <2>4. CASE e.id \in published_at \cup pruned
      <3>1. PICK m \in stream : m[1] = e.id
        BY <1>2, <2>2, <2>4 DEF PathInv, StreamIsStored, RP!IInv, RP!MarkedOnlyIfStored
      <3>2. InHand(m)
        BY <1>2 DEF CP!DropNeedsBrokenDelivery, InHand, Consumer!Finished, CP!Finished,
                    Consumer!Accounted, CP!Accounted, Consumer!Holds, CP!Holds,
                    Consumer!Dispatching, CP!Dispatching, Consumer!GivenUp, CP!GivenUp
      <3>3. QED BY <2>2, <3>1, <3>2
    <2>5. QED BY <2>2, <2>3, <2>4
  <1>3. QED BY <1>1, <1>2, PartsRefined, SpecPathInv, PTL

\* With one relay the broker never has an order's cancellation without its
\* creation, unless the creation was quarantined.
THEOREM CancellationsFollowCreations ==
  ASSUME \A r, s \in Relays : r = s
  PROVE  Spec => []CreatedBeforeCancelled
  <1>1. RP!Spec => []RP!PerAggregateOrder
    BY RP!OneRelayKeepsOrder, RelayConstants
  <1>2. ASSUME PathInv, RP!PerAggregateOrder
        PROVE  CreatedBeforeCancelled
    <2> SUFFICES ASSUME NEW o \in Orders, NEW i \in stored, Contents[i] = Cancelled(o),
                        Seed[o] = Service!Absent
                 PROVE  \E j \in stored \cup quarantined : Contents[j] = Created(o)
      BY DEF CreatedBeforeCancelled
    <2>1. i \in outbox \cup pruned
      BY <1>2 DEF PathInv, RP!IInv, RP!StoredWereRecorded
    <2>2. PICK e \in events : e.id = i /\ e.type = "OrderCancelled" /\ e.order = o
      BY <1>2, <2>1, RecordedRow DEF Cancelled
    <2>3. PICK d \in events : d.order = o /\ d.type = "OrderCreated" /\ d.id < i
      BY <1>2, <2>2 DEF PathInv, SP!HInv, SP!CreatedFirst, SP!Absent, Service!Absent
    <2>4. d.id \in outbox \cup pruned /\ Contents[d.id] = Created(o)
      BY <1>2, <2>3 DEF PathInv, OutboxIsEvents, Created
    <2>5. i \in Rows /\ d.id \in Rows /\ Contents[i].order = o /\ Contents[d.id].order = o
      BY <1>2, <2>1, <2>4, RecordedRow DEF Created, Cancelled
    <2>6. d.id \in stored \cup quarantined
      BY <1>2, <2>3, <2>4, <2>5 DEF RP!PerAggregateOrder
    <2>7. QED BY <2>4, <2>6
  <1>3. QED BY <1>1, <1>2, PartsRefined, SpecPathInv, PTL
=============================================================================
