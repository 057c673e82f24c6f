--------------------------- MODULE EventConsumer ---------------------------
(***************************************************************************)
(* The consuming half of the event path: internal/platform/events/         *)
(* consumer.go (dispatch, deadLetter) running the order-count projection   *)
(* of internal/order/orderproj, in several workers that share one durable  *)
(* JetStream consumer.                                                     *)
(*                                                                         *)
(* JetStream is external and modelled by what the code relies on: a stored *)
(* message is delivered, and delivered again until it is acknowledged or   *)
(* terminated, at most MaxDeliver times.  Consume asks for messages ahead  *)
(* of the handler: a delivery counts when the server makes it, and waits   *)
(* in the client's buffer until dispatch, one at a time, gets to it.  The  *)
(* redelivery timer (BackOff starts at one second) races both, so a        *)
(* message may be delivered again while an earlier delivery of it is still *)
(* buffered or being handled.  A worker that dies, or that stops before    *)
(* Drain has emptied its buffer, takes its buffered deliveries with it.    *)
(*                                                                         *)
(* A handler is split at every statement of its transaction; a row it      *)
(* inserted makes others inserting the same key wait until it ends.        *)
(*                                                                         *)
(* Left out: payload decoding (Kind says what it finds), traces, the sum   *)
(* over tenants in order_counts (counted keeps each event's share), the    *)
(* order and the size of a client's buffer (any buffered delivery may be   *)
(* next; there is room for all), a Drain that completes (no delivery       *)
(* arrives meanwhile, and the next process takes the worker's place), and  *)
(* messages expiring (see EventRetention).                                 *)
(***************************************************************************)
EXTENDS Integers, FiniteSets

CONSTANTS
  Workers,     \* worker processes; each dispatches one message at a time
  Msgs,        \* messages the stream may hold
  Ids,         \* Nats-Msg-Ids
  MsgId,       \* MsgId[m]; a republish outside the duplicate window repeats one
  Kind,        \* Kind[i]: "created" is projected, "other" is not of interest,
               \* "poison" cannot be decoded or names no tenant
  MaxDeliver,  \* deliveries of one message
  MaxFaults,   \* bound: no fault once this many deliveries have failed
  NoMsg

ASSUME MsgIdAssumption == MsgId \in [Msgs -> Ids]
ASSUME KindAssumption == Kind \in [Ids -> {"created", "other", "poison"}]
ASSUME MaxDeliverAssumption == MaxDeliver \in Nat \ {0}
ASSUME MaxFaultsAssumption == MaxFaults \in Nat
ASSUME NoMsgAssumption == NoMsg \notin Msgs

VARIABLES
  stream,      \* messages stored
  deliveries,  \* NumDelivered of each message
  buffer,      \* buffer[w]: deliveries waiting in w's client, <<message, number>>
  settled,     \* messages the server will not deliver again (acked, terminated)
  dlq,         \* ids with a copy under the dead-letter prefix
  processed,   \* committed rows of processed_events
  counted,     \* counted[i]: committed increments of order_counts due to i
  pc,          \* where each worker is in dispatch
  msg,         \* the message it is dispatching
  attempt,     \* Deliveries of that message, as the worker sees it
  failed,      \* history: deliveries that met a fault or were thrown away
  broken       \* history: messages whose last delivery was thrown away, cut off
               \* by a crash, or ended in a failed dead letter

server == <<stream, deliveries, settled, dlq>>
database == <<processed, counted>>
history == <<failed, broken>>
vars == <<server, database, buffer, pc, msg, attempt, history>>

Deliveries == Msgs \X (1..MaxDeliver)

PCs == {"idle", "handle", "claimed", "ack", "deadLetter", "term"}

TypeOK ==
  /\ stream \subseteq Msgs
  /\ deliveries \in [Msgs -> 0..MaxDeliver]
  /\ settled \subseteq Msgs
  /\ dlq \subseteq Ids
  /\ processed \subseteq Ids
  /\ counted \in [Ids -> Nat]
  /\ buffer \in [Workers -> SUBSET Deliveries]
  /\ pc \in [Workers -> PCs]
  /\ msg \in [Workers -> Msgs \cup {NoMsg}]
  /\ attempt \in [Workers -> 0..MaxDeliver]
  /\ \A w \in Workers : pc[w] # "idle" => <<msg[w], attempt[w]>> \in Deliveries
  /\ failed \subseteq Deliveries
  /\ broken \subseteq Msgs

Init ==
  /\ stream = {} /\ settled = {} /\ dlq = {}
  /\ deliveries = [m \in Msgs |-> 0]
  /\ processed = {}
  /\ counted = [i \in Ids |-> 0]
  /\ buffer = [w \in Workers |-> {}]
  /\ pc = [w \in Workers |-> "idle"]
  /\ msg = [w \in Workers |-> NoMsg]
  /\ attempt = [w \in Workers |-> 0]
  /\ failed = {}
  /\ broken = {}

-----------------------------------------------------------------------------
(* Helpers *)

Id(w) == MsgId[msg[w]]

\* The event either took effect, or needs none, or is on the dead-letter subject.
Accounted(m) == MsgId[m] \in processed \cup dlq \/ Kind[MsgId[m]] = "other"

\* The delivery w is dispatching, if it is dispatching one.
Dispatching(w) == IF pc[w] = "idle" THEN {} ELSE {<<msg[w], attempt[w]>>}

\* The deliveries of w that have not ended.
Holds(w) == buffer[w] \cup Dispatching(w)

\* The server delivers m no more, and no delivery of it is still to end.
Finished(m) ==
  /\ m \in settled \/ deliveries[m] = MaxDeliver
  /\ \A w \in Workers, n \in 1..MaxDeliver : <<m, n>> \notin Holds(w)

Fails(D) ==
  /\ Cardinality(failed) < MaxFaults
  /\ failed' = failed \cup D

\* A statement or an acknowledgement fails.
Fault(w) == Fails(Dispatching(w)) /\ UNCHANGED broken

\* The deliveries D end without a verdict.
Break(D) == Fails(D) /\ broken' = broken \cup {m \in Msgs : <<m, MaxDeliver>> \in D}

Goto(w, next) ==
  /\ pc' = [pc EXCEPT ![w] = next]
  /\ UNCHANGED <<msg, attempt>>

\* dispatch returns.
Return(w) ==
  /\ pc' = [pc EXCEPT ![w] = "idle"]
  /\ msg' = [msg EXCEPT ![w] = NoMsg]
  /\ attempt' = [attempt EXCEPT ![w] = 0]

\* Mutant: the last attempt is one past the server's.
HandlerFailed_OffByOne(w) ==
  IF attempt[w] > MaxDeliver THEN Goto(w, "deadLetter") ELSE Return(w)

\* dispatch's switch on an error that retrying may fix: dead-letter the last
\* attempt, otherwise Nak, after which (or after AckWait) the server redelivers.
HandlerFailed(w) ==
  IF attempt[w] >= MaxDeliver THEN Goto(w, "deadLetter") ELSE Return(w)

-----------------------------------------------------------------------------
(* JetStream *)

\* The relay's publish is stored.
Store(m) ==
  /\ m \notin stream
  /\ stream' = stream \cup {m}
  /\ UNCHANGED <<deliveries, settled, dlq, database, buffer, pc, msg, attempt, history>>

\* Mutant: ConsumerConfig without MaxDeliver, which means no limit.
Deliver_Unlimited(w, m) ==
  /\ m \in stream \ settled
  /\ deliveries' = [deliveries EXCEPT ![m] = @ + 1]
  /\ buffer' = [buffer EXCEPT ![w] = @ \cup {<<m, deliveries[m] + 1>>}]
  /\ UNCHANGED <<stream, settled, dlq, database, pc, msg, attempt, history>>

\* A message is delivered, or delivered again, into the buffer of w's client,
\* whether or not an earlier delivery of it is still waiting or being handled.
Deliver(w, m) ==
  /\ m \in stream \ settled
  /\ deliveries[m] < MaxDeliver
  /\ deliveries' = [deliveries EXCEPT ![m] = @ + 1]
  /\ buffer' = [buffer EXCEPT ![w] = @ \cup {<<m, deliveries[m] + 1>>}]
  /\ UNCHANGED <<stream, settled, dlq, database, pc, msg, attempt, history>>

\* A delivery is lost before dispatch gets to it: the connection dropped on the way.
DeliveryLost(w, d) ==
  /\ d \in buffer[w]
  /\ Break({d})
  /\ buffer' = [buffer EXCEPT ![w] = @ \ {d}]
  /\ UNCHANGED <<server, database, pc, msg, attempt>>

\* Consume's callback takes the next buffered delivery, one at a time.
Dispatch(w, d) ==
  /\ pc[w] = "idle"
  /\ d \in buffer[w]
  /\ buffer' = [buffer EXCEPT ![w] = @ \ {d}]
  /\ pc' = [pc EXCEPT ![w] = "handle"]
  /\ msg' = [msg EXCEPT ![w] = d[1]]
  /\ attempt' = [attempt EXCEPT ![w] = d[2]]
  /\ UNCHANGED <<server, database, history>>

-----------------------------------------------------------------------------
(* Projection.Handle *)

\* An event type the projection has no opinion about.
HandleOther(w) ==
  /\ pc[w] = "handle"
  /\ Kind[Id(w)] = "other"
  /\ Goto(w, "ack")
  /\ UNCHANGED <<server, database, buffer, history>>

\* A payload or tenant that no retry can fix: a permanent error.
HandlePoison(w) ==
  /\ pc[w] = "handle"
  /\ Kind[Id(w)] = "poison"
  /\ Goto(w, "deadLetter")
  /\ UNCHANGED <<server, database, buffer, history>>

\* Mutant: the claim neither waits for nor sees an uncommitted one.
ClaimEvent_NoWait(w) ==
  /\ pc[w] = "handle"
  /\ Kind[Id(w)] = "created"
  /\ Goto(w, IF Id(w) \in processed THEN "ack" ELSE "claimed")
  /\ UNCHANGED <<server, database, buffer, history>>

\* INSERT INTO processed_events ... ON CONFLICT DO NOTHING: waits for another
\* transaction inserting the same key; no row means the event was applied.
ClaimEvent(w) ==
  /\ pc[w] = "handle"
  /\ Kind[Id(w)] = "created"
  /\ \A v \in Workers : pc[v] = "claimed" => Id(v) # Id(w)
  /\ Goto(w, IF Id(w) \in processed THEN "ack" ELSE "claimed")
  /\ UNCHANGED <<server, database, buffer, history>>

\* The transaction's effect: the deduplication row and the increment.
Apply(w) ==
  /\ processed' = processed \cup {Id(w)}
  /\ counted' = [counted EXCEPT ![Id(w)] = @ + 1]

\* order_counts is incremented and the transaction commits.
CommitProjection(w) ==
  /\ pc[w] = "claimed"
  /\ Apply(w)
  /\ Goto(w, "ack")
  /\ UNCHANGED <<server, buffer, history>>

\* Commit returned an error although the database had committed.
CommitUnanswered(w) ==
  /\ pc[w] = "claimed"
  /\ Fault(w)
  /\ Apply(w)
  /\ HandlerFailed(w)
  /\ UNCHANGED <<server, buffer>>

\* Any other failure of the handler, its AckWait deadline included: rollback.
HandleFail(w) ==
  /\ pc[w] \in {"handle", "claimed"}
  /\ Kind[Id(w)] = "created"
  /\ Fault(w)
  /\ HandlerFailed(w)
  /\ UNCHANGED <<server, database, buffer>>

-----------------------------------------------------------------------------
(* The rest of dispatch *)

Settle(w) == settled' = settled \cup {msg[w]}

Ack(w) ==
  /\ pc[w] = "ack"
  /\ Settle(w)
  /\ Return(w)
  /\ UNCHANGED <<stream, deliveries, dlq, database, buffer, history>>

\* Ack was lost: the server will deliver the message again.
AckFail(w) ==
  /\ pc[w] = "ack"
  /\ Fault(w)
  /\ Return(w)
  /\ UNCHANGED <<server, database, buffer>>

\* Mutant: the original is terminated first and copied second.
DeadLetterFail_TermFirst(w) ==
  /\ pc[w] = "deadLetter"
  /\ Break(Dispatching(w))
  /\ Settle(w)
  /\ Return(w)
  /\ UNCHANGED <<stream, deliveries, dlq, database, buffer>>

\* Mutant: the copy keeps the original Nats-Msg-Id and is dropped as a duplicate.
DeadLetter_SameMsgId(w) ==
  /\ pc[w] = "deadLetter"
  /\ Goto(w, "term")
  /\ UNCHANGED <<server, database, buffer, history>>

\* deadLetter: the copy is stored; the id dlq-<ID> makes a second copy a repeat.
DeadLetter(w) ==
  /\ pc[w] = "deadLetter"
  /\ dlq' = dlq \cup {Id(w)}
  /\ Goto(w, "term")
  /\ UNCHANGED <<stream, deliveries, settled, database, buffer, history>>

\* The copy was refused or not answered: Nak and leave the original alone.
DeadLetterFail(w) ==
  /\ pc[w] = "deadLetter"
  /\ Break(Dispatching(w))
  /\ dlq' \in {dlq, dlq \cup {Id(w)}}
  /\ Return(w)
  /\ UNCHANGED <<stream, deliveries, settled, database, buffer>>

\* TermWithReason stops redelivery of the original.
Term(w) ==
  /\ pc[w] = "term"
  /\ Settle(w)
  /\ Return(w)
  /\ UNCHANGED <<stream, deliveries, dlq, database, buffer, history>>

TermFail(w) ==
  /\ pc[w] = "term"
  /\ Fault(w)
  /\ Return(w)
  /\ UNCHANGED <<server, database, buffer>>

\* The worker dies, or exits because Drain did not finish within AckWait: an open
\* transaction rolls back, and what its client had buffered is gone.
Crash(w) ==
  /\ Holds(w) # {}
  /\ Break(Holds(w))
  /\ buffer' = [buffer EXCEPT ![w] = {}]
  /\ Return(w)
  /\ UNCHANGED <<server, database>>

-----------------------------------------------------------------------------
(* Specification *)

Step(w) ==
  \/ HandleOther(w)
  \/ HandlePoison(w)
  \/ ClaimEvent(w)
  \/ CommitProjection(w)
  \/ Ack(w)
  \/ DeadLetter(w)
  \/ Term(w)

FaultStep(w) ==
  \/ CommitUnanswered(w)
  \/ HandleFail(w)
  \/ AckFail(w)
  \/ DeadLetterFail(w)
  \/ TermFail(w)
  \/ Crash(w)

Next ==
  \/ \E m \in Msgs : Store(m)
  \/ \E w \in Workers : \E m \in Msgs : Deliver(w, m)
  \/ \E w \in Workers : \E d \in Deliveries : Dispatch(w, d) \/ DeliveryLost(w, d)
  \/ \E w \in Workers : Step(w) \/ FaultStep(w)

Spec == Init /\ [][Next]_vars

\* A worker finishes what it dispatches and empties its buffer, and JetStream goes
\* on delivering while something may be delivered; each message MaxDeliver times.
Runs(w) == Step(w) \/ \E d \in Deliveries : Dispatch(w, d)
Delivers == \E w \in Workers, m \in Msgs : Deliver(w, m)

FairSpec ==
  /\ Spec
  /\ \A w \in Workers : WF_vars(Runs(w))
  /\ WF_vars(Delivers)

-----------------------------------------------------------------------------
(* Properties *)

\* orderproj: Handle applies one event exactly once, under redelivery, duplicate
\* messages, concurrent workers and commits whose answer is lost.
AppliedAtMostOnce == \A i \in Ids : counted[i] <= 1

\* Nothing is acknowledged or terminated before its effect has committed or its
\* copy is on the dead-letter subject (deadLetter: "THE ORDER MATTERS").
SettledOnlyIfAccounted == \A m \in settled : Accounted(m)

\* Each delivery of m met a fault or was thrown away with a client's buffer, and
\* the last of them did not come to an end in dispatch.
GivenUp(m) == (\A n \in 1..MaxDeliver : <<m, n>> \in failed) /\ m \in broken

\* An event that has neither taken effect nor been dead-lettered when the server
\* gives up lost every single delivery to a fault or to a discarded buffer, and
\* the last one to more than a handler failure: dispatch dead-letters the last
\* attempt that fails, however long it waited in a buffer.
DropNeedsBrokenDelivery ==
  \A m \in stream : Finished(m) /\ ~Accounted(m) => GivenUp(m)

\* Every stored event is eventually accounted for, unless every single delivery of
\* it failed and the last was broken off.
EventuallyAccounted == \A m \in Msgs : m \in stream ~> Accounted(m) \/ GivenUp(m)

=============================================================================
