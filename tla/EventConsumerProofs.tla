------------------------ MODULE EventConsumerProofs ------------------------
(***************************************************************************)
(* Machine-checked safety of the consumer, for every number of workers,    *)
(* messages, deliveries and faults.                                        *)
(***************************************************************************)
EXTENDS EventConsumer, TLAPS

\* A worker that is not dispatching holds no message.
IdleHoldsNothing == \A w \in Workers : pc[w] = "idle" => msg[w] = NoMsg

\* The deduplication row and the increment commit together.
CountedIffProcessed ==
  \A i \in Ids : counted[i] = IF i \in processed THEN 1 ELSE 0

\* An uncommitted deduplication row is the only one of its event.
ClaimsExclusive ==
  \A w \in Workers : pc[w] = "claimed" =>
    /\ Id(w) \notin processed
    /\ \A v \in Workers : v # w /\ pc[v] = "claimed" => Id(v) # Id(w)

\* dispatch acknowledges or terminates only what has been accounted for.
OutcomeDecided ==
  \A w \in Workers : pc[w] \in {"ack", "term"} => Accounted(msg[w])

\* The inductive invariant of the first three theorems.
IInv ==
  /\ TypeOK
  /\ IdleHoldsNothing
  /\ CountedIffProcessed
  /\ ClaimsExclusive
  /\ OutcomeDecided
  /\ SettledOnlyIfAccounted

-----------------------------------------------------------------------------
(* The invariant is inductive *)

LEMMA InitIInv == Init => IInv
  BY MaxDeliverAssumption
  DEF Init, IInv, TypeOK, IdleHoldsNothing, CountedIffProcessed, ClaimsExclusive,
      OutcomeDecided, SettledOnlyIfAccounted, PCs, MaxDeliverAssumption

\* What both ways out of a failed handler have in common.
LEMMA HandlerFailedStep ==
  ASSUME NEW w \in Workers, HandlerFailed(w)
  PROVE  Goto(w, "deadLetter") \/ Return(w)
  BY DEF HandlerFailed

\* Returning from dispatch, whatever became accounted for or settled meanwhile.
LEMMA ReturnPreservesIInv ==
  ASSUME IInv, NEW w \in Workers, Return(w),
         stream' = stream, deliveries' = deliveries, database' = database,
         dlq' = dlq \/ (pc[w] # "idle" /\ dlq' = dlq \cup {Id(w)}),
         \/ settled' = settled
         \/ pc[w] # "idle" /\ settled' = settled \cup {msg[w]} /\ Accounted(msg[w]),
         failed' \subseteq Deliveries, broken' \subseteq Msgs,
         buffer' \in [Workers -> SUBSET Deliveries]
  PROVE  IInv'
  <1>0. processed' = processed /\ counted' = counted
    BY DEF database
  <1>1. pc[w] # "idle" => msg[w] \in Msgs /\ Id(w) \in Ids
    BY MsgIdAssumption DEF IInv, TypeOK, Deliveries, Id, MsgIdAssumption
  <1>2. TypeOK'
    <2>1. /\ pc' \in [Workers -> PCs] /\ msg' \in [Workers -> Msgs \cup {NoMsg}]
          /\ attempt' \in [Workers -> 0..MaxDeliver]
          /\ \A v \in Workers : pc'[v] # "idle" => /\ pc[v] # "idle"
                                                  /\ msg'[v] = msg[v] /\ attempt'[v] = attempt[v]
      BY MaxDeliverAssumption DEF Return, IInv, TypeOK, PCs, MaxDeliverAssumption
    <2>2. settled' \subseteq Msgs /\ dlq' \subseteq Ids
      BY <1>1 DEF IInv, TypeOK
    <2>3. QED BY <1>0, <2>1, <2>2 DEF IInv, TypeOK
  <1>3. IdleHoldsNothing' /\ CountedIffProcessed'
    BY <1>0 DEF Return, IInv, TypeOK, IdleHoldsNothing, CountedIffProcessed
  <1>4. ClaimsExclusive'
    BY <1>0 DEF Return, IInv, TypeOK, ClaimsExclusive, Id
  <1>5. OutcomeDecided'
    BY <1>0 DEF Return, IInv, TypeOK, OutcomeDecided, Accounted, Id
  <1>6. SettledOnlyIfAccounted'
    BY <1>0, <1>1 DEF IInv, TypeOK, SettledOnlyIfAccounted, Accounted, Id
  <1>7. QED BY <1>2, <1>3, <1>4, <1>5, <1>6 DEF IInv

\* Moving on to deadLetter with the database as it was.
LEMMA ToDeadLetterPreservesIInv ==
  ASSUME IInv, NEW w \in Workers, pc[w] # "idle", Goto(w, "deadLetter"),
         server' = server, database' = database, failed' \subseteq Deliveries, broken' \subseteq Msgs,
         buffer' \in [Workers -> SUBSET Deliveries]
  PROVE  IInv'
  <1>0. /\ stream' = stream /\ deliveries' = deliveries /\ settled' = settled /\ dlq' = dlq
        /\ processed' = processed /\ counted' = counted
    BY DEF server, database
  <1>1. TypeOK' /\ IdleHoldsNothing' /\ CountedIffProcessed'
    BY <1>0 DEF Goto, IInv, TypeOK, PCs, IdleHoldsNothing, CountedIffProcessed
  <1>2. ClaimsExclusive' /\ OutcomeDecided' /\ SettledOnlyIfAccounted'
    BY <1>0 DEF Goto, IInv, TypeOK, ClaimsExclusive, OutcomeDecided, SettledOnlyIfAccounted,
                Accounted, Id
  <1>3. QED BY <1>1, <1>2 DEF IInv

\* The projection's commit, and wherever dispatch goes from there.
LEMMA ApplyPreservesIInv ==
  ASSUME IInv, NEW w \in Workers, pc[w] = "claimed", Apply(w), server' = server,
         Goto(w, "ack") \/ Goto(w, "deadLetter") \/ Return(w),
         failed' \subseteq Deliveries, broken' \subseteq Msgs,
         buffer' \in [Workers -> SUBSET Deliveries]
  PROVE  IInv'
  <1>0. stream' = stream /\ deliveries' = deliveries /\ settled' = settled /\ dlq' = dlq
    BY DEF server
  <1>1. msg[w] \in Msgs /\ Id(w) \in Ids /\ Id(w) = MsgId[msg[w]] /\ Id(w) \notin processed
    BY MsgIdAssumption DEF IInv, TypeOK, Deliveries, ClaimsExclusive, Id, MsgIdAssumption
  <1>2. /\ processed' = processed \cup {Id(w)}
        /\ counted' = [counted EXCEPT ![Id(w)] = @ + 1]
        /\ counted[Id(w)] = 0
    BY <1>1 DEF Apply, IInv, CountedIffProcessed
  <1>3. \A v \in Workers : v # w => pc'[v] = pc[v] /\ msg'[v] = msg[v]
    BY DEF Goto, Return, IInv, TypeOK
  <1>4. pc'[w] \in {"ack", "deadLetter", "idle"}
        /\ (pc'[w] = "ack" => msg'[w] = msg[w])
    BY DEF Goto, Return, IInv, TypeOK
  <1>5. TypeOK'
    BY <1>0, <1>1, <1>2, MaxDeliverAssumption
    DEF Goto, Return, IInv, TypeOK, PCs, MaxDeliverAssumption
  <1>6. IdleHoldsNothing'
    BY DEF Goto, Return, IInv, TypeOK, IdleHoldsNothing
  <1>7. CountedIffProcessed'
    BY <1>1, <1>2 DEF IInv, TypeOK, CountedIffProcessed
  <1>8. ClaimsExclusive'
    BY <1>2, <1>3, <1>4 DEF IInv, ClaimsExclusive, Id
  <1>9. OutcomeDecided' /\ SettledOnlyIfAccounted'
    BY <1>0, <1>1, <1>2, <1>3, <1>4
    DEF IInv, OutcomeDecided, SettledOnlyIfAccounted, Accounted
  <1>10. QED BY <1>5, <1>6, <1>7, <1>8, <1>9 DEF IInv

\* JetStream and the client: storing, delivering, buffering and losing a delivery
\* decide nothing about an event.
LEMMA ServerPreservesIInv ==
  ASSUME IInv, \/ \E m \in Msgs : Store(m)
               \/ \E w \in Workers : \E m \in Msgs : Deliver(w, m)
               \/ \E w \in Workers : \E d \in Deliveries : Dispatch(w, d) \/ DeliveryLost(w, d)
  PROVE  IInv'
  <1>1. CASE \E m \in Msgs : Store(m)
    BY <1>1 DEF Store, IInv, TypeOK, IdleHoldsNothing, CountedIffProcessed, ClaimsExclusive,
                OutcomeDecided, SettledOnlyIfAccounted, Accounted, Id, database, history
  <1>2. ASSUME NEW w \in Workers, NEW m \in Msgs, Deliver(w, m)
        PROVE  IInv'
    <2>1. deliveries[m] + 1 \in 0..MaxDeliver /\ <<m, deliveries[m] + 1>> \in Deliveries
      BY <1>2, MaxDeliverAssumption DEF Deliver, IInv, TypeOK, MaxDeliverAssumption, Deliveries
    <2>2. TypeOK'
      BY <1>2, <2>1 DEF Deliver, IInv, TypeOK, PCs, database, history
    <2>3. IdleHoldsNothing' /\ CountedIffProcessed' /\ ClaimsExclusive'
      BY <1>2 DEF Deliver, IInv, TypeOK, IdleHoldsNothing, CountedIffProcessed, ClaimsExclusive,
                  Id, database, history
    <2>4. OutcomeDecided' /\ SettledOnlyIfAccounted'
      BY <1>2 DEF Deliver, IInv, TypeOK, OutcomeDecided, SettledOnlyIfAccounted, Accounted, database, history
    <2>5. QED BY <2>2, <2>3, <2>4 DEF IInv
  <1>3. ASSUME NEW w \in Workers, NEW d \in Deliveries, Dispatch(w, d)
        PROVE  IInv'
    <2>1. d[1] \in Msgs /\ d[2] \in 0..MaxDeliver /\ <<d[1], d[2]>> = d
      BY MaxDeliverAssumption DEF Deliveries, MaxDeliverAssumption
    <2>2. TypeOK'
      BY <1>3, <2>1 DEF Dispatch, IInv, TypeOK, PCs, server, database, history
    <2>3. IdleHoldsNothing' /\ CountedIffProcessed' /\ ClaimsExclusive'
      BY <1>3 DEF Dispatch, IInv, TypeOK, IdleHoldsNothing, CountedIffProcessed, ClaimsExclusive,
                  Id, server, database, history
    <2>4. OutcomeDecided' /\ SettledOnlyIfAccounted'
      BY <1>3 DEF Dispatch, IInv, TypeOK, OutcomeDecided, SettledOnlyIfAccounted, Accounted,
                  server, database, history
    <2>5. QED BY <2>2, <2>3, <2>4 DEF IInv
  <1>4. ASSUME NEW w \in Workers, NEW d \in Deliveries, DeliveryLost(w, d)
        PROVE  IInv'
    BY <1>4 DEF DeliveryLost, Break, Fails, IInv, TypeOK, IdleHoldsNothing, CountedIffProcessed,
                ClaimsExclusive, OutcomeDecided, SettledOnlyIfAccounted, Accounted, Id, server, database
  <1>5. QED BY <1>1, <1>2, <1>3, <1>4

\* Handling, dead-lettering and settling without a fault.
LEMMA StepPreservesIInv ==
  ASSUME IInv, NEW w \in Workers, Step(w)
  PROVE  IInv'
  <1>0. /\ history' = history => failed' \subseteq Deliveries /\ broken' \subseteq Msgs
        /\ buffer' = buffer => buffer' \in [Workers -> SUBSET Deliveries]
    BY DEF IInv, TypeOK, history
  <1>1. CASE HandleOther(w)
    <2>1. Accounted(msg[w])
      BY <1>1 DEF HandleOther, Accounted, Id
    <2>2. TypeOK' /\ IdleHoldsNothing' /\ CountedIffProcessed'
      BY <1>1 DEF HandleOther, Goto, IInv, TypeOK, PCs, IdleHoldsNothing, CountedIffProcessed,
                  server, database, history
    <2>3. ClaimsExclusive' /\ OutcomeDecided' /\ SettledOnlyIfAccounted'
      BY <1>1, <2>1 DEF HandleOther, Goto, IInv, TypeOK, ClaimsExclusive, OutcomeDecided,
                        SettledOnlyIfAccounted, Accounted, Id, server, database, history
    <2>4. QED BY <2>2, <2>3 DEF IInv
  <1>2. CASE HandlePoison(w)
    BY <1>0, <1>2, ToDeadLetterPreservesIInv DEF HandlePoison
  <1>3. CASE ClaimEvent(w)
    <2>1. TypeOK' /\ IdleHoldsNothing' /\ CountedIffProcessed'
      BY <1>3 DEF ClaimEvent, Goto, IInv, TypeOK, PCs, IdleHoldsNothing, CountedIffProcessed,
                  server, database, history
    <2>2. ClaimsExclusive'
      BY <1>3 DEF ClaimEvent, Goto, IInv, TypeOK, ClaimsExclusive, Id, database, history
    <2>3. OutcomeDecided' /\ SettledOnlyIfAccounted'
      BY <1>3 DEF ClaimEvent, Goto, IInv, TypeOK, OutcomeDecided, SettledOnlyIfAccounted,
                  Accounted, Id, server, database, history
    <2>4. QED BY <2>1, <2>2, <2>3 DEF IInv
  <1>4. CASE CommitProjection(w)
    BY <1>0, <1>4, ApplyPreservesIInv DEF CommitProjection
  <1>5. CASE Ack(w)
    BY <1>0, <1>5, ReturnPreservesIInv DEF Ack, Settle, IInv, OutcomeDecided
  <1>6. CASE DeadLetter(w)
    <2>1. Id(w) \in Ids /\ Id(w) = MsgId[msg[w]] /\ Id(w) \in dlq'
      BY <1>6, MsgIdAssumption DEF DeadLetter, IInv, TypeOK, Deliveries, Id, MsgIdAssumption
    <2>2. TypeOK' /\ IdleHoldsNothing' /\ CountedIffProcessed'
      BY <1>6, <2>1 DEF DeadLetter, Goto, IInv, TypeOK, PCs, IdleHoldsNothing,
                        CountedIffProcessed, database, history
    <2>3. ClaimsExclusive' /\ OutcomeDecided' /\ SettledOnlyIfAccounted'
      BY <1>6, <2>1 DEF DeadLetter, Goto, IInv, TypeOK, ClaimsExclusive, OutcomeDecided,
                        SettledOnlyIfAccounted, Accounted, Id, database, history
    <2>4. QED BY <2>2, <2>3 DEF IInv
  <1>7. CASE Term(w)
    BY <1>0, <1>7, ReturnPreservesIInv DEF Term, Settle, IInv, OutcomeDecided
  <1>8. QED BY <1>1, <1>2, <1>3, <1>4, <1>5, <1>6, <1>7 DEF Step

\* Failures and crashes: what was not committed is not claimed either.
LEMMA FaultPreservesIInv ==
  ASSUME IInv, NEW w \in Workers, FaultStep(w)
  PROVE  IInv'
  <1>0. Dispatching(w) \subseteq Deliveries /\ Holds(w) \subseteq Deliveries
    BY DEF Dispatching, Holds, IInv, TypeOK
  <1>1. failed' \subseteq Deliveries /\ broken' \subseteq Msgs
        /\ buffer' \in [Workers -> SUBSET Deliveries]
    BY <1>0 DEF FaultStep, CommitUnanswered, HandleFail, AckFail, DeadLetterFail, TermFail, Crash,
                Fault, Break, Fails, IInv, TypeOK
  <1>2. CASE CommitUnanswered(w)
    BY <1>1, <1>2, HandlerFailedStep, ApplyPreservesIInv DEF CommitUnanswered
  <1>3. CASE HandleFail(w)
    <2>1. CASE Goto(w, "deadLetter")
      BY <1>1, <1>3, <2>1, ToDeadLetterPreservesIInv DEF HandleFail
    <2>2. CASE Return(w)
      BY <1>1, <1>3, <2>2, ReturnPreservesIInv DEF HandleFail, server
    <2>3. QED BY <1>3, <2>1, <2>2, HandlerFailedStep DEF HandleFail
  <1>4. CASE AckFail(w) \/ TermFail(w) \/ DeadLetterFail(w)
    BY <1>1, <1>4, ReturnPreservesIInv DEF AckFail, TermFail, DeadLetterFail, server
  <1>5. CASE Crash(w)
    BY <1>1, <1>5, ReturnPreservesIInv DEF Crash, server
  <1>6. QED BY <1>2, <1>3, <1>4, <1>5 DEF FaultStep

LEMMA NextIInv == IInv /\ [Next]_vars => IInv'
  <1>1. ASSUME IInv, UNCHANGED vars PROVE IInv'
    BY <1>1 DEF vars, server, database, history, IInv, TypeOK, IdleHoldsNothing, CountedIffProcessed,
                ClaimsExclusive, OutcomeDecided, SettledOnlyIfAccounted, Accounted, Id
  <1>2. QED BY <1>1, ServerPreservesIInv, StepPreservesIInv, FaultPreservesIInv DEF Next

LEMMA Invariance == Spec => []IInv
  BY InitIInv, NextIInv, PTL DEF Spec

-----------------------------------------------------------------------------
(* Theorems *)

\* Every reachable state is well typed: no message is delivered more than
\* MaxDeliver times, and a worker that dispatches has a message.
THEOREM TypeCorrect == Spec => []TypeOK
  BY Invariance, PTL DEF IInv

\* orderproj.Handle applies an event at most once, however many messages carry
\* it, workers handle it at the same time and answers are lost.
THEOREM EffectivelyOnce == Spec => []AppliedAtMostOnce
  <1>1. IInv => AppliedAtMostOnce
    BY DEF IInv, CountedIffProcessed, AppliedAtMostOnce
  <1>2. QED BY <1>1, Invariance, PTL

\* dispatch never acknowledges or terminates a message whose event has neither
\* taken effect nor reached the dead-letter subject.
THEOREM NothingSettledUnaccounted == Spec => []SettledOnlyIfAccounted
  BY Invariance, PTL DEF IInv

-----------------------------------------------------------------------------
(* A silent drop costs every delivery *)

\* A delivery of an unsettled message is waiting in a buffer, is being dispatched
\* or has failed: no path through dispatch forgets a message for free.
DeliveriesExplained ==
  \A m \in Msgs \ settled : \A n \in 1..deliveries[m] :
    <<m, n>> \in failed \/ \E w \in Workers : <<m, n>> \in Holds(w)

\* The last delivery of a message that is neither settled nor accounted for, and
\* that was not broken off, is still to end.
LastDeliveryHeld ==
  \A m \in Msgs \ (settled \cup broken) :
    deliveries[m] = MaxDeliver /\ ~Accounted(m) =>
      \E w \in Workers : <<m, MaxDeliver>> \in Holds(w)

DInv == DeliveriesExplained /\ LastDeliveryHeld

\* How the delivery d may leave the hands of a worker.
EndedWell(d) ==
  /\ d \in failed \/ d[1] \in settled
  /\ d[2] = MaxDeliver => d[1] \in settled \cup broken \/ Accounted(d[1])

\* A step that lets no delivery go without a reason.
LEMMA NothingForgotten ==
  ASSUME DInv, deliveries' = deliveries, settled \subseteq settled', failed \subseteq failed',
         broken \subseteq broken', processed \subseteq processed', dlq \subseteq dlq',
         \A v \in Workers : \A d \in Holds(v) : d \in Holds(v)' \/ EndedWell(d)'
  PROVE  DInv'
  <1>1. ASSUME NEW m \in Msgs, m \notin settled', NEW n \in 1..deliveries[m]
        PROVE  <<m, n>> \in failed' \/ \E v \in Workers : <<m, n>> \in Holds(v)'
    <2>1. <<m, n>>[1] = m
      OBVIOUS
    <2>2. CASE \E v \in Workers : <<m, n>> \in Holds(v)
      BY <1>1, <2>1, <2>2 DEF EndedWell
    <2>3. QED BY <1>1, <2>2 DEF DInv, DeliveriesExplained
  <1>2. ASSUME NEW m \in Msgs, m \notin settled', m \notin broken',
               deliveries[m] = MaxDeliver, ~Accounted(m)'
        PROVE  \E v \in Workers : <<m, MaxDeliver>> \in Holds(v)'
    <2>1. <<m, MaxDeliver>>[1] = m /\ <<m, MaxDeliver>>[2] = MaxDeliver
      OBVIOUS
    <2>2. ~Accounted(m)
      BY <1>2 DEF Accounted
    <2>3. PICK v \in Workers : <<m, MaxDeliver>> \in Holds(v)
      BY <1>2, <2>2 DEF DInv, LastDeliveryHeld
    <2>4. QED BY <1>2, <2>1, <2>3 DEF EndedWell
  <1>3. QED BY <1>1, <1>2 DEF DInv, DeliveriesExplained, LastDeliveryHeld

\* A worker that goes on with its delivery holds what it held.
LEMMA GotoHolds ==
  ASSUME IInv, NEW w \in Workers, NEW next, next # "idle", pc[w] # "idle", Goto(w, next),
         buffer' = buffer, NEW v \in Workers
  PROVE  Holds(v)' = Holds(v)
  BY DEF Goto, Holds, Dispatching, IInv, TypeOK

\* Returning from dispatch, a worker lets go of the delivery it dispatched.
LEMMA ReturnHolds ==
  ASSUME IInv, NEW w \in Workers, Return(w), NEW v \in Workers, NEW d \in Holds(v)
  PROVE  /\ buffer' = buffer => d \in Holds(v)' \/ d \in Dispatching(w)
         /\ buffer' = [buffer EXCEPT ![w] = {}] => d \in Holds(v)' \/ d \in Holds(w)
  BY DEF Return, Holds, Dispatching, IInv, TypeOK

\* Delivering adds a delivery to a buffer and counts it.
LEMMA DeliverPreservesDInv ==
  ASSUME IInv, DInv, NEW w \in Workers, NEW m \in Msgs, Deliver(w, m)
  PROVE  DInv'
  <1>1. /\ settled' = settled /\ processed' = processed /\ dlq' = dlq
        /\ failed' = failed /\ broken' = broken
        /\ deliveries' = [deliveries EXCEPT ![m] = @ + 1]
    BY DEF Deliver, database, history
  <1>2. /\ <<m, deliveries[m] + 1>> \in Holds(w)'
        /\ \A v \in Workers : Holds(v) \subseteq Holds(v)'
    BY DEF Deliver, Holds, Dispatching, IInv, TypeOK
  <1>3. \A k \in Msgs : deliveries[k] \in Nat /\ (k # m => deliveries'[k] = deliveries[k])
    BY <1>1, MaxDeliverAssumption DEF IInv, TypeOK, MaxDeliverAssumption
  <1>4. deliveries'[m] = deliveries[m] + 1
    BY <1>1 DEF IInv, TypeOK
  <1>5. ASSUME NEW k \in Msgs, k \notin settled, NEW n \in 1..deliveries'[k]
        PROVE  <<k, n>> \in failed \/ \E v \in Workers : <<k, n>> \in Holds(v)'
    <2>1. CASE n \in 1..deliveries[k]
      BY <1>2, <1>5, <2>1 DEF DInv, DeliveriesExplained
    <2>2. CASE n \notin 1..deliveries[k]
      <3>1. k = m /\ n = deliveries[m] + 1
        BY <1>3, <1>4, <1>5, <2>2
      <3>2. QED BY <1>2, <3>1
    <2>3. QED BY <2>1, <2>2
  <1>6. ASSUME NEW k \in Msgs, k \notin settled, k \notin broken, deliveries'[k] = MaxDeliver,
               ~Accounted(k)
        PROVE  \E v \in Workers : <<k, MaxDeliver>> \in Holds(v)'
    <2>1. CASE k = m
      BY <1>2, <1>4, <1>6, <2>1
    <2>2. CASE k # m
      BY <1>2, <1>3, <1>6, <2>2 DEF DInv, LastDeliveryHeld
    <2>3. QED BY <2>1, <2>2
  <1>7. \A k \in Msgs : Accounted(k)' <=> Accounted(k)
    BY <1>1 DEF Accounted
  <1>8. QED BY <1>1, <1>5, <1>6, <1>7 DEF DInv, DeliveriesExplained, LastDeliveryHeld

\* The client moves a delivery to dispatch, or loses it.
LEMMA ClientPreservesDInv ==
  ASSUME IInv, DInv, NEW w \in Workers, NEW d \in Deliveries, Dispatch(w, d) \/ DeliveryLost(w, d)
  PROVE  DInv'
  <1>1. CASE Dispatch(w, d)
    <2>1. d = <<d[1], d[2]>>
      BY DEF Deliveries
    <2>2. \A v \in Workers : Holds(v)' = Holds(v)
      BY <1>1, <2>1 DEF Dispatch, Holds, Dispatching, IInv, TypeOK
    <2>3. QED BY <1>1, <2>2, NothingForgotten DEF Dispatch, server, database, history
  <1>2. CASE DeliveryLost(w, d)
    <2>1. \A v \in Workers : \A e \in Holds(v) : e \in Holds(v)' \/ e = d
      BY <1>2 DEF DeliveryLost, Holds, Dispatching, IInv, TypeOK
    <2>2. d \in failed' /\ (d[2] = MaxDeliver => d[1] \in broken')
      <3>1. d = <<d[1], d[2]>> /\ d[1] \in Msgs
        BY DEF Deliveries
      <3>2. QED BY <1>2, <3>1 DEF DeliveryLost, Break, Fails
    <2>3. QED
      BY <1>2, <2>1, <2>2, NothingForgotten DEF DeliveryLost, Break, Fails, EndedWell, server, database
  <1>3. QED BY <1>1, <1>2

\* What ends without a verdict is remembered as failed, and as broken if last.
LEMMA BreakEnds ==
  ASSUME NEW D \in SUBSET Deliveries, Break(D), NEW d \in D
  PROVE  EndedWell(d)'
  <1>1. d = <<d[1], d[2]>> /\ d[1] \in Msgs
    BY DEF Deliveries
  <1>2. QED BY <1>1 DEF Break, Fails, EndedWell

LEMMA StepPreservesDInv ==
  ASSUME IInv, DInv, NEW w \in Workers, Step(w)
  PROVE  DInv'
  <1>1. CASE HandleOther(w) \/ HandlePoison(w) \/ ClaimEvent(w) \/ CommitProjection(w)
             \/ DeadLetter(w)
    <2>1. \A v \in Workers : Holds(v)' = Holds(v)
      BY <1>1, GotoHolds DEF HandleOther, HandlePoison, ClaimEvent, CommitProjection, DeadLetter
    <2>2. QED
      BY <1>1, <2>1, NothingForgotten
      DEF HandleOther, HandlePoison, ClaimEvent, CommitProjection, DeadLetter, Apply,
          server, database, history
  <1>2. CASE Ack(w) \/ Term(w)
    <2>1. \A d \in Dispatching(w) : d[1] \in settled'
      BY <1>2 DEF Ack, Term, Settle, Dispatching
    <2>2. \A v \in Workers : \A d \in Holds(v) : d \in Holds(v)' \/ EndedWell(d)'
      BY <1>2, <2>1, ReturnHolds DEF Ack, Term, EndedWell
    <2>3. QED BY <1>2, <2>2, NothingForgotten DEF Ack, Term, Settle, database, history
  <1>3. QED BY <1>1, <1>2 DEF Step

\* dispatch gives the last attempt up only after a verdict.
LEMMA FaultPreservesDInv ==
  ASSUME IInv, DInv, NEW w \in Workers, FaultStep(w)
  PROVE  DInv'
  <1>1. CASE CommitUnanswered(w) \/ HandleFail(w)
    <2>1. \A d \in Dispatching(w) : d \in failed' /\ d[2] = attempt[w]
      BY <1>1 DEF CommitUnanswered, HandleFail, Fault, Fails, Dispatching
    <2>2. \A v \in Workers : \A d \in Holds(v) : d \in Holds(v)' \/ EndedWell(d)'
      <3>1. CASE Goto(w, "deadLetter")
        BY <1>1, <3>1, GotoHolds DEF CommitUnanswered, HandleFail
      <3>2. CASE Return(w) /\ attempt[w] # MaxDeliver
        BY <1>1, <2>1, <3>2, ReturnHolds DEF CommitUnanswered, HandleFail, EndedWell
      <3>3. QED BY <1>1, <3>1, <3>2, MaxDeliverAssumption
                DEF CommitUnanswered, HandleFail, HandlerFailed, IInv, TypeOK, MaxDeliverAssumption
    <2>3. QED BY <1>1, <2>2, NothingForgotten
              DEF CommitUnanswered, HandleFail, Apply, Fault, Fails, server, database
  <1>2. CASE AckFail(w) \/ TermFail(w)
    <2>1. \A d \in Dispatching(w) : d \in failed' /\ Accounted(d[1])'
      BY <1>2 DEF AckFail, TermFail, Fault, Fails, Dispatching, IInv, OutcomeDecided, Accounted,
                  server, database
    <2>2. \A v \in Workers : \A d \in Holds(v) : d \in Holds(v)' \/ EndedWell(d)'
      BY <1>2, <2>1, ReturnHolds DEF AckFail, TermFail, EndedWell
    <2>3. QED BY <1>2, <2>2, NothingForgotten DEF AckFail, TermFail, Fault, Fails, server, database
  <1>3. CASE DeadLetterFail(w)
    <2>1. Dispatching(w) \in SUBSET Deliveries
      BY DEF Dispatching, IInv, TypeOK
    <2>2. \A v \in Workers : \A d \in Holds(v) : d \in Holds(v)' \/ EndedWell(d)'
      BY <1>3, <2>1, BreakEnds, ReturnHolds DEF DeadLetterFail
    <2>3. QED BY <1>3, <2>2, NothingForgotten DEF DeadLetterFail, Break, Fails, database
  <1>4. CASE Crash(w)
    <2>1. Holds(w) \in SUBSET Deliveries
      BY DEF Holds, Dispatching, IInv, TypeOK
    <2>2. \A v \in Workers : \A d \in Holds(v) : d \in Holds(v)' \/ EndedWell(d)'
      BY <1>4, <2>1, BreakEnds, ReturnHolds DEF Crash
    <2>3. QED BY <1>4, <2>2, NothingForgotten DEF Crash, Break, Fails, server, database
  <1>5. QED BY <1>1, <1>2, <1>3, <1>4 DEF FaultStep

LEMMA NextDInv == IInv /\ DInv /\ [Next]_vars => DInv'
  <1> SUFFICES ASSUME IInv, DInv, [Next]_vars PROVE DInv'
      OBVIOUS
  <1>1. CASE UNCHANGED vars
    BY <1>1 DEF vars, server, database, history, DInv, DeliveriesExplained, LastDeliveryHeld,
                Holds, Dispatching, Accounted
  <1>2. CASE \E m \in Msgs : Store(m)
    BY <1>2 DEF Store, database, history, DInv, DeliveriesExplained, LastDeliveryHeld,
                Holds, Dispatching, Accounted
  <1>3. QED
    BY <1>1, <1>2, DeliverPreservesDInv, ClientPreservesDInv, StepPreservesDInv, FaultPreservesDInv
    DEF Next

\* dispatch loses an event silently only if each of its MaxDeliver deliveries met
\* a fault or was thrown away with a client's buffer, and the last of them was
\* thrown away, cut off by a crash or ended in a failed dead letter.
THEOREM DropsAreExpensive == Spec => []DropNeedsBrokenDelivery
  <1>1. Init => DInv
    BY MaxDeliverAssumption
    DEF Init, DInv, DeliveriesExplained, LastDeliveryHeld, MaxDeliverAssumption
  <1>2. ASSUME IInv, DInv PROVE DropNeedsBrokenDelivery
    <2> SUFFICES ASSUME NEW m \in stream, Finished(m), ~Accounted(m)
                 PROVE  GivenUp(m)
        BY DEF DropNeedsBrokenDelivery
    <2>1. m \in Msgs /\ m \notin settled /\ deliveries[m] = MaxDeliver
      BY <1>2 DEF IInv, TypeOK, SettledOnlyIfAccounted, Finished
    <2>2. \A n \in 1..MaxDeliver : <<m, n>> \in failed
      BY <1>2, <2>1 DEF DInv, DeliveriesExplained, Finished
    <2>3. m \in broken
      <3>1. MaxDeliver \in 1..MaxDeliver
        BY MaxDeliverAssumption DEF MaxDeliverAssumption
      <3>2. \A w \in Workers : <<m, MaxDeliver>> \notin Holds(w)
        BY <3>1 DEF Finished
      <3>3. QED BY <1>2, <2>1, <3>2 DEF DInv, LastDeliveryHeld
    <2>4. QED BY <2>2, <2>3 DEF GivenUp
  <1>3. QED BY <1>1, <1>2, Invariance, NextDInv, PTL DEF Spec

-----------------------------------------------------------------------------
(* The projection counts what the stream holds *)

\* What a worker buffers or dispatches is a message of the stream, and a transaction
\* that holds a claim is about a created order.
DispatchedIsStored ==
  \A w \in Workers :
    /\ \A d \in buffer[w] : d[1] \in stream
    /\ pc[w] # "idle" => msg[w] \in stream
    /\ pc[w] = "claimed" => Kind[Id(w)] = "created"

\* Every deduplication row is that of a created order whose message is stored.
ProcessedIsStored ==
  \A i \in processed : Kind[i] = "created" /\ \E m \in stream : MsgId[m] = i

SInv == DispatchedIsStored /\ ProcessedIsStored

\* A step of worker w that keeps its message or returns from dispatch.
LEMMA WorkerPreservesSInv ==
  ASSUME IInv, SInv, NEW w \in Workers, stream' = stream,
         \A v \in Workers : buffer'[v] \subseteq buffer[v],
         \/ processed' = processed
         \/ pc[w] = "claimed" /\ processed' = processed \cup {Id(w)},
         \/ \E next \in PCs : /\ pc[w] # "idle" /\ Goto(w, next)
                              /\ next = "claimed" => Kind[Id(w)] = "created"
         \/ Return(w)
  PROVE  SInv'
  <1>1. ProcessedIsStored'
    BY DEF SInv, DispatchedIsStored, ProcessedIsStored, Id
  <1>2. \A v \in Workers : pc'[v] # "idle" => msg'[v] = msg[v] /\ pc[v] # "idle"
    BY DEF Goto, Return, IInv, TypeOK
  <1>3. \A v \in Workers : pc'[v] = "claimed" => Kind[Id(v)] = "created"
    BY DEF Goto, Return, IInv, TypeOK, SInv, DispatchedIsStored
  <1>4. DispatchedIsStored'
    BY <1>2, <1>3 DEF SInv, DispatchedIsStored, Id
  <1>5. QED BY <1>1, <1>4 DEF SInv

LEMMA NextSInv == IInv /\ SInv /\ [Next]_vars => SInv'
  <1> SUFFICES ASSUME IInv, SInv, [Next]_vars PROVE SInv'
      OBVIOUS
  <1>1. CASE UNCHANGED vars
    BY <1>1 DEF vars, server, database, SInv, DispatchedIsStored, ProcessedIsStored, Id
  <1>2. CASE \E m \in Msgs : Store(m)
    BY <1>2 DEF Store, database, SInv, DispatchedIsStored, ProcessedIsStored, Id
  <1>3. ASSUME NEW w \in Workers, NEW m \in Msgs, Deliver(w, m) PROVE SInv'
    <2>1. stream' = stream /\ processed' = processed /\ m \in stream /\ pc' = pc /\ msg' = msg
      BY <1>3 DEF Deliver, database
    <2>2. \A v \in Workers : \A d \in buffer'[v] : d \in buffer[v] \/ d[1] = m
      BY <1>3 DEF Deliver, IInv, TypeOK
    <2>3. QED BY <2>1, <2>2 DEF SInv, DispatchedIsStored, ProcessedIsStored, Id
  <1>4. ASSUME NEW w \in Workers, NEW d \in Deliveries, Dispatch(w, d) PROVE SInv'
    <2>1. stream' = stream /\ processed' = processed /\ d[1] \in stream
      BY <1>4 DEF Dispatch, server, database, SInv, DispatchedIsStored
    <2>2. /\ pc'[w] = "handle" /\ msg'[w] = d[1]
          /\ \A v \in Workers \ {w} : pc'[v] = pc[v] /\ msg'[v] = msg[v]
          /\ \A v \in Workers : buffer'[v] \subseteq buffer[v]
      BY <1>4 DEF Dispatch, IInv, TypeOK
    <2>3. QED BY <2>1, <2>2 DEF SInv, DispatchedIsStored, ProcessedIsStored, Id
  <1>5. ASSUME NEW w \in Workers, NEW d \in Deliveries, DeliveryLost(w, d) PROVE SInv'
    <2>1. \A v \in Workers : buffer'[v] \subseteq buffer[v]
      BY <1>5 DEF DeliveryLost, IInv, TypeOK
    <2>2. QED BY <1>5, <2>1 DEF DeliveryLost, SInv, DispatchedIsStored, ProcessedIsStored, Id,
                                server, database
  <1>6. ASSUME NEW w \in Workers, Step(w) PROVE SInv'
    <2>1. /\ pc[w] # "idle" /\ stream' = stream /\ buffer' = buffer
          /\ \/ processed' = processed
             \/ pc[w] = "claimed" /\ processed' = processed \cup {Id(w)}
      BY <1>6 DEF Step, HandleOther, HandlePoison, ClaimEvent, CommitProjection, Ack, DeadLetter,
                  Term, Apply, server, database
    <2>2. \/ \E next \in PCs : Goto(w, next) /\ (next = "claimed" => Kind[Id(w)] = "created")
          \/ Return(w)
      <3>1. CASE HandleOther(w) \/ CommitProjection(w)
        BY <3>1 DEF HandleOther, CommitProjection, PCs
      <3>2. CASE HandlePoison(w) \/ DeadLetter(w)
        BY <3>2 DEF HandlePoison, DeadLetter, PCs
      <3>3. CASE ClaimEvent(w)
        BY <3>3 DEF ClaimEvent, PCs
      <3>4. CASE Ack(w) \/ Term(w)
        BY <3>4 DEF Ack, Term
      <3>5. QED BY <1>6, <3>1, <3>2, <3>3, <3>4 DEF Step
    <2>3. QED BY <2>1, <2>2, WorkerPreservesSInv
  <1>7. ASSUME NEW w \in Workers, FaultStep(w) PROVE SInv'
    <2>1. /\ stream' = stream
          /\ \A v \in Workers : buffer'[v] \subseteq buffer[v]
          /\ \/ processed' = processed
             \/ pc[w] = "claimed" /\ processed' = processed \cup {Id(w)}
          /\ (pc[w] # "idle" /\ Goto(w, "deadLetter")) \/ Return(w)
      BY <1>7 DEF FaultStep, CommitUnanswered, HandleFail, AckFail, DeadLetterFail, TermFail,
                  Crash, HandlerFailed, Apply, server, database, IInv, TypeOK
    <2>2. "deadLetter" \in PCs
      BY DEF PCs
    <2>3. QED BY <2>1, <2>2, WorkerPreservesSInv
  <1>8. QED BY <1>1, <1>2, <1>3, <1>4, <1>5, <1>6, <1>7 DEF Next

\* order_counts has an increment only for events of created orders, each once and
\* with a message of the stream to show for it.
OnlyStoredCounts ==
  \A i \in Ids : counted[i] > 0 =>
    counted[i] = 1 /\ Kind[i] = "created" /\ \E m \in stream : MsgId[m] = i

\* The projection makes nothing up, whatever is redelivered, duplicated, refused
\* or interrupted (orderproj.Handle, consumer.go: dispatch).
THEOREM CountsComeFromStream == Spec => []OnlyStoredCounts
  <1>1. Init => SInv
    BY DEF Init, SInv, DispatchedIsStored, ProcessedIsStored
  <1>2. IInv /\ SInv => OnlyStoredCounts
    BY DEF IInv, CountedIffProcessed, SInv, ProcessedIsStored, OnlyStoredCounts
  <1>3. QED BY <1>1, <1>2, Invariance, NextSInv, PTL DEF Spec
=============================================================================
