------------------------- MODULE OutboxRelayProofs -------------------------
(***************************************************************************)
(* Machine-checked safety of the outbox relays, for every number of relays *)
(* and rows, every batch size and every number of faults.                  *)
(***************************************************************************)
EXTENDS OutboxRelay, FiniteSetTheorems, TLAPS

\* Marks refer to rows that exist, and a row never comes back once deleted.
TableConsistent ==
  /\ published_at \subseteq outbox
  /\ failed_at \subseteq outbox
  /\ published_at \cap failed_at = {}
  /\ outbox \cap pruned = {}

\* What a drain remembers: only recorded rows, and acknowledged means stored.
DrainConsistent ==
  \A r \in Relays :
    /\ batch[r] \subseteq outbox \cup pruned
    /\ acked[r] \subseteq stored
    /\ acked[r] \subseteq batch[r]
    /\ pc[r] # "publishing" => batch[r] = {} /\ ~session[r]

\* The broker has only rows that some business transaction recorded.
StoredWereRecorded == stored \subseteq outbox \cup pruned

\* The inductive strengthening of the safety properties.
IInv ==
  /\ TypeOK
  /\ TableConsistent
  /\ DrainConsistent
  /\ StoredWereRecorded
  /\ MarkedOnlyIfStored
  /\ HeldRowsStayMarkable
  /\ OpenDrainsDisjoint

-----------------------------------------------------------------------------
(* Lemmas on the helpers *)

\* ORDER BY id LIMIT n returns rows of the set it was given.
LEMMA FirstRowsSubset == \A E, n : FirstRows(E, n) \subseteq E
  BY DEF FirstRows

\* A claim takes rows that are unmarked and that no open drain holds.
LEMMA ClaimableRows ==
  /\ Claimable \subseteq outbox \ (published_at \cup failed_at)
  /\ \A s \in Relays : session[s] => Claimable \cap batch[s] = {}
  BY DEF Claimable, Locked

\* A row that is not locked is in no open drain.
LEMMA UnlockedRow ==
  \A i : i \notin Locked => \A s \in Relays : session[s] => i \notin batch[s]
  BY DEF Locked

-----------------------------------------------------------------------------
(* The invariant is inductive *)

LEMMA InitIInv == Init => IInv
  BY DEF Init, Rows, IInv, TypeOK, TableConsistent, DrainConsistent, StoredWereRecorded,
               MarkedOnlyIfStored, HeldRowsStayMarkable, OpenDrainsDisjoint, table, relay, PCs, NoRow

\* Writers, pruner and operator: none of them disturbs an open drain.
LEMMA EnvironmentPreservesIInv ==
  ASSUME IInv, \/ \E i \in Rows : Insert(i) \/ Replay(i)
               \/ \E S \in SUBSET Rows : Prune(S)
  PROVE  IInv'
  <1>1. CASE \E i \in Rows : Insert(i)
    BY <1>1 DEF Insert, IInv, TypeOK, TableConsistent, DrainConsistent, StoredWereRecorded,
               MarkedOnlyIfStored, HeldRowsStayMarkable, OpenDrainsDisjoint, table, relay, PCs, NoRow
  <1>2. CASE \E i \in Rows : Replay(i)
    BY <1>2 DEF Replay, IInv, TypeOK, TableConsistent, DrainConsistent, StoredWereRecorded,
               MarkedOnlyIfStored, HeldRowsStayMarkable, OpenDrainsDisjoint, table, relay, PCs, NoRow
  <1>3. CASE \E S \in SUBSET Rows : Prune(S)
    BY <1>3 DEF Prune, IInv, TypeOK, TableConsistent, DrainConsistent, StoredWereRecorded,
               MarkedOnlyIfStored, HeldRowsStayMarkable, OpenDrainsDisjoint, table, relay, PCs, NoRow
  <1>4. QED BY <1>1, <1>2, <1>3

\* A claim locks rows that nobody holds, so drains stay disjoint.
LEMMA ClaimPreservesIInv ==
  ASSUME IInv, NEW r \in Relays, Claim(r)
  PROVE  IInv'
  <1> DEFINE B == FirstRows(Claimable, BatchSize)
  <1>1. B \subseteq Claimable
    BY FirstRowsSubset
  <1>2. /\ B \subseteq outbox \ (published_at \cup failed_at)
        /\ \A s \in Relays : session[s] => B \cap batch[s] = {}
    BY <1>1, ClaimableRows
  <1>3. /\ batch' = [batch EXCEPT ![r] = B]
        /\ session' = [session EXCEPT ![r] = TRUE]
        /\ pc' = [pc EXCEPT ![r] = "publishing"]
        /\ pc[r] = "idle"
        /\ UNCHANGED <<table, stored, acked, poison, cancelled, faults>>
    BY DEF Claim
  <1> HIDE DEF B
  <1>4. acked[r] = {}
    BY <1>3 DEF IInv, DrainConsistent
  <1>5. QED
    BY <1>2, <1>3, <1>4 DEF IInv, TypeOK, TableConsistent, DrainConsistent, StoredWereRecorded,
               MarkedOnlyIfStored, HeldRowsStayMarkable, OpenDrainsDisjoint, table, relay, PCs, NoRow

\* The publish loop: an acknowledgement is recorded only with the store.
LEMMA PublishPreservesIInv ==
  ASSUME IInv, NEW r \in Relays, NEW i \in Rows,
         \/ Publish(r, i)
         \/ \E kind \in TransientErrors : PublishTransient(r, i, kind)
         \/ PublishPermanent(r, i)
  PROVE  IInv'
  <1>1. CASE Publish(r, i)
    BY <1>1 DEF Publish, IsNextToPublish, IInv, TypeOK, TableConsistent, DrainConsistent, StoredWereRecorded,
               MarkedOnlyIfStored, HeldRowsStayMarkable, OpenDrainsDisjoint, table, relay, PCs, NoRow
  <1>2. ASSUME NEW kind \in TransientErrors, PublishTransient(r, i, kind)
        PROVE  IInv'
    BY <1>2 DEF PublishTransient, IsNextToPublish, SpendFault, MaybeStored, EndDrain, AfterError,
               IInv, TypeOK, TableConsistent, DrainConsistent, StoredWereRecorded,
               MarkedOnlyIfStored, HeldRowsStayMarkable, OpenDrainsDisjoint, table, relay, PCs, NoRow
  <1>3. CASE PublishPermanent(r, i)
    BY <1>3 DEF PublishPermanent, IsNextToPublish, SpendFault, EndDrain,
               IInv, TypeOK, TableConsistent, DrainConsistent, StoredWereRecorded,
               MarkedOnlyIfStored, HeldRowsStayMarkable, OpenDrainsDisjoint, table, relay, PCs, NoRow
  <1>4. QED BY <1>1, <1>2, <1>3

\* The quarantine waits for whoever holds the row and skips a published one.
LEMMA QuarantinePreservesIInv ==
  ASSUME IInv, NEW r \in Relays,
         Quarantine(r) \/ \E kind \in TransientErrors : QuarantineFail(r, kind)
  PROVE  IInv'
  <1>1. CASE Quarantine(r)
    <2>1. \A s \in Relays : session[s] => poison[r] \notin batch[s]
      BY <1>1, UnlockedRow DEF Quarantine
    <2>2. QED
      BY <1>1, <2>1 DEF Quarantine, IInv, TypeOK, TableConsistent, DrainConsistent, StoredWereRecorded,
               MarkedOnlyIfStored, HeldRowsStayMarkable, OpenDrainsDisjoint, table, relay, PCs, NoRow
  <1>2. ASSUME NEW kind \in TransientErrors, QuarantineFail(r, kind)
        PROVE  IInv'
    BY <1>2 DEF QuarantineFail, SpendFault, AfterError, IInv, TypeOK, TableConsistent, DrainConsistent,
                StoredWereRecorded,
               MarkedOnlyIfStored, HeldRowsStayMarkable, OpenDrainsDisjoint, table, relay, PCs, NoRow
  <1>3. QED BY <1>1, <1>2

\* Marking: the batch is held, acknowledged and therefore stored.
LEMMA CommitPreservesIInv ==
  ASSUME IInv, NEW r \in Relays, Commit(r) \/ CommitUnanswered(r) \/ CommitFail(r)
  PROVE  IInv'
  <1>1. CASE Commit(r)
    BY <1>1 DEF Commit, EndDrain, IInv, TypeOK, TableConsistent, DrainConsistent, StoredWereRecorded,
               MarkedOnlyIfStored, HeldRowsStayMarkable, OpenDrainsDisjoint, table, relay, PCs, NoRow
  <1>2. CASE CommitUnanswered(r)
    BY <1>2 DEF CommitUnanswered, EndDrain, SpendFault, IInv, TypeOK, TableConsistent, DrainConsistent,
                StoredWereRecorded,
               MarkedOnlyIfStored, HeldRowsStayMarkable, OpenDrainsDisjoint, table, relay, PCs, NoRow
  <1>3. CASE CommitFail(r)
    BY <1>3 DEF CommitFail, EndDrain, IInv, TypeOK, TableConsistent, DrainConsistent, StoredWereRecorded,
               MarkedOnlyIfStored, HeldRowsStayMarkable, OpenDrainsDisjoint, table, relay, PCs, NoRow
  <1>4. QED BY <1>1, <1>2, <1>3

\* Losing the session, SIGTERM, death and restart only ever drop claims.
LEMMA LifecyclePreservesIInv ==
  ASSUME IInv, NEW r \in Relays,
         \/ LoseSession(r) \/ Cancel(r) \/ DrainCancelled(r)
         \/ RunReturn(r) \/ Crash(r) \/ Restart(r)
  PROVE  IInv'
  <1>1. CASE LoseSession(r)
    BY <1>1 DEF LoseSession, SpendFault, IInv, TypeOK, TableConsistent, DrainConsistent, StoredWereRecorded,
               MarkedOnlyIfStored, HeldRowsStayMarkable, OpenDrainsDisjoint, table, relay, PCs, NoRow
  <1>2. CASE Cancel(r)
    BY <1>2 DEF Cancel, SpendFault, IInv, TypeOK, TableConsistent, DrainConsistent, StoredWereRecorded,
               MarkedOnlyIfStored, HeldRowsStayMarkable, OpenDrainsDisjoint, table, relay, PCs, NoRow
  <1>3. CASE DrainCancelled(r)
    BY <1>3 DEF DrainCancelled, IsNextToPublish, EndDrain, IInv, TypeOK, TableConsistent,
                DrainConsistent, StoredWereRecorded,
               MarkedOnlyIfStored, HeldRowsStayMarkable, OpenDrainsDisjoint, table, relay, PCs, NoRow
  <1>4. CASE RunReturn(r)
    BY <1>4 DEF RunReturn, IInv, TypeOK, TableConsistent, DrainConsistent, StoredWereRecorded,
               MarkedOnlyIfStored, HeldRowsStayMarkable, OpenDrainsDisjoint, table, relay, PCs, NoRow
  <1>5. CASE Crash(r)
    BY <1>5 DEF Crash, IsNextToPublish, SpendFault, EndDrain, IInv, TypeOK, TableConsistent,
                DrainConsistent, StoredWereRecorded,
               MarkedOnlyIfStored, HeldRowsStayMarkable, OpenDrainsDisjoint, table, relay, PCs, NoRow
  <1>6. CASE Restart(r)
    BY <1>6 DEF Restart, IInv, TypeOK, TableConsistent, DrainConsistent, StoredWereRecorded,
               MarkedOnlyIfStored, HeldRowsStayMarkable, OpenDrainsDisjoint, table, relay, PCs, NoRow
  <1>7. QED BY <1>1, <1>2, <1>3, <1>4, <1>5, <1>6

LEMMA NextPreservesIInv == IInv /\ [Next]_vars => IInv'
  <1> SUFFICES ASSUME IInv, [Next]_vars PROVE IInv'
    OBVIOUS
  <1>1. CASE UNCHANGED vars
    BY <1>1 DEF vars, IInv, TypeOK, TableConsistent, DrainConsistent, StoredWereRecorded,
               MarkedOnlyIfStored, HeldRowsStayMarkable, OpenDrainsDisjoint, table, relay, PCs, NoRow
  <1>2. CASE \/ \E i \in Rows : Insert(i) \/ Replay(i)
             \/ \E S \in SUBSET Rows : Prune(S)
    BY <1>2, EnvironmentPreservesIInv
  <1>3. ASSUME NEW r \in Relays, RelayStep(r)
        PROVE  IInv'
    BY <1>3, ClaimPreservesIInv, PublishPreservesIInv, QuarantinePreservesIInv,
       CommitPreservesIInv, LifecyclePreservesIInv DEF RelayStep
  <1>4. ASSUME NEW r \in Relays, Fault(r)
        PROVE  IInv'
    BY <1>4, PublishPreservesIInv, QuarantinePreservesIInv, CommitPreservesIInv,
       LifecyclePreservesIInv DEF Fault
  <1>5. QED BY <1>1, <1>2, <1>3, <1>4 DEF Next

-----------------------------------------------------------------------------
(* Theorems of the specification *)

LEMMA SpecIInv == Spec => []IInv
  BY InitIInv, NextPreservesIInv, PTL DEF Spec

\* Every state of the relays is well formed.
THEOREM TypeCorrect == Spec => []TypeOK
  BY SpecIInv, PTL DEF IInv

\* No lost events: a row is marked published or deleted only after the broker
\* stored it, for any number of relays, crashes and lost database sessions.
THEOREM NoLostEvents == Spec => []MarkedOnlyIfStored
  BY SpecIInv, PTL DEF IInv

\* No two open drains hold a row, and no step of anyone takes one from its drain:
\* SKIP LOCKED is enough, and markPublished's mismatch error cannot happen.
THEOREM ClaimsAreExclusive == Spec => []DrainsOwnTheirRows
  BY SpecIInv, PTL DEF IInv, DrainsOwnTheirRows

\* No step of anyone, the pruner included, deletes a quarantined row.
THEOREM QuarantineIsSafe == Spec => QuarantinedRowsAreKept
  <1>1. IInv /\ [Next]_vars => [failed_at \subseteq outbox']_vars
    <2> SUFFICES ASSUME IInv, Next PROVE failed_at \subseteq outbox'
      OBVIOUS
    <2>1. ASSUME NEW S \in SUBSET Rows, Prune(S)
          PROVE  failed_at \subseteq outbox'
      BY <2>1 DEF Prune, IInv, TableConsistent
    <2>2. ASSUME NEW i \in Rows, Insert(i) \/ Replay(i)
          PROVE  failed_at \subseteq outbox'
      BY <2>2 DEF Insert, Replay, IInv, TableConsistent
    <2>3. ASSUME NEW r \in Relays, RelayStep(r) \/ Fault(r)
          PROVE  outbox' = outbox
      BY <2>3 DEF RelayStep, Fault, Claim, Publish, Quarantine, Commit, CommitFail,
                  DrainCancelled, RunReturn, Restart, PublishTransient, PublishPermanent,
                  QuarantineFail, CommitUnanswered, LoseSession, Cancel, Crash, table
    <2>4. QED
      BY <2>1, <2>2, <2>3 DEF Next, IInv, TableConsistent
  <1>2. QED BY <1>1, SpecIInv, PTL DEF Spec, QuarantinedRowsAreKept

-----------------------------------------------------------------------------
(* Per-aggregate order, for a deployment with one relay *)

Earlier(i, j) == i < j /\ Aggregate[i] = Aggregate[j]

\* A batch has, with each row, what its aggregate has still to send before it.
BatchesAreClosed ==
  \A r \in Relays : \A j \in batch[r] : \A i \in outbox \cup pruned :
    Earlier(i, j) => i \in stored \cup quarantined \cup batch[r]

\* What the order rests on, beyond IInv.
OInv ==
  /\ IInv
  /\ failed_at \subseteq quarantined
  /\ BatchesAreClosed
  /\ PerAggregateOrder

\* ORDER BY id LIMIT n: with a row, the earlier ones of the set are taken too.
LEMMA FirstRowsAreFirst ==
  ASSUME NEW E \in SUBSET Rows, NEW n \in Nat, NEW j \in FirstRows(E, n), NEW i \in E, i < j
  PROVE  i \in FirstRows(E, n)
  <1> DEFINE Before(k) == {l \in E : l < k}
  <1>1. Rows \subseteq Int /\ IsFiniteSet(Rows)
    BY FS_Interval, MaxRowAssumption DEF Rows
  <1>2. IsFiniteSet(Before(j)) /\ IsFiniteSet(Before(i))
    BY <1>1, FS_Subset
  <1>3. Before(i) \subseteq Before(j)
    <2>1. i \in Int /\ j \in Int /\ E \subseteq Int
      BY <1>1, FirstRowsSubset
    <2>2. \A l \in Int : l < i => l < j
      BY <2>1
    <2>3. QED BY <2>1, <2>2
  <1>4. Cardinality(Before(i)) <= Cardinality(Before(j))
    BY <1>2, <1>3, FS_Subset
  <1>5. Cardinality(Before(i)) \in Nat /\ Cardinality(Before(j)) \in Nat /\ Cardinality(Before(j)) < n
    BY <1>2, FS_CardinalityType DEF FirstRows
  <1>6. QED BY <1>4, <1>5 DEF FirstRows

\* The only relay claims when nothing is locked: what stands before a claimed row
\* is claimed with it, quarantined, or marked and so stored.
LEMMA ClaimsAreClosed ==
  ASSUME OInv, \A r, s \in Relays : r = s, NEW r \in Relays, Claim(r)
  PROVE  OInv'
  <1> DEFINE B == FirstRows(Claimable, BatchSize)
  <1>1. IInv'
    BY ClaimPreservesIInv DEF OInv
  <1>2. /\ batch' = [batch EXCEPT ![r] = B]
        /\ UNCHANGED <<table, stored>>
    BY DEF Claim
  <1>3. Locked = {}
    BY DEF Claim, Locked, OInv, IInv, DrainConsistent
  <1>4. Claimable = outbox \ (published_at \cup failed_at) /\ Claimable \in SUBSET Rows
    BY <1>3 DEF Claimable, OInv, IInv, TypeOK
  <1>5. ASSUME NEW j \in B, NEW i \in outbox \cup pruned, Earlier(i, j)
        PROVE  i \in stored \cup quarantined \cup B
    <2>1. CASE i \in Claimable
      BY <1>4, <1>5, <2>1, FirstRowsAreFirst, BatchSizeAssumption DEF Earlier
    <2>2. CASE i \notin Claimable
      BY <1>4, <2>2 DEF OInv, IInv, MarkedOnlyIfStored
    <2>3. QED BY <2>1, <2>2
  <1> HIDE DEF B
  <1>6. BatchesAreClosed'
    BY <1>2, <1>5 DEF OInv, IInv, TypeOK, BatchesAreClosed, Earlier, table
  <1>7. QED
    BY <1>1, <1>2, <1>6 DEF OInv, PerAggregateOrder, table

\* Every other step of a relay: batches stay or end, and only the next row of a
\* batch reaches the broker, after all that stand before it.
LEMMA RelayKeepsOrder ==
  ASSUME OInv, NEW r \in Relays, RelayStep(r) \/ Fault(r), ~Claim(r)
  PROVE  OInv'
  <1>1. IInv'
    BY NextPreservesIInv DEF OInv, Next
  <1>2. /\ UNCHANGED <<outbox, pruned>>
        /\ quarantined \subseteq quarantined' /\ stored \subseteq stored'
        /\ failed_at' \subseteq quarantined'
    BY DEF RelayStep, Fault, Publish, Quarantine, Commit, CommitFail, DrainCancelled, RunReturn, Restart,
           PublishTransient, PublishPermanent, QuarantineFail, CommitUnanswered, LoseSession, Cancel,
           Crash, table, MaybeStored, OInv
  <1>3. \A s \in Relays : batch'[s] = batch[s] \/ batch'[s] = {}
    BY DEF RelayStep, Fault, Publish, Quarantine, Commit, CommitFail, DrainCancelled, RunReturn, Restart,
           PublishTransient, PublishPermanent, QuarantineFail, CommitUnanswered, LoseSession, Cancel,
           Crash, EndDrain, OInv, IInv, TypeOK
  <1>4. BatchesAreClosed'
    BY <1>2, <1>3 DEF OInv, BatchesAreClosed, Earlier
  <1>5. stored' = stored \/ \E i \in Rows : IsNextToPublish(r, i) /\ stored' = stored \cup {i}
    BY DEF RelayStep, Fault, Publish, Quarantine, Commit, CommitFail, DrainCancelled, RunReturn, Restart,
           PublishTransient, PublishPermanent, QuarantineFail, CommitUnanswered, LoseSession, Cancel,
           Crash, MaybeStored, IsNextToPublish, OInv, IInv, TypeOK
  <1>6. PerAggregateOrder'
    <2>1. CASE stored' = stored
      BY <1>2, <2>1 DEF OInv, PerAggregateOrder
    <2>2. ASSUME NEW k \in Rows, IsNextToPublish(r, k), stored' = stored \cup {k}
          PROVE  PerAggregateOrder'
      <3>1. ASSUME NEW i \in outbox \cup pruned, Earlier(i, k)
            PROVE  i \in stored \cup quarantined
        <4>1. i \in stored \cup quarantined \cup batch[r]
          BY <2>2, <3>1 DEF OInv, BatchesAreClosed, IsNextToPublish
        <4>2. i \in batch[r] => i \in acked[r]
          BY <2>2, <3>1, MaxRowAssumption DEF IsNextToPublish, Earlier, Rows, OInv, IInv, TypeOK
        <4>3. QED BY <4>1, <4>2 DEF OInv, IInv, DrainConsistent
      <3>2. QED
        BY <1>2, <2>2, <3>1 DEF OInv, PerAggregateOrder, Earlier
    <2>3. QED BY <1>5, <2>1, <2>2
  <1>7. QED BY <1>1, <1>2, <1>4, <1>6 DEF OInv

\* Writers, pruner and operator keep the order: a new row is after the recorded
\* rows of its aggregate, those of any batch and of the broker among them.
LEMMA EnvironmentKeepsOrder ==
  ASSUME OInv, \/ \E i \in Rows : Insert(i) \/ Replay(i)
               \/ \E S \in SUBSET Rows : Prune(S)
  PROVE  OInv'
  <1>1. IInv'
    BY EnvironmentPreservesIInv DEF OInv
  <1>2. UNCHANGED <<batch, stored, quarantined>> /\ failed_at' \subseteq quarantined'
    BY DEF Insert, Replay, Prune, OInv, relay
  <1>3. ASSUME NEW i \in (outbox \cup pruned)', NEW j \in outbox \cup pruned, Earlier(i, j)
        PROVE  i \in outbox \cup pruned
    <2>1. ASSUME NEW k \in Rows, Insert(k)
          PROVE  i \in outbox \cup pruned
      <3>1. i # k
        BY <1>3, <2>1, MaxRowAssumption DEF Insert, Earlier, Rows, OInv, IInv, TypeOK
      <3>2. QED BY <2>1, <3>1 DEF Insert
    <2>2. QED BY <2>1 DEF Replay, Prune, OInv, IInv, TypeOK, TableConsistent
  <1>4. BatchesAreClosed'
    BY <1>2, <1>3 DEF OInv, IInv, DrainConsistent, BatchesAreClosed, Earlier
  <1>5. PerAggregateOrder'
    BY <1>2, <1>3 DEF OInv, IInv, StoredWereRecorded, PerAggregateOrder, Earlier
  <1>6. QED BY <1>1, <1>2, <1>4, <1>5 DEF OInv

\* With one relay (outbox.go: "single relay") an event reaches the broker only
\* after the earlier events of its aggregate, whatever crashes, is retried,
\* quarantined, replayed or pruned on the way.
THEOREM OneRelayKeepsOrder ==
  ASSUME \A r, s \in Relays : r = s
  PROVE  Spec => []PerAggregateOrder
  <1>1. Init => OInv
    BY InitIInv DEF Init, OInv, BatchesAreClosed, PerAggregateOrder
  <1>2. OInv /\ [Next]_vars => OInv'
    <2> SUFFICES ASSUME OInv, [Next]_vars PROVE OInv'
      OBVIOUS
    <2>1. CASE UNCHANGED vars
      BY <2>1, NextPreservesIInv
         DEF vars, table, relay, OInv, BatchesAreClosed, PerAggregateOrder, Earlier
    <2>2. ASSUME NEW r \in Relays, RelayStep(r) \/ Fault(r)
          PROVE  OInv'
      BY <2>2, ClaimsAreClosed, RelayKeepsOrder
    <2>3. QED BY <2>1, <2>2, EnvironmentKeepsOrder DEF Next
  <1>3. QED BY <1>1, <1>2, PTL DEF Spec, OInv

-----------------------------------------------------------------------------
(* Refinement *)

\* What the broker may gain in one step of a relay: nothing, or one recorded row.
LEMMA RelayStepsAsDelivery ==
  ASSUME IInv, NEW r \in Relays, RelayStep(r) \/ Fault(r)
  PROVE  [Delivery!Next]_(Delivery!vars)
  <1>1. /\ outbox' = outbox
        /\ pruned' = pruned
    BY DEF RelayStep, Fault, Claim, Publish, Quarantine, Commit, CommitFail,
           DrainCancelled, RunReturn, Restart, PublishTransient, PublishPermanent,
           QuarantineFail, CommitUnanswered, LoseSession, Cancel, Crash, table
  <1>2. CASE Commit(r) \/ CommitUnanswered(r)
    <2>1. /\ published_at' = published_at \cup batch[r]
          /\ stored' = stored
          /\ batch[r] \subseteq stored
          /\ batch[r] \in SUBSET Rows
      BY <1>2 DEF Commit, CommitUnanswered, IInv, DrainConsistent, TypeOK
    <2>2. Delivery!Retire(batch[r])
      BY <1>1, <2>1 DEF Delivery!Retire
    <2>3. QED
      BY <2>1, <2>2 DEF Delivery!Next
  <1>3. CASE /\ published_at' = published_at
             /\ \/ stored' = stored
                \/ \E i \in Rows : i \in batch[r] /\ stored' = stored \cup {i}
    <2>1. CASE stored' = stored
      BY <1>1, <1>3, <2>1 DEF Delivery!vars
    <2>2. ASSUME NEW i \in Rows, i \in batch[r], stored' = stored \cup {i}
          PROVE  Delivery!Next
      <3>1. i \in outbox \cup pruned
        BY <2>2 DEF IInv, DrainConsistent
      <3>2. Delivery!Deliver(i)
        BY <1>1, <1>3, <2>2, <3>1 DEF Delivery!Deliver
      <3>3. QED
        BY <3>2 DEF Delivery!Next
    <2>3. QED
      BY <1>3, <2>1, <2>2
  <1>4. CASE ~(Commit(r) \/ CommitUnanswered(r))
    <2>1. /\ published_at' = published_at
          /\ \/ stored' = stored
             \/ \E i \in batch[r] : stored' = stored \cup {i}
      BY <1>4 DEF RelayStep, Fault, Claim, Publish, Quarantine, CommitFail,
           DrainCancelled, RunReturn, Restart, PublishTransient, PublishPermanent,
           QuarantineFail, LoseSession, Cancel, Crash, table,
           MaybeStored, IsNextToPublish
    <2>2. QED
      BY <1>3, <2>1 DEF IInv, TypeOK
  <1>5. QED BY <1>2, <1>4

\* The relays implement the promise of EventDelivery: whatever fails, an event
\* is retired only after the broker has it.
THEOREM RelayImplementsDelivery == Spec => ImplementsDelivery
  <1>1. Init => Delivery!Init
    BY DEF Init, Delivery!Init
  <1>2. IInv /\ [Next]_vars => [Delivery!Next]_(Delivery!vars)
    <2> SUFFICES ASSUME IInv, [Next]_vars PROVE [Delivery!Next]_(Delivery!vars)
      OBVIOUS
    <2>1. CASE UNCHANGED vars
      BY <2>1 DEF vars, table, Delivery!vars
    <2>2. ASSUME NEW i \in Rows, Insert(i)
          PROVE  Delivery!Next
      <3>1. Delivery!Record(i)
        BY <2>2 DEF Insert, Delivery!Record
      <3>2. QED
        BY <3>1 DEF Delivery!Next
    <2>3. ASSUME NEW i \in Rows, Replay(i)
          PROVE  UNCHANGED Delivery!vars
      BY <2>3 DEF Replay, Delivery!vars
    <2>4. ASSUME NEW S \in SUBSET Rows, Prune(S)
          PROVE  UNCHANGED Delivery!vars
      BY <2>4 DEF Prune, Delivery!vars, IInv, TableConsistent
    <2>5. QED
      BY <2>1, <2>2, <2>3, <2>4, RelayStepsAsDelivery DEF Next
  <1>3. QED
    BY <1>1, <1>2, SpecIInv, PTL DEF Spec, ImplementsDelivery, Delivery!Spec
=============================================================================
