---------------------------- MODULE OutboxRelay ----------------------------
(***************************************************************************)
(* The transactional outbox and the relays that drain it:                  *)
(* internal/platform/outbox/relay.go (DrainOnce, quarantine, Run) over the *)
(* outbox table, with internal/platform/outbox/prune.go deleting from it   *)
(* and an operator replaying quarantined rows.                             *)
(*                                                                         *)
(* A drain is one database transaction held open across network calls, so  *)
(* it is split where another process can act: claim, one step per publish, *)
(* the separate quarantine statement, mark-and-commit.  The UPDATE of      *)
(* markPublished is invisible to everyone until Commit and is one step     *)
(* with it.                                                                *)
(*                                                                         *)
(* Left out: payloads and headers, log lines, the poll interval (a timer   *)
(* always fires eventually), and a drain that claims nothing or fails to   *)
(* begin, which changes no state.                                          *)
(***************************************************************************)
EXTENDS Integers, FiniteSets

CONSTANTS
  Relays,           \* worker processes, one relay goroutine each
  MaxRow,           \* bound: outbox ids are 1..MaxRow
  Aggregate,        \* Aggregate[i] is the order that row i is about
  BatchSize,        \* LIMIT of the claim
  TransientErrors,  \* what an unsuccessful publish or quarantine returns:
                    \* "timeout" is context.DeadlineExceeded, "refused" the rest
  MaxFaults         \* bound: failures, crashes, lost sessions and SIGTERMs together

ASSUME MaxRowAssumption == MaxRow \in Nat
ASSUME BatchSizeAssumption == BatchSize \in Nat \ {0}
ASSUME AggregateAssumption == DOMAIN Aggregate = 1..MaxRow
ASSUME TransientErrorsAssumption == TransientErrors \subseteq {"timeout", "refused"}
ASSUME MaxFaultsAssumption == MaxFaults \in Nat

Rows == 1..MaxRow

VARIABLES
  outbox,        \* committed rows present in the table
  published_at,  \* rows whose published_at is not NULL
  failed_at,     \* rows whose failed_at is not NULL (quarantined)
  pruned,        \* history: rows the pruner deleted
  quarantined,   \* history: rows that were ever quarantined
  stored,        \* rows the broker has stored at least once
  pc,            \* where each relay is in Run and DrainOnce
  batch,         \* rows the relay's current drain claimed
  acked,         \* rows of the batch the broker acknowledged to this drain
  session,       \* the drain's transaction is open, so its row locks are held
  poison,        \* the row the relay is about to quarantine
  cancelled,     \* the worker's context is cancelled (SIGTERM)
  faults         \* faults spent

table == <<outbox, published_at, failed_at, pruned, quarantined>>
relay == <<pc, batch, acked, session, poison, cancelled>>
vars  == <<table, stored, relay, faults>>

NoRow == 0

PCs == {"idle", "publishing", "quarantine", "returned", "down"}

TypeOK ==
  /\ outbox \subseteq Rows
  /\ published_at \subseteq Rows
  /\ failed_at \subseteq Rows
  /\ pruned \subseteq Rows
  /\ quarantined \subseteq Rows
  /\ stored \subseteq Rows
  /\ pc \in [Relays -> PCs]
  /\ batch \in [Relays -> SUBSET Rows]
  /\ acked \in [Relays -> SUBSET Rows]
  /\ session \in [Relays -> BOOLEAN]
  /\ poison \in [Relays -> Rows \cup {NoRow}]
  /\ cancelled \in [Relays -> BOOLEAN]
  /\ faults \in Nat

Init ==
  /\ outbox = {} /\ published_at = {} /\ failed_at = {}
  /\ pruned = {} /\ quarantined = {}
  /\ stored = {}
  /\ pc = [r \in Relays |-> "idle"]
  /\ batch = [r \in Relays |-> {}]
  /\ acked = [r \in Relays |-> {}]
  /\ session = [r \in Relays |-> FALSE]
  /\ poison = [r \in Relays |-> NoRow]
  /\ cancelled = [r \in Relays |-> FALSE]
  /\ faults = 0

-----------------------------------------------------------------------------
(* Helpers *)

\* Rows under a row lock: those of every drain whose transaction is open.
Locked == UNION {batch[r] : r \in {s \in Relays : session[s]}}

\* Mutant: ORDER BY id DESC, the newest rows first.
FirstRows_NewestFirst(E, n) == {i \in E : Cardinality({j \in E : j > i}) < n}

\* The first n elements of a set of rows: ORDER BY id LIMIT n.
FirstRows(E, n) == {i \in E : Cardinality({j \in E : j < i}) < n}

\* Mutant: a claim without SKIP LOCKED's exclusion of locked rows.
Claimable_IgnoringLocks == outbox \ (published_at \cup failed_at)

\* WHERE published_at IS NULL AND failed_at IS NULL ... SKIP LOCKED.
Claimable == (outbox \ (published_at \cup failed_at)) \ Locked

\* Mutant: the batch is published in no particular order.
IsNextToPublish_Unordered(r, i) == i \in batch[r] \ acked[r]

\* The row DrainOnce's loop publishes next: batches are published in id order.
IsNextToPublish(r, i) ==
  /\ i \in batch[r] \ acked[r]
  /\ \A j \in batch[r] \ acked[r] : i <= j

SpendFault ==
  /\ faults < MaxFaults
  /\ faults' = faults + 1

\* DrainOnce leaves, rolling its transaction back if it is still open.
EndDrain(r, next) ==
  /\ pc' = [pc EXCEPT ![r] = next]
  /\ batch' = [batch EXCEPT ![r] = {}]
  /\ acked' = [acked EXCEPT ![r] = {}]
  /\ session' = [session EXCEPT ![r] = FALSE]

\* Run's switch on the drain's error: a DeadlineExceeded makes it return nil.
AfterError(kind) == IF kind = "timeout" THEN "returned" ELSE "idle"

\* The broker may or may not have stored a message whose publish got no answer.
MaybeStored(i) == stored' \in {stored, stored \cup {i}}

-----------------------------------------------------------------------------
(* The business transaction that writes rows, the pruner and the operator *)

\* A business transaction commits row i.  Ids come from a sequence, so rows
\* become visible out of id order and a rolled-back id is a gap, but the row lock
\* on the order commits the rows of one aggregate in id order (see EventPath).
Insert(i) ==
  /\ i \notin outbox \cup pruned
  /\ \A j \in outbox \cup pruned : Aggregate[j] = Aggregate[i] => j < i
  /\ outbox' = outbox \cup {i}
  /\ UNCHANGED <<published_at, failed_at, pruned, quarantined, stored, relay, faults>>

\* Mutant: the cutoff is applied to occurred_at, the column that reads like age.
Prune_ByOccurredAt(S) ==
  /\ S # {}
  /\ S \subseteq outbox \ Locked
  /\ outbox' = outbox \ S
  /\ published_at' = published_at \ S
  /\ failed_at' = failed_at \ S
  /\ pruned' = pruned \cup S
  /\ UNCHANGED <<quarantined, stored, relay, faults>>

\* One DELETE of the pruner: any set of rows whose published_at is past some
\* cutoff.  failed_at is not consulted.
Prune(S) ==
  /\ S # {}
  /\ S \subseteq published_at
  /\ outbox' = outbox \ S
  /\ published_at' = published_at \ S
  /\ failed_at' = failed_at \ S
  /\ pruned' = pruned \cup S
  /\ UNCHANGED <<quarantined, stored, relay, faults>>

\* The documented replay: UPDATE outbox SET failed_at = NULL WHERE id = i.
Replay(i) ==
  /\ i \in failed_at
  /\ failed_at' = failed_at \ {i}
  /\ UNCHANGED <<outbox, published_at, pruned, quarantined, stored, relay, faults>>

-----------------------------------------------------------------------------
(* Relay *)

\* BEGIN and claimSQL found rows.
Claim(r) ==
  /\ pc[r] = "idle"
  /\ ~cancelled[r]
  /\ Claimable # {}
  /\ pc' = [pc EXCEPT ![r] = "publishing"]
  /\ batch' = [batch EXCEPT ![r] = FirstRows(Claimable, BatchSize)]
  /\ session' = [session EXCEPT ![r] = TRUE]
  /\ UNCHANGED <<table, stored, acked, poison, cancelled, faults>>

\* Mutant: the asynchronous publish API, which returns before the broker stores.
Publish_Async(r, i) ==
  /\ pc[r] = "publishing"
  /\ IsNextToPublish(r, i)
  /\ ~cancelled[r]
  /\ MaybeStored(i)
  /\ acked' = [acked EXCEPT ![r] = @ \cup {i}]
  /\ UNCHANGED <<table, pc, batch, session, poison, cancelled, faults>>

\* Publish of the next row returned nil: the broker acknowledged storing it.
Publish(r, i) ==
  /\ pc[r] = "publishing"
  /\ IsNextToPublish(r, i)
  /\ ~cancelled[r]
  /\ stored' = stored \cup {i}
  /\ acked' = [acked EXCEPT ![r] = @ \cup {i}]
  /\ UNCHANGED <<table, pc, batch, session, poison, cancelled, faults>>

\* Publish failed and retrying may help: the whole batch is abandoned.
PublishTransient(r, i, kind) ==
  /\ pc[r] = "publishing"
  /\ IsNextToPublish(r, i)
  /\ SpendFault
  /\ MaybeStored(i)
  /\ EndDrain(r, AfterError(kind))
  /\ UNCHANGED <<table, poison, cancelled>>

\* Mutant: the quarantine is attempted without rolling the claim back first.
PublishPermanent_HoldingClaim(r, i) ==
  /\ pc[r] = "publishing"
  /\ IsNextToPublish(r, i)
  /\ SpendFault
  /\ pc' = [pc EXCEPT ![r] = "quarantine"]
  /\ poison' = [poison EXCEPT ![r] = i]
  /\ UNCHANGED <<table, stored, batch, acked, session, cancelled>>

\* Publish failed for good (client-side: payload too large, bad subject):
\* roll back, then quarantine in a statement of its own.
PublishPermanent(r, i) ==
  /\ pc[r] = "publishing"
  /\ IsNextToPublish(r, i)
  /\ SpendFault
  /\ EndDrain(r, "quarantine")
  /\ poison' = [poison EXCEPT ![r] = i]
  /\ UNCHANGED <<table, stored, cancelled>>

\* Mutant: the quarantine's WHERE clause without AND published_at IS NULL.
Quarantine_EvenIfPublished(r) ==
  /\ pc[r] = "quarantine"
  /\ poison[r] \notin Locked
  /\ failed_at' = failed_at \cup ({poison[r]} \cap outbox)
  /\ quarantined' = quarantined \cup ({poison[r]} \cap outbox)
  /\ pc' = [pc EXCEPT ![r] = "idle"]
  /\ poison' = [poison EXCEPT ![r] = NoRow]
  /\ UNCHANGED <<outbox, published_at, pruned, stored, batch, acked, session, cancelled, faults>>

\* UPDATE outbox SET failed_at ... WHERE id = i AND published_at IS NULL, on a
\* context that outlives cancellation.  It waits for a relay holding the row.
Quarantine(r) ==
  LET hit == {poison[r]} \cap (outbox \ published_at) IN
  /\ pc[r] = "quarantine"
  /\ poison[r] \notin Locked
  /\ failed_at' = failed_at \cup hit
  /\ quarantined' = quarantined \cup hit
  /\ pc' = [pc EXCEPT ![r] = "idle"]
  /\ poison' = [poison EXCEPT ![r] = NoRow]
  /\ UNCHANGED <<outbox, published_at, pruned, stored, batch, acked, session, cancelled, faults>>

\* The quarantine statement failed, or waited out its five seconds for a lock.
QuarantineFail(r, kind) ==
  /\ pc[r] = "quarantine"
  /\ SpendFault
  /\ pc' = [pc EXCEPT ![r] = AfterError(kind)]
  /\ poison' = [poison EXCEPT ![r] = NoRow]
  /\ UNCHANGED <<table, stored, batch, acked, session, cancelled>>

\* markPublished and Commit succeeded on a transaction that is still open.
Commit(r) ==
  /\ pc[r] = "publishing"
  /\ acked[r] = batch[r]
  /\ session[r]
  /\ published_at' = published_at \cup batch[r]
  /\ EndDrain(r, "idle")
  /\ UNCHANGED <<outbox, failed_at, pruned, quarantined, stored, poison, cancelled, faults>>

\* Commit returned an error although the server had committed.
CommitUnanswered(r) ==
  /\ pc[r] = "publishing"
  /\ acked[r] = batch[r]
  /\ session[r]
  /\ SpendFault
  /\ published_at' = published_at \cup batch[r]
  /\ EndDrain(r, "idle")
  /\ UNCHANGED <<outbox, failed_at, pruned, quarantined, stored, poison, cancelled>>

\* The transaction is gone: markPublished or Commit fails, nothing is marked.
CommitFail(r) ==
  /\ pc[r] = "publishing"
  /\ acked[r] = batch[r]
  /\ ~session[r]
  /\ EndDrain(r, "idle")
  /\ UNCHANGED <<table, stored, poison, cancelled, faults>>

\* The database drops the drain's connection; the relay does not know yet and
\* goes on publishing a batch it no longer has locked.
LoseSession(r) ==
  /\ session[r]
  /\ SpendFault
  /\ session' = [session EXCEPT ![r] = FALSE]
  /\ UNCHANGED <<table, stored, pc, batch, acked, poison, cancelled>>

\* SIGTERM cancels the worker's context.
Cancel(r) ==
  /\ pc[r] # "down"
  /\ ~cancelled[r]
  /\ SpendFault
  /\ cancelled' = [cancelled EXCEPT ![r] = TRUE]
  /\ UNCHANGED <<table, stored, pc, batch, acked, session, poison>>

\* Cancellation ends the drain wherever it is; a publish in flight may land.
DrainCancelled(r) ==
  /\ pc[r] = "publishing"
  /\ cancelled[r]
  /\ \/ UNCHANGED stored
     \/ \E i \in batch[r] : IsNextToPublish(r, i) /\ stored' = stored \cup {i}
  /\ EndDrain(r, "returned")
  /\ UNCHANGED <<table, poison, cancelled, faults>>

\* Run's select takes <-ctx.Done().
RunReturn(r) ==
  /\ pc[r] = "idle"
  /\ cancelled[r]
  /\ pc' = [pc EXCEPT ![r] = "returned"]
  /\ UNCHANGED <<table, stored, batch, acked, session, poison, cancelled, faults>>

\* The process dies; its transaction rolls back and a publish in flight may land.
Crash(r) ==
  /\ pc[r] # "down"
  /\ SpendFault
  /\ \/ UNCHANGED stored
     \/ \E i \in batch[r] : IsNextToPublish(r, i) /\ stored' = stored \cup {i}
  /\ EndDrain(r, "down")
  /\ poison' = [poison EXCEPT ![r] = NoRow]
  /\ cancelled' = [cancelled EXCEPT ![r] = FALSE]
  /\ UNCHANGED table

\* The worker is started again after it died or after SIGTERM ended it.
Restart(r) ==
  /\ \/ pc[r] = "down"
     \/ pc[r] = "returned" /\ cancelled[r]
  /\ pc' = [pc EXCEPT ![r] = "idle"]
  /\ cancelled' = [cancelled EXCEPT ![r] = FALSE]
  /\ UNCHANGED <<table, stored, batch, acked, session, poison, faults>>

-----------------------------------------------------------------------------
(* Specification *)

\* Steps of a relay that happen without any fault.
RelayStep(r) ==
  \/ Claim(r)
  \/ \E i \in Rows : Publish(r, i)
  \/ Quarantine(r)
  \/ Commit(r)
  \/ CommitFail(r)
  \/ DrainCancelled(r)
  \/ RunReturn(r)
  \/ Restart(r)

Fault(r) ==
  \/ \E i \in Rows, kind \in TransientErrors : PublishTransient(r, i, kind)
  \/ \E i \in Rows : PublishPermanent(r, i)
  \/ \E kind \in TransientErrors : QuarantineFail(r, kind)
  \/ CommitUnanswered(r)
  \/ LoseSession(r)
  \/ Cancel(r)
  \/ Crash(r)

Next ==
  \/ \E i \in Rows : Insert(i) \/ Replay(i)
  \/ \E S \in SUBSET Rows : Prune(S)
  \/ \E r \in Relays : RelayStep(r) \/ Fault(r)

Spec == Init /\ [][Next]_vars

\* A running relay's goroutine keeps running, the broker answers once it has
\* stopped failing, and the deployment restarts a worker that exited.
Fairness == \A r \in Relays : WF_vars(RelayStep(r))

FairSpec == Spec /\ Fairness

-----------------------------------------------------------------------------
(* Properties *)

\* No lost events (outbox.go): a row is marked published, or deleted by the
\* pruner, only if the broker has stored it, whatever failed on the way.
MarkedOnlyIfStored == published_at \cup pruned \subseteq stored

\* The rows of an open drain stay claimable and in the table until it ends, so
\* markPublished always matches every claimed row and its mismatch error is dead.
HeldRowsStayMarkable ==
  \A r \in Relays : session[r] => batch[r] \subseteq outbox \ (published_at \cup failed_at)

\* SKIP LOCKED: two drains whose transactions are open never hold the same row.
OpenDrainsDisjoint ==
  \A r, s \in Relays : r # s /\ session[r] /\ session[s] => batch[r] \cap batch[s] = {}

\* What a drain claimed is its own until its transaction ends (claimSQL): nobody
\* else claims, marks, quarantines or deletes it.
DrainsOwnTheirRows == HeldRowsStayMarkable /\ OpenDrainsDisjoint

\* A quarantined row is never deleted: cmd/prune and RetentionConfig promise it,
\* while the pruner's DELETE does not look at failed_at at all.
QuarantinedRowsAreKept == [][failed_at \subseteq outbox']_vars

\* Per-aggregate order (outbox.go, single relay): an event reaches the broker only
\* after the earlier events of its aggregate, apart from quarantined ones.
PerAggregateOrder ==
  \A i \in outbox \cup pruned, j \in stored :
    i < j /\ Aggregate[i] = Aggregate[j]
      => i \in stored \cup quarantined

\* At-least-once (outbox.go): a committed row reaches the broker or is quarantined.
AtLeastOnce == \A i \in Rows : i \in outbox ~> i \in stored \cup failed_at

\* cmd/worker/main.go: "Both return nil only on cancellation".
RunReturnsOnlyOnCancel == \A r \in Relays : pc[r] = "returned" => cancelled[r]

\* The abstract promise, with a row's history read off the table and the broker.
Delivery == INSTANCE EventDelivery WITH
  recorded <- outbox \cup pruned,
  delivered <- stored,
  retired <- published_at \cup pruned

\* The relays implement the promise of EventDelivery.
ImplementsDelivery == Delivery!Spec
=============================================================================
