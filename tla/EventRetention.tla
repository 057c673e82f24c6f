--------------------------- MODULE EventRetention ---------------------------
(***************************************************************************)
(* Three clocks decide how often the projection applies one event:         *)
(* JetStream's duplicate window (NATS_DUPLICATE_WINDOW), the stream's      *)
(* retention (NATS_STREAM_MAX_AGE) and the age at which cmd/prune deletes  *)
(* the consumer's deduplication row (RETENTION_PROCESSED_EVENTS).          *)
(*                                                                         *)
(* The module follows one outbox row through its life: relay.go publishes  *)
(* it until a drain marks it, events/publisher.go configures the stream    *)
(* that keeps or discards each publish, orderproj.go applies a copy unless *)
(* its row is in processed_events, and prune.go deletes that row by age.   *)
(* How drains and handlers interleave inside one instant is the subject of *)
(* OutboxRelay and EventConsumer; here each is one step.                   *)
(***************************************************************************)
EXTENDS Integers

CONSTANTS
  DuplicateWindow,  \* how long JetStream remembers a Nats-Msg-Id
  StreamMaxAge,     \* how long the stream keeps a message
  ProcessedEvents,  \* how long a processed_events row is kept
  Horizon           \* bound: how long the row is followed

\* What config accepts: window and age positive, and a deduplication row that
\* outlives the stream ("must be GREATER than NATS_STREAM_MAX_AGE").
validateNATS == DuplicateWindow > 0 /\ StreamMaxAge > 0
ValidateRetention == ProcessedEvents > StreamMaxAge

\* JetStream itself refuses a window longer than the stream's age.
ASSUME WindowAssumption ==
  /\ DuplicateWindow \in Nat /\ StreamMaxAge \in Nat
  /\ validateNATS
  /\ DuplicateWindow <= StreamMaxAge
ASSUME RetentionAssumption == ProcessedEvents \in Nat /\ ValidateRetention
ASSUME HorizonAssumption == Horizon \in Nat

VARIABLES
  now,
  marked,       \* published_at is set: no relay claims the row again
  acknowledged, \* a drain has had the row acknowledged and not yet committed
  copies,       \* storage times of the row's messages still in the stream
  firstStored,  \* when the stream first stored it, NotYet before
  lastStored,   \* when the stream last stored it: its duplicate window
  processedAt,  \* processed_at of the deduplication row, NotYet if there is none
  counted       \* times order_counts was incremented for the event

retentionVars == <<now, marked, acknowledged, copies, firstStored, lastStored, processedAt, counted>>

NotYet == -1
Times == 0..Horizon

RetentionTypeOK ==
  /\ now \in Times
  /\ marked \in BOOLEAN
  /\ acknowledged \in BOOLEAN
  /\ copies \subseteq Times
  /\ firstStored \in Times \cup {NotYet}
  /\ lastStored \in Times \cup {NotYet}
  /\ processedAt \in Times \cup {NotYet}
  /\ counted \in Nat

RetentionInit ==
  /\ now = 0
  /\ marked = FALSE /\ acknowledged = FALSE
  /\ copies = {}
  /\ firstStored = NotYet /\ lastStored = NotYet /\ processedAt = NotYet
  /\ counted = 0

-----------------------------------------------------------------------------

\* Time passes, and the stream drops what has reached MaxAge.
TimePasses ==
  /\ now < Horizon
  /\ now' = now + 1
  /\ copies' = {s \in copies : now + 1 - s <= StreamMaxAge}
  /\ UNCHANGED <<marked, acknowledged, firstStored, lastStored, processedAt, counted>>

\* JetStream remembers the id of a message it stored this recently.
IsDuplicate == lastStored # NotYet /\ now - lastStored < DuplicateWindow

\* Mutant: publishing without Nats-Msg-Id, so that every publish is stored.
Publish_WithoutMsgId ==
  /\ ~marked /\ ~acknowledged
  /\ acknowledged' = TRUE
  /\ copies' = copies \cup {now}
  /\ firstStored' = IF firstStored = NotYet THEN now ELSE firstStored
  /\ lastStored' = now
  /\ UNCHANGED <<now, marked, processedAt, counted>>

\* A drain publishes the row; a publish inside the window stores nothing and is
\* acknowledged all the same.
Publish ==
  /\ ~marked /\ ~acknowledged
  /\ acknowledged' = TRUE
  /\ IF IsDuplicate
     THEN UNCHANGED <<copies, firstStored, lastStored>>
     ELSE /\ copies' = copies \cup {now}
          /\ firstStored' = IF firstStored = NotYet THEN now ELSE firstStored
          /\ lastStored' = now
  /\ UNCHANGED <<now, marked, processedAt, counted>>

\* The drain commits: the row is published for good.
Mark ==
  /\ acknowledged
  /\ acknowledged' = FALSE
  /\ marked' = TRUE
  /\ UNCHANGED <<now, copies, firstStored, lastStored, processedAt, counted>>

\* The drain rolls back, or its process died: a later drain publishes again.
MarkFail ==
  /\ acknowledged
  /\ acknowledged' = FALSE
  /\ UNCHANGED <<now, marked, copies, firstStored, lastStored, processedAt, counted>>

\* The consumer handles a copy: applied unless its deduplication row exists,
\* which keeps its age.  An acknowledgement that is lost leaves the copy to be
\* delivered again.
HandleCopy(s) ==
  /\ s \in copies
  /\ copies' \in {copies, copies \ {s}}
  /\ IF processedAt = NotYet
     THEN processedAt' = now /\ counted' = counted + 1
     ELSE UNCHANGED <<processedAt, counted>>
  /\ UNCHANGED <<now, marked, acknowledged, firstStored, lastStored>>

\* cmd/prune: DELETE FROM processed_events WHERE processed_at < now - retention.
Prune ==
  /\ processedAt # NotYet
  /\ processedAt < now - ProcessedEvents
  /\ processedAt' = NotYet
  /\ UNCHANGED <<now, marked, acknowledged, copies, firstStored, lastStored, counted>>

RetentionNext ==
  \/ TimePasses
  \/ Publish
  \/ Mark
  \/ MarkFail
  \/ \E s \in copies : HandleCopy(s)
  \/ Prune

RetentionSpec == RetentionInit /\ [][RetentionNext]_retentionVars

-----------------------------------------------------------------------------
(* Properties *)

\* The rule config.Validate enforces is enough as long as every republish of the
\* row falls inside the duplicate window: then the projection counts it once.
OnceWithinTheWindow ==
  lastStored - firstStored < DuplicateWindow => counted <= 1

\* The exact price of a late republish: an event is counted twice only if the
\* stream stored a copy so long after the first one that the copy outlived the
\* deduplication row.  Covering a relay outage of d takes a retention of
\* NATS_STREAM_MAX_AGE + d.
TwiceOnlyAfterALateCopy ==
  counted > 1 => lastStored - firstStored + StreamMaxAge > ProcessedEvents

\* Both bounds on double counting (config.Validate, prune.go, orderproj.go).
DoubleCountsAreLate == OnceWithinTheWindow /\ TwiceOnlyAfterALateCopy

\* migrations/00002_events.sql: processed_events only needs to outlive the
\* stream's retention, because a message the broker has dropped can never be
\* redelivered.
OutlivingTheStreamIsEnough == counted <= 1
=============================================================================
