--------------------------- MODULE WorkerProcess ---------------------------
(***************************************************************************)
(* The life of one worker process: the relay, the observer and the         *)
(* consumer as loops that share one small connection pool, and the order   *)
(* in which the process waits for them and closes what they use.  What the *)
(* loops do to rows and messages is in OutboxRelay and EventConsumer.      *)
(***************************************************************************)
EXTENDS Naturals, FiniteSets

CONSTANTS
  MaxConns          \* cfg.Outbox.MaxConns

ASSUME PoolAssumption == MaxConns \in Nat \ {0}

VARIABLES
  wkPhase,          \* where run() is
  wkSigterm,        \* ctx is cancelled
  loop,             \* what each loop does between database calls
  asking,           \* who waits for a connection
  holders,          \* who holds one
  query,            \* the observer's current query, of Observe's three
  resources,        \* what the deferred closers have yet to close
  errs,             \* the loops whose error is in the channel
  abandoned,        \* Drain outlasted AckWait: Run returned over a running handler
  exitCode

loopVars == <<loop, asking, holders, query, errs, abandoned>>
wkVars == <<wkPhase, wkSigterm, loopVars, resources, exitCode>>

Loops == {"relay", "observer", "consumer"}
Users == {"relay", "observer", "handler"}         \* the consumer's callback is a goroutine of its own

WorkerTypeOK ==
  /\ wkPhase \in {"start", "running", "stopping", "exited"}
  /\ wkSigterm \in BOOLEAN /\ abandoned \in BOOLEAN
  /\ loop \in [Loops -> {"absent", "opening", "resting", "draining", "quarantine", "observing",
                         "stopping", "ended"}]
  /\ asking \subseteq Users /\ holders \subseteq Users
  /\ Cardinality(holders) <= MaxConns
  /\ query \in 1..3
  /\ resources \subseteq {"db", "nats"} /\ errs \subseteq Loops
  /\ exitCode \in {"none", "ok", "error"}

WorkerInit ==
  /\ wkPhase = "start" /\ wkSigterm = FALSE
  /\ loop = [l \in Loops |-> "absent"]
  /\ asking = {} /\ holders = {} /\ query = 1
  /\ resources = {} /\ errs = {} /\ abandoned = FALSE /\ exitCode = "none"

-----------------------------------------------------------------------------
(* The process *)

\* run up to the first goroutine: configuration, database and broker, each of
\* which may fail; the consumer exists only with a broker.
WorkerStart ==
  /\ wkPhase = "start"
  /\ \/ /\ wkPhase' = "exited" /\ exitCode' = "error"
        /\ UNCHANGED <<loop, resources>>
     \/ \E broker \in BOOLEAN :
          /\ wkPhase' = "running"
          /\ resources' = IF broker THEN {"db", "nats"} ELSE {"db"}
          /\ loop' = [relay |-> "resting", observer |-> "resting",
                      consumer |-> IF broker THEN "opening" ELSE "ended"]
          /\ UNCHANGED exitCode
  /\ UNCHANGED <<wkSigterm, asking, holders, query, errs, abandoned>>

\* External: SIGTERM.
WorkerSignal ==
  /\ ~wkSigterm /\ wkPhase # "exited"
  /\ wkSigterm' = TRUE
  /\ UNCHANGED <<wkPhase, loopVars, resources, exitCode>>

\* Mutant: the observer is started without wg.Add.
Wait_ForTwo ==
  /\ wkPhase = "running"
  /\ \A l \in {"relay", "consumer"} : loop[l] = "ended"
  /\ wkPhase' = "stopping"
  /\ UNCHANGED <<wkSigterm, loopVars, resources, exitCode>>

\* wg.Wait returns.
Wait ==
  /\ wkPhase = "running"
  /\ \A l \in Loops : loop[l] = "ended"
  /\ wkPhase' = "stopping"
  /\ UNCHANGED <<wkSigterm, loopVars, resources, exitCode>>

\* The admin listener stops (or runs out of its five seconds), the first error
\* in the channel becomes run's, and the deferred closers run.
WorkerExit ==
  /\ wkPhase = "stopping"
  /\ wkPhase' = "exited"
  /\ exitCode' = IF errs = {} THEN "ok" ELSE "error"
  /\ resources' = {}
  /\ UNCHANGED <<wkSigterm, loopVars>>

-----------------------------------------------------------------------------
(* The pool: database/sql grants a free connection to any of the waiters. *)

Ask(u) == asking' = asking \union {u}
NotAsking(u) == asking' = asking \ {u}
GiveBack(u) == holders' = holders \ {u}
Step(l, s) == loop' = [loop EXCEPT ![l] = s]
wkOthers == <<wkPhase, wkSigterm, resources, exitCode>>

Acquire(u) ==
  /\ u \in asking /\ Cardinality(holders) < MaxConns /\ "db" \in resources
  /\ NotAsking(u) /\ holders' = holders \union {u}
  /\ UNCHANGED <<wkOthers, loop, query, errs, abandoned>>

-----------------------------------------------------------------------------
(* The relay *)

\* Run's select, and DrainOnce's BeginTx, which a cancelled ctx fails at once.
RelayWakes ==
  /\ loop["relay"] = "resting"
  /\ \/ wkSigterm /\ Step("relay", "ended") /\ UNCHANGED asking
     \/ ~wkSigterm /\ Step("relay", "draining") /\ Ask("relay")
  /\ UNCHANGED <<wkOthers, holders, query, errs, abandoned>>

\* The drain ends, its transaction with it: published and marked, failed, or
\* nothing to do; a permanent error asks for another connection afterwards; a
\* cancelled or expired context ends Run.
DrainEnds ==
  /\ loop["relay"] = "draining" /\ "relay" \in holders
  /\ GiveBack("relay")
  /\ \/ Step("relay", "resting") /\ UNCHANGED asking
     \/ Step("relay", "quarantine") /\ Ask("relay")
     \/ Step("relay", "ended") /\ UNCHANGED asking
  /\ UNCHANGED <<wkOthers, query, errs, abandoned>>

\* BeginTx gives up when ctx is cancelled, and only then.
BeginCancelled ==
  /\ loop["relay"] = "draining" /\ "relay" \in asking /\ wkSigterm
  /\ NotAsking("relay") /\ Step("relay", "ended")
  /\ UNCHANGED <<wkOthers, holders, query, errs, abandoned>>

\* quarantine ends, or its own five seconds do, whether it got a connection or
\* not; Run takes that deadline for the shutdown's, and returns.
QuarantineEnds ==
  /\ loop["relay"] = "quarantine"
  /\ NotAsking("relay") /\ GiveBack("relay")
  /\ Step("relay", "resting") \/ Step("relay", "ended")
  /\ UNCHANGED <<wkOthers, query, errs, abandoned>>

-----------------------------------------------------------------------------
(* The observer *)

\* Observer.Run: the first observation, a tick, or the end.
ObserverWakes ==
  /\ loop["observer"] = "resting"
  /\ \/ wkSigterm /\ Step("observer", "ended") /\ UNCHANGED <<asking, query>>
     \/ ~wkSigterm /\ Step("observer", "observing") /\ Ask("observer") /\ query' = 1
  /\ UNCHANGED <<wkOthers, holders, errs, abandoned>>

\* Observe: each QueryRow().Scan() takes a connection and returns it; the gauges
\* are set after the third.
QueryDone ==
  /\ loop["observer"] = "observing" /\ "observer" \in holders
  /\ GiveBack("observer")
  /\ IF query < 3 THEN query' = query + 1 /\ Ask("observer") /\ UNCHANGED loop
                  ELSE Step("observer", "resting") /\ UNCHANGED <<asking, query>>
  /\ UNCHANGED <<wkOthers, errs, abandoned>>

\* Mutant: observeOnce passes ctx on without a deadline.
ObserveFails_OnlyOnCancel ==
  /\ loop["observer"] = "observing" /\ wkSigterm
  /\ NotAsking("observer") /\ GiveBack("observer")
  /\ Step("observer", "resting")
  /\ UNCHANGED <<wkOthers, query, errs, abandoned>>

\* A query fails, or the observation's ten seconds are over: counted, not returned.
ObserveFails ==
  /\ loop["observer"] = "observing"
  /\ NotAsking("observer") /\ GiveBack("observer")
  /\ Step("observer", "resting")
  /\ UNCHANGED <<wkOthers, query, errs, abandoned>>

-----------------------------------------------------------------------------
(* The consumer *)

\* Consumer.Run up to Consume: the stream, the durable consumer and the
\* subscription; any failure is returned.
OpenConsumer ==
  /\ loop["consumer"] = "opening"
  /\ \/ Step("consumer", "resting") /\ UNCHANGED errs
     \/ Step("consumer", "ended") /\ errs' = errs \union {"consumer"}
  /\ UNCHANGED <<wkOthers, asking, holders, query, abandoned>>

\* dispatch, with a context of its own: the projection begins a transaction.
Dispatch ==
  /\ loop["consumer"] \in {"resting", "stopping"}
  /\ "handler" \notin asking \union holders
  /\ Ask("handler")
  /\ UNCHANGED <<wkOthers, loop, holders, query, errs, abandoned>>

\* The handler returns: committed, failed, or its AckWait is over.
HandlerReturns ==
  /\ "handler" \in asking \union holders
  /\ NotAsking("handler") /\ GiveBack("handler")
  /\ UNCHANGED <<wkOthers, loop, query, errs, abandoned>>

\* ctx is cancelled: Drain.  What is already buffered is still dispatched.
StopConsuming ==
  /\ loop["consumer"] = "resting" /\ wkSigterm
  /\ Step("consumer", "stopping")
  /\ UNCHANGED <<wkOthers, asking, holders, query, errs, abandoned>>

\* Run returns when the subscription has closed, or after AckWait regardless.
ConsumerEnds ==
  /\ loop["consumer"] = "stopping"
  /\ abandoned' = ("handler" \in asking \union holders)
  /\ Step("consumer", "ended")
  /\ UNCHANGED <<wkOthers, asking, holders, query, errs>>

-----------------------------------------------------------------------------
LoopStep(l) ==
  \/ l = "relay" /\ (RelayWakes \/ BeginCancelled \/ QuarantineEnds \/ (wkSigterm /\ DrainEnds))
  \/ l = "observer" /\ (ObserverWakes \/ QueryDone \/ ObserveFails)
  \/ l = "consumer" /\ (OpenConsumer \/ StopConsuming \/ ConsumerEnds)

WorkerNext ==
  /\ wkPhase # "exited"
  /\ \/ WorkerStart \/ WorkerSignal \/ Wait \/ WorkerExit
     \/ \E u \in Users : Acquire(u)
     \/ DrainEnds \/ Dispatch \/ HandlerReturns
     \/ \E l \in Loops : LoopStep(l)

\* Loops run and timers fire; a handler ends within AckWait; a waiter that is
\* offered a connection again and again is picked in the end.  A drain owes
\* nothing before SIGTERM: a broker that never acknowledges holds it.
WorkerSpec ==
  /\ WorkerInit /\ [][WorkerNext]_wkVars
  /\ WF_wkVars(WorkerStart \/ Wait \/ WorkerExit)
  /\ \A l \in Loops : WF_wkVars(wkPhase # "exited" /\ LoopStep(l))
  /\ WF_wkVars(wkPhase # "exited" /\ HandlerReturns)
  /\ SF_wkVars(wkPhase # "exited" /\ Acquire("relay"))

-----------------------------------------------------------------------------
(* Properties *)

\* The pool and the broker connection outlive everything that uses them, except
\* a handler that Consumer.Run gave up on after AckWait; and a loop that failed
\* while the others ran on is still heard of in the exit code (run).
ExitAfterTheLoops ==
  wkPhase = "exited" =>
    /\ asking \union holders \subseteq IF abandoned THEN {"handler"} ELSE {}
    /\ exitCode = "ok" => \A l \in Loops : l \notin errs /\ loop[l] = "ended"

\* No loop waits for a connection forever, not even when the broker has wedged a
\* drain that holds one: the observer's deadline, the quarantine's and the
\* handler's each bound their wait, and the relay waits only for those
\* (observeOnce, quarantine, dispatch, DrainOnce).
LoopsNeverWaitForever == \A u \in Users : []<>(u \notin asking \/ wkPhase = "exited")

\* After SIGTERM the worker ends, whatever the broker and the database do.
WorkerEnds == []<>(~wkSigterm \/ wkPhase = "exited")
=============================================================================
