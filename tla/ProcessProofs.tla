--------------------------- MODULE ProcessProofs ---------------------------
(***************************************************************************)
(* Machine-checked safety of the two processes: the worker, for every size *)
(* of its pool, and the server, for any number of concurrent calls.        *)
(***************************************************************************)
EXTENDS WorkerProcess, ServerLifecycle, FiniteSetTheorems, SequenceTheorems, TLAPS

-----------------------------------------------------------------------------
(* The worker *)

Busy(u) == u \in asking \/ u \in holders

\* Whoever asks for a connection or holds one is in the middle of a database
\* call, except a handler that Consumer.Run gave up on; and nobody asks for a
\* connection while holding one.
UsersAreBusy ==
  /\ asking \intersect holders = {}
  /\ Busy("relay") => loop["relay"] \in {"draining", "quarantine"}
  /\ Busy("observer") => loop["observer"] = "observing"
  /\ Busy("handler") =>
       \/ loop["consumer"] \in {"resting", "stopping"}
       \/ loop["consumer"] = "ended" /\ abandoned

\* Where run() is tells what the loops have done.
PhasesMatchLoops ==
  /\ wkPhase = "start" => \A l \in Loops : loop[l] = "absent"
  /\ wkPhase = "stopping" => \A l \in Loops : loop[l] = "ended"
  /\ wkPhase = "exited" => /\ \A l \in Loops : loop[l] \in {"absent", "ended"}
                           /\ exitCode # "error" => errs = {} /\ \A l \in Loops : loop[l] = "ended"

\* The inductive strengthening of ExitAfterTheLoops.
WInv == WorkerTypeOK /\ UsersAreBusy /\ PhasesMatchLoops

\* The parts of the type invariant: who uses the pool, the flags, and the rest.
PoolTypeOK == asking \subseteq Users /\ holders \subseteq Users /\ Cardinality(holders) <= MaxConns
FlagsTypeOK == wkSigterm \in BOOLEAN /\ abandoned \in BOOLEAN
RestTypeOK ==
  /\ wkPhase \in {"start", "running", "stopping", "exited"}
  /\ loop \in [Loops -> {"absent", "opening", "resting", "draining", "quarantine", "observing",
                         "stopping", "ended"}]
  /\ query \in 1..3
  /\ resources \subseteq {"db", "nats"} /\ errs \subseteq Loops
  /\ exitCode \in {"none", "ok", "error"}

\* Together they are the type invariant.
LEMMA TypeParts == WorkerTypeOK <=> PoolTypeOK /\ FlagsTypeOK /\ RestTypeOK
  BY Zenon DEF WorkerTypeOK, PoolTypeOK, FlagsTypeOK, RestTypeOK

\* A fresh worker satisfies the invariant.
LEMMA InitWInv == WorkerInit => WInv
  <1> SUFFICES ASSUME WorkerInit PROVE WInv
    OBVIOUS
  <1>1. Cardinality(holders) <= MaxConns
    BY FS_EmptySet, PoolAssumption DEF WorkerInit
  <1>2. WorkerTypeOK
    <2>1. RestTypeOK
      BY DEF WorkerInit, RestTypeOK
    <2>2. PoolTypeOK
      BY <1>1, Zenon DEF WorkerInit, PoolTypeOK
    <2>3. FlagsTypeOK
      BY DEF WorkerInit, FlagsTypeOK
    <2>4. QED BY <2>1, <2>2, <2>3, TypeParts
  <1>3. UsersAreBusy /\ PhasesMatchLoops
    BY DEF WorkerInit, UsersAreBusy, Busy, PhasesMatchLoops, Loops
  <1>4. QED BY <1>2, <1>3 DEF WInv

\* Cardinality of a set of connections, when one is taken and when one is returned.
LEMMA PoolCounts ==
  ASSUME NEW H, H \subseteq Users, Cardinality(H) <= MaxConns, NEW u
  PROVE  /\ Cardinality(H \ {u}) <= MaxConns
         /\ Cardinality(H) < MaxConns => Cardinality(H \union {u}) <= MaxConns
  <1>1. IsFiniteSet(Users)
    <2>1. Users = ({"relay"} \union {"observer"}) \union {"handler"}
      BY DEF Users
    <2>2. IsFiniteSet({"relay"} \union {"observer"})
      BY FS_Singleton, FS_AddElement
    <2>3. QED BY <2>1, <2>2, FS_AddElement
  <1>2. IsFiniteSet(H) /\ Cardinality(H) \in Nat
    BY <1>1, FS_Subset, FS_CardinalityType
  <1>3. Cardinality(H \ {u}) <= Cardinality(H) /\ Cardinality(H \ {u}) \in Int
    BY <1>2, FS_RemoveElement
  <1>4. Cardinality(H \union {u}) <= Cardinality(H) + 1 /\ Cardinality(H \union {u}) \in Int
    BY <1>2, FS_AddElement
  <1>5. QED BY <1>2, <1>3, <1>4, PoolAssumption

\* run: start, signal, wait and exit.
LEMMA RunKeepsWInv ==
  ASSUME WInv, WorkerStart \/ WorkerSignal \/ Wait \/ WorkerExit
  PROVE  WInv'
  <1> USE DEF WInv, WorkerStart, WorkerSignal, Wait, WorkerExit, loopVars
  <1>1. WorkerTypeOK'
    <2>1. PoolTypeOK'
      BY TypeParts, Zenon DEF PoolTypeOK
    <2>2. RestTypeOK'
      BY TypeParts DEF RestTypeOK, Loops
    <2>3. FlagsTypeOK'
      BY TypeParts, Zenon DEF FlagsTypeOK
    <2>4. QED BY <2>1, <2>2, <2>3, TypeParts, PTL
  <1>2. UsersAreBusy'
    BY DEF UsersAreBusy, Busy, WorkerTypeOK, Loops, PhasesMatchLoops
  <1>3. PhasesMatchLoops'
    BY DEF PhasesMatchLoops, WorkerTypeOK, Loops
  <1>4. QED BY <1>1, <1>2, <1>3

\* The pool grants a connection to one that asked.
LEMMA AcquireKeepsWInv ==
  ASSUME WInv, wkPhase # "exited", NEW u \in Users, Acquire(u)
  PROVE  WInv'
  <1> USE DEF WInv, Acquire, NotAsking, wkOthers
  <1>1. WorkerTypeOK'
    BY PoolCounts DEF WorkerTypeOK, Users
  <1>2. UsersAreBusy' /\ PhasesMatchLoops'
    BY DEF UsersAreBusy, Busy, PhasesMatchLoops, WorkerTypeOK, Users
  <1>3. QED BY <1>1, <1>2

\* Steps of the relay.
LEMMA RelayKeepsWInv ==
  ASSUME WInv, wkPhase \notin {"exited"}, RelayWakes \/ DrainEnds \/ BeginCancelled \/ QuarantineEnds
  PROVE  WInv'
  <1> USE DEF WInv, RelayWakes, DrainEnds, BeginCancelled, QuarantineEnds, Step, Ask, NotAsking, GiveBack,
              wkOthers
  <1>1. wkPhase = "running"
    BY DEF PhasesMatchLoops, WorkerTypeOK, Loops
  <1>2. WorkerTypeOK'
    <2>1. holders' = holders \/ holders' = holders \ {"relay"}
      OBVIOUS
    <2>2. PoolTypeOK'
      BY <2>1, PoolCounts, TypeParts DEF PoolTypeOK, Users
    <2>3. RestTypeOK'
      BY TypeParts DEF RestTypeOK, Loops
    <2>4. FlagsTypeOK'
      BY TypeParts, Zenon DEF FlagsTypeOK
    <2>5. QED BY <2>2, <2>3, <2>4, TypeParts, PTL
  <1>3. PhasesMatchLoops'
    BY <1>1 DEF PhasesMatchLoops, WorkerTypeOK
  <1>4. UsersAreBusy'
    BY DEF UsersAreBusy, Busy, WorkerTypeOK, Loops
  <1>5. QED BY <1>2, <1>3, <1>4

\* Steps of the observer.
LEMMA ObserverKeepsWInv ==
  ASSUME WInv, wkPhase # "exited", ObserverWakes \/ QueryDone \/ ObserveFails
  PROVE  WInv'
  <1> USE DEF WInv, ObserverWakes, QueryDone, ObserveFails, Step, Ask, NotAsking, GiveBack, wkOthers
  <1>1. wkPhase = "running"
    BY DEF PhasesMatchLoops, WorkerTypeOK, Loops
  <1>2. WorkerTypeOK'
    <2>1. holders' = holders \/ holders' = holders \ {"observer"}
      OBVIOUS
    <2>2. PoolTypeOK'
      BY <2>1, PoolCounts, TypeParts DEF PoolTypeOK, Users
    <2>3. RestTypeOK'
      BY TypeParts DEF RestTypeOK, Loops
    <2>4. FlagsTypeOK'
      BY TypeParts, Zenon DEF FlagsTypeOK
    <2>5. QED BY <2>2, <2>3, <2>4, TypeParts, PTL
  <1>3. PhasesMatchLoops'
    BY <1>1 DEF PhasesMatchLoops, WorkerTypeOK
  <1>4. UsersAreBusy'
    BY DEF UsersAreBusy, Busy, WorkerTypeOK, Loops
  <1>5. QED BY <1>2, <1>3, <1>4

\* Steps of the consumer and of its handler.
LEMMA ConsumerKeepsWInv ==
  ASSUME WInv, wkPhase # "exited",
         OpenConsumer \/ Dispatch \/ HandlerReturns \/ StopConsuming \/ ConsumerEnds
  PROVE  WInv'
  <1> USE DEF WInv, OpenConsumer, Dispatch, HandlerReturns, StopConsuming, ConsumerEnds, Step, Ask, NotAsking,
              GiveBack, wkOthers
  <1>1. WorkerTypeOK'
    <2>1. holders' = holders \/ holders' = holders \ {"handler"}
      OBVIOUS
    <2>2. PoolTypeOK'
      BY <2>1, PoolCounts, TypeParts DEF PoolTypeOK, Users
    <2>3. RestTypeOK'
      BY TypeParts DEF RestTypeOK, Loops
    <2>4. FlagsTypeOK'
      <3>1. CASE ConsumerEnds
        BY <3>1, TypeParts DEF FlagsTypeOK
      <3>2. CASE ~ConsumerEnds
        BY <3>2, TypeParts, Zenon DEF FlagsTypeOK
      <3>3. QED BY <3>1, <3>2
    <2>5. QED BY <2>2, <2>3, <2>4, TypeParts, PTL
  <1>2. UsersAreBusy'
    BY DEF UsersAreBusy, Busy, WorkerTypeOK, Loops, Users
  <1>3. PhasesMatchLoops'
    BY DEF PhasesMatchLoops, WorkerTypeOK, Loops, Users
  <1>4. QED BY <1>1, <1>2, <1>3

\* Every step preserves the invariant.
LEMMA NextWInv == WInv /\ [WorkerNext]_wkVars => WInv'
  <1> SUFFICES ASSUME WInv, [WorkerNext]_wkVars PROVE WInv'
    OBVIOUS
  <1>1. CASE WorkerNext
    BY <1>1, RunKeepsWInv, AcquireKeepsWInv, RelayKeepsWInv, ObserverKeepsWInv, ConsumerKeepsWInv
       DEF WorkerNext, LoopStep
  <1>2. CASE UNCHANGED wkVars
    BY <1>2 DEF wkVars, loopVars, WInv, WorkerTypeOK, UsersAreBusy, Busy, PhasesMatchLoops
  <1>3. QED BY <1>1, <1>2

\* The invariant holds throughout.
LEMMA SpecWInv == WorkerSpec => []WInv
  BY InitWInv, NextWInv, PTL DEF WorkerSpec

\* Every reachable state of the worker is well typed; the pool never lends more
\* connections than it has.
THEOREM WorkerTypeCorrect == WorkerSpec => []WorkerTypeOK
  BY SpecWInv, PTL DEF WInv

\* A worker that has exited has no busy user but an abandoned handler.
LEMMA WInvExits == WInv => ExitAfterTheLoops
  BY DEF WInv, ExitAfterTheLoops, WorkerTypeOK, UsersAreBusy, Busy, PhasesMatchLoops, Loops, Users

\* run's deferred closers wait for every loop: nothing that uses the pool or the
\* broker outlives them but an abandoned handler, and a failed loop is reported.
THEOREM WorkerExitsInOrder == WorkerSpec => []ExitAfterTheLoops
  BY WInvExits, SpecWInv, PTL

-----------------------------------------------------------------------------
(* The server *)

Outer == {"gateway-server", "grpc-server"}

\* How far a shutdown is: before the gateway's step, before the gRPC server's, or
\* past both.
GatewayNext(t) ==
  /\ Len(t) >= 2 /\ t[1] = "gateway-server" /\ t[2] = "grpc-server"
  /\ \A i \in 3..Len(t) : t[i] \notin Outer
GrpcNext(t) ==
  /\ Len(t) >= 1 /\ t[1] = "grpc-server"
  /\ \A i \in 2..Len(t) : t[i] \notin Outer
OuterDone(t) == \A i \in 1..Len(t) : t[i] \notin Outer

\* What the constructor at work may have opened and not registered.
Unregistered == IF plan = <<>> THEN {} ELSE Range(Registers(Head(plan)))

\* New registers closers only; until Shutdown runs, what they close is open, and
\* only the constructor at work has opened more.  From then on every open
\* resource has a closer still to run, or was left by a constructor that failed.
ResourcesHaveClosers ==
  /\ \A k \in Range(steps) : ~IsServer(k)
  /\ srvPhase = "load" => steps = <<>> /\ plan = <<>> /\ open = {}
  /\ srvPhase = "new" => Range(steps) \subseteq open /\ open \subseteq Range(steps) \union Unregistered
  /\ srvPhase \in {"running", "draining"} => open = Range(steps)
  /\ srvPhase \in {"running", "draining", "closing"} => plan = <<>>
  /\ srvPhase = "unwinding" => plan # <<>> /\ open \subseteq Range(todo) \union LeftBy(Head(plan))
  /\ srvPhase = "closing" => open \subseteq Range(todo) \intersect Range(steps)
  /\ ExitReleasesWhatWasBuilt

\* A configured gateway has its in-process connection once New has returned.
GatewayIsBuilt ==
  "gateway" \in options /\ srvPhase \in {"new", "running", "draining", "closing"} =>
    \/ "gateway-conn" \in Range(steps)
    \/ srvPhase = "new" /\ "gateway" \in Range(plan)

\* Nothing is released before the gRPC server has stopped.
ServersStopFirst ==
  /\ srvPhase = "closing" =>
       \/ (GatewayNext(todo) \/ GrpcNext(todo)) /\ open = Range(steps)
       \/ OuterDone(todo)
  /\ stopping => srvPhase = "closing" /\ todo # <<>> /\ IsServer(Head(todo))

\* Listeners close in the shutdown, after the pod has left the endpoints.
PortsFollowSteps ==
  /\ srvPhase \in {"running", "draining"} => ports["grpc"] = "open"
  /\ srvPhase = "closing" /\ GatewayNext(todo) => ports["grpc"] = "open"
  /\ srvPhase = "closing" /\ GrpcNext(todo) /\ stopping => ports["grpc"] = "closed"
  /\ srvPhase = "closing" /\ OuterDone(todo) => ports["grpc"] = "closed"
  /\ \A p \in Ports : ports[p] = "closed" => srvPhase \in {"closing", "exited"}
  /\ routed => srvPhase \in {"running", "draining", "aborted"}

\* Who may still be waiting for an answer.
CallsFollowSteps ==
  \A c \in Calls :
    /\ call[c] \in InFlight => srvPhase \in {"running", "draining", "closing"}
    /\ call[c] = "atGateway" => "gateway" \in options
    /\ call[c] = "atGateway" /\ srvPhase = "closing" /\ ~GatewayNext(todo) => forced
    /\ srvPhase = "closing" /\ OuterDone(todo) => call[c] \notin {"viaGateway", "direct"}

\* The inductive strengthening of ShutdownLosesNoCall and ExitReleasesWhatWasBuilt.
SInv ==
  /\ ServerTypeOK
  /\ ResourcesHaveClosers /\ GatewayIsBuilt /\ ServersStopFirst
  /\ PortsFollowSteps /\ CallsFollowSteps
  /\ ShutdownLosesNoCall

\* Head, tail and elements of a sequence.
LEMMA RangeTail ==
  ASSUME NEW S, NEW t \in Seq(S), t # <<>>
  PROVE  /\ Head(t) = t[1] /\ Len(t) >= 1
         /\ Tail(t) \in Seq(S) /\ Len(Tail(t)) = Len(t) - 1
         /\ \A i \in 1..Len(Tail(t)) : Tail(t)[i] = t[i + 1]
         /\ Range(t) = {Head(t)} \union Range(Tail(t))
  <1>1. /\ Head(t) = t[1] /\ Len(t) >= 1 /\ Len(t) \in Nat
        /\ Tail(t) \in Seq(S) /\ Len(Tail(t)) = Len(t) - 1
        /\ \A i \in 1..Len(Tail(t)) : Tail(t)[i] = t[i + 1]
    OBVIOUS
  <1>2. DOMAIN t = 1..Len(t) /\ DOMAIN Tail(t) = 1..(Len(t) - 1)
    BY <1>1
  <1>3. ASSUME NEW x \in Range(t) PROVE x \in {Head(t)} \union Range(Tail(t))
    <2>1. PICK i \in 1..Len(t) : x = t[i]
      BY <1>2, <1>3 DEF Range
    <2>2. CASE i = 1
      BY <1>1, <2>1, <2>2
    <2>3. CASE i # 1
      <3>1. i - 1 \in 1..(Len(t) - 1) /\ Tail(t)[i - 1] = t[i]
        BY <1>1, <2>1, <2>3
      <3>2. QED BY <1>2, <2>1, <3>1 DEF Range
    <2>4. QED BY <2>2, <2>3
  <1>4. ASSUME NEW x \in {Head(t)} \union Range(Tail(t)) PROVE x \in Range(t)
    <2>1. CASE x = Head(t)
      <3>1. 1 \in DOMAIN t
        BY <1>1, <1>2
      <3>2. QED BY <1>1, <2>1, <3>1 DEF Range
    <2>2. CASE x \in Range(Tail(t))
      <3>1. PICK i \in 1..(Len(t) - 1) : x = Tail(t)[i]
        BY <1>2, <2>2 DEF Range
      <3>2. i + 1 \in DOMAIN t /\ x = t[i + 1]
        BY <1>1, <1>2, <3>1
      <3>3. QED BY <3>2 DEF Range
    <2>3. QED BY <1>4, <2>1, <2>2
  <1>5. QED BY <1>1, <1>3, <1>4

\* The elements of a concatenation.
LEMMA RangeConcat ==
  ASSUME NEW S, NEW s \in Seq(S), NEW t \in Seq(S)
  PROVE  Range(s \o t) = Range(s) \union Range(t)
  <1>1. /\ s \o t \in Seq(S) /\ Len(s \o t) = Len(s) + Len(t) /\ Len(s) \in Nat /\ Len(t) \in Nat
        /\ \A i \in 1..Len(s) : (s \o t)[i] = s[i]
        /\ \A i \in 1..Len(t) : (s \o t)[i + Len(s)] = t[i]
    BY ConcatProperties
  <1>2. DOMAIN s = 1..Len(s) /\ DOMAIN t = 1..Len(t) /\ DOMAIN (s \o t) = 1..(Len(s) + Len(t))
    BY <1>1, LenProperties
  <1>3. ASSUME NEW x \in Range(s \o t) PROVE x \in Range(s) \union Range(t)
    <2>1. PICK i \in 1..(Len(s) + Len(t)) : x = (s \o t)[i]
      BY <1>2, <1>3 DEF Range
    <2>2. CASE i <= Len(s)
      <3>1. i \in DOMAIN s /\ x = s[i]
        BY <1>1, <1>2, <2>1, <2>2
      <3>2. QED BY <3>1 DEF Range
    <2>3. CASE i > Len(s)
      <3>1. i - Len(s) \in DOMAIN t /\ x = t[i - Len(s)]
        BY <1>1, <1>2, <2>1, <2>3
      <3>2. QED BY <3>1 DEF Range
    <2>4. QED BY <1>1, <2>2, <2>3
  <1>4. ASSUME NEW x \in Range(s) \union Range(t) PROVE x \in Range(s \o t)
    <2>1. CASE x \in Range(s)
      <3>1. PICK i \in 1..Len(s) : x = s[i]
        BY <1>2, <2>1 DEF Range
      <3>2. i \in DOMAIN (s \o t) /\ x = (s \o t)[i]
        BY <1>1, <1>2, <3>1
      <3>3. QED BY <3>2 DEF Range
    <2>2. CASE x \in Range(t)
      <3>1. PICK i \in 1..Len(t) : x = t[i]
        BY <1>2, <2>2 DEF Range
      <3>2. i + Len(s) \in DOMAIN (s \o t) /\ x = (s \o t)[i + Len(s)]
        BY <1>1, <1>2, <3>1
      <3>3. QED BY <3>2 DEF Range
    <2>3. QED BY <1>4, <2>1, <2>2
  <1>5. QED BY <1>3, <1>4

\* Reversing a sequence keeps its elements.
LEMMA RangeReverse ==
  ASSUME NEW S, NEW s \in Seq(S)
  PROVE  Reverse(s) \in Seq(S) /\ Len(Reverse(s)) = Len(s) /\ Range(Reverse(s)) = Range(s)
  <1>1. Len(s) \in Nat /\ DOMAIN s = 1..Len(s) /\ \A i \in 1..Len(s) : s[i] \in S
    OBVIOUS
  <1>2. Reverse(s) \in [1..Len(s) -> S]
    BY <1>1 DEF Reverse
  <1>3. Reverse(s) \in Seq(S) /\ Len(Reverse(s)) = Len(s)
    BY <1>1, <1>2
  <1>4. DOMAIN Reverse(s) = 1..Len(s) /\ \A i \in 1..Len(s) : Reverse(s)[i] = s[(Len(s) - i) + 1]
    BY DEF Reverse
  <1>5. ASSUME NEW i \in 1..Len(s) 
        PROVE  /\ (Len(s) - i) + 1 \in 1..Len(s) 
               /\ Reverse(s)[(Len(s) - i) + 1] = s[i]
    <2>1. (Len(s) - i) + 1 \in 1..Len(s) /\ (Len(s) - ((Len(s) - i) + 1)) + 1 = i
      BY <1>1
    <2>2. QED BY <1>4, <2>1
  <1>6. QED BY <1>1, <1>3, <1>4, <1>5 DEF Range

\* How the three situations follow each other.
LEMMA StepsAdvance ==
  ASSUME NEW t \in Seq(StepNames), t # <<>>
  PROVE  /\ GatewayNext(t) => GrpcNext(Tail(t)) /\ Head(t) = "gateway-server"
         /\ GrpcNext(t) => OuterDone(Tail(t)) /\ Head(t) = "grpc-server"
         /\ OuterDone(t) => OuterDone(Tail(t)) /\ Head(t) \notin Outer
  BY RangeTail DEF GatewayNext, GrpcNext, OuterDone, Outer

\* They exclude each other, and the first two need a step.
LEMMA SituationsDiffer ==
  \A t \in Seq(StepNames) :
    /\ GatewayNext(t) => ~GrpcNext(t) /\ ~OuterDone(t) /\ t # <<>>
    /\ GrpcNext(t) => ~OuterDone(t) /\ t # <<>>
  BY DEF GatewayNext, GrpcNext, OuterDone, Outer

\* shutdownSteps: the gateway, if there is one, the gRPC server, the admin server,
\* and then every closer.
LEMMA ShutdownOrder ==
  ASSUME steps \in Seq(StepNames), \A k \in Range(steps) : ~IsServer(k)
  PROVE  /\ shutdownSteps \in Seq(StepNames)
         /\ Range(steps) \subseteq Range(shutdownSteps)
         /\ "gateway" \in options => GatewayNext(shutdownSteps)
         /\ "gateway" \notin options => GrpcNext(shutdownSteps)
  <1> DEFINE First == IF "gateway" \in options THEN <<"gateway-server">> ELSE <<>>
             Servers == First \o <<"grpc-server", "admin-server">>
             R == Reverse(steps)
  <1>1. shutdownSteps = Servers \o R
    BY DEF shutdownSteps
  <1>2. R \in Seq(StepNames) /\ Range(R) = Range(steps) /\ Len(R) \in Nat
    BY RangeReverse
  <1>3. <<"gateway-server">> \in Seq(StepNames) /\ <<"grpc-server", "admin-server">> \in Seq(StepNames)
    BY DEF StepNames
  <1>4. /\ Servers \in Seq(StepNames)
        /\ "gateway" \in options => /\ Len(Servers) = 3 /\ Servers[1] = "gateway-server"
                                   /\ Servers[2] = "grpc-server" /\ Servers[3] = "admin-server"
        /\ "gateway" \notin options => Servers = <<"grpc-server", "admin-server">>
    <2>1. CASE "gateway" \in options
      <3>1. Servers = <<"gateway-server">> \o <<"grpc-server", "admin-server">>
        BY <2>1
      <3>2. QED BY <1>3, <2>1, <3>1, ConcatProperties
    <2>2. CASE "gateway" \notin options
      BY <1>3, <2>2, ConcatEmptySeq
    <2>3. QED BY <2>1, <2>2
  <1>5. \A i \in 1..Len(R) : R[i] \notin Outer
    <2> HIDE DEF R
    <2>1. \A i \in 1..Len(R) : R[i] \in Range(R)
      BY <1>2 DEF Range
    <2>2. \A k \in Range(steps) : k \notin Outer
      BY DEF Outer, IsServer
    <2>3. QED BY <1>2, <2>1, <2>2
  <1> HIDE DEF Servers, R
  <1>6. /\ Servers \o R \in Seq(StepNames)
        /\ Len(Servers \o R) = Len(Servers) + Len(R)
        /\ \A i \in 1..Len(Servers) : (Servers \o R)[i] = Servers[i]
        /\ \A i \in 1..(Len(Servers) + Len(R)) : i > Len(Servers) => (Servers \o R)[i] = R[i - Len(Servers)]
    BY <1>2, <1>4, ConcatProperties
  <1>7. Range(steps) \subseteq Range(Servers \o R)
    BY <1>2, <1>4, RangeConcat
  <1>8. CASE "gateway" \in options
    <2>1. /\ Len(Servers) = 3 /\ Servers[1] = "gateway-server" /\ Servers[2] = "grpc-server"
          /\ Servers[3] = "admin-server"
      BY <1>4, <1>8
    <2>2. \A i \in 3..(3 + Len(R)) : (Servers \o R)[i] \notin Outer
      <3> SUFFICES ASSUME NEW i \in 3..(3 + Len(R)) PROVE (Servers \o R)[i] \notin Outer
        OBVIOUS
      <3>1. CASE i = 3
        BY <1>6, <2>1, <3>1 DEF Outer
      <3>2. CASE i > 3
        BY <1>2, <1>5, <1>6, <2>1, <3>2
      <3>3. i = 3 \/ i > 3
        BY <1>2
      <3>4. QED BY <3>1, <3>2, <3>3
    <2>3. GatewayNext(Servers \o R)
      BY <1>2, <1>6, <2>1, <2>2 DEF GatewayNext
    <2>4. QED BY <1>1, <1>6, <1>7, <1>8, <2>3
  <1>9. CASE "gateway" \notin options
    <2>1. Len(Servers) = 2 /\ Servers[1] = "grpc-server" /\ Servers[2] = "admin-server"
      BY <1>4, <1>9
    <2>2. \A i \in 2..(2 + Len(R)) : (Servers \o R)[i] \notin Outer
      <3> SUFFICES ASSUME NEW i \in 2..(2 + Len(R)) PROVE (Servers \o R)[i] \notin Outer
        OBVIOUS
      <3>1. CASE i = 2
        BY <1>6, <2>1, <3>1 DEF Outer
      <3>2. CASE i > 2
        BY <1>2, <1>5, <1>6, <2>1, <3>2
      <3>3. i = 2 \/ i > 2
        BY <1>2
      <3>4. QED BY <3>1, <3>2, <3>3
    <2>3. GrpcNext(Servers \o R)
      BY <1>2, <1>6, <2>1, <2>2 DEF GrpcNext
    <2>4. QED BY <1>1, <1>6, <1>7, <1>9, <2>3
  <1>10. QED BY <1>8, <1>9

\* The parts of the type invariant: the flags, and the rest.
ServerFlagsOK == \A b \in {stopping, serving, routed, sigterm, errCh, forced} : b \in BOOLEAN
ServerRestOK ==
  /\ srvPhase \in {"load", "new", "unwinding", "running", "draining", "closing", "exited", "aborted"}
  /\ options \subseteq Optional
  /\ steps \in Seq(StepNames) /\ todo \in Seq(StepNames) /\ plan \in Seq(PlanItems)
  /\ open \subseteq StepNames
  /\ ports \in [Ports -> {"unbound", "failed", "open", "closed"}]
  /\ call \in [Calls -> InFlight \union Settled \union {"idle", "orphan"}]

\* Together they are the type invariant.
LEMMA ServerTypeParts == ServerTypeOK <=> ServerFlagsOK /\ ServerRestOK
  BY Zenon DEF ServerTypeOK, ServerFlagsOK, ServerRestOK

\* After a step as well.
LEMMA ServerTypePartsNext == ServerTypeOK' <=> ServerFlagsOK' /\ ServerRestOK'
  BY ServerTypeParts, PTL

\* A process that has not started satisfies the invariant.
LEMMA InitSInv == ServerInit => SInv
  <1> SUFFICES ASSUME ServerInit PROVE SInv
    OBVIOUS
  <1>1. ServerFlagsOK
    BY Zenon DEF ServerInit, ServerFlagsOK
  <1>2. ServerRestOK
    BY DEF ServerInit, ServerRestOK, NoOptions
  <1>3. Range(steps) = {}
    BY DEF ServerInit, Range
  <1>4. ResourcesHaveClosers /\ GatewayIsBuilt /\ ServersStopFirst /\ PortsFollowSteps
    BY <1>3 DEF ServerInit, ResourcesHaveClosers, GatewayIsBuilt, ServersStopFirst, PortsFollowSteps,
                NoOptions, ExitReleasesWhatWasBuilt
  <1>5. CallsFollowSteps /\ ShutdownLosesNoCall
    BY DEF ServerInit, CallsFollowSteps, ShutdownLosesNoCall, InFlight
  <1>6. QED BY <1>1, <1>2, <1>4, <1>5, ServerTypeParts DEF SInv

\* What a constructor opens and registers: resources, and no server.
LEMMA RegistersResources ==
  ASSUME NEW item
  PROVE  /\ Registers(item) \in Seq(StepNames) /\ Range(Registers(item)) \subseteq StepNames
         /\ \A k \in Range(Registers(item)) : ~IsServer(k)
  <1> DEFINE new == Registers(item)
  <1>1. new \in {<<"flush-traces">>, <<"postgres-pool">>, <<"redis-client">>,
                 <<"gateway-conn", "gateway-listener">>, <<>>}
    BY DEF Registers
  <1>2. new \in Seq(StepNames)
    <2>1. /\ <<"flush-traces">> \in Seq(StepNames) /\ <<"postgres-pool">> \in Seq(StepNames)
          /\ <<"redis-client">> \in Seq(StepNames) /\ <<>> \in Seq(StepNames)
          /\ <<"gateway-conn", "gateway-listener">> \in Seq(StepNames)
      BY DEF StepNames
    <2>2. QED BY <1>1, <2>1
  <1>3. \A i \in DOMAIN new : ~IsServer(new[i])
    BY <1>1 DEF IsServer
  <1>4. QED BY <1>2, <1>3 DEF Range

\* run and New: configuration, construction and its failure.
LEMMA StartKeepsSInv ==
  ASSUME SInv, Load \/ OpenNext \/ Construct \/ ConstructFails
  PROVE  SInv'
  <1> USE DEF SInv, builtVars, queueVars, reachVars, eventVars
  <1>1. CASE Load
    <2> DEFINE P == <<"verifier", "tracing", "validator", "store", "limiter", "server", "gateway">>
    <2>1. ServerFlagsOK'
      BY <1>1, ServerTypeParts, Zenon DEF Load, ServerFlagsOK
    <2>2. P \in Seq(PlanItems) /\ "gateway" \in Range(P)
      <3>1. P \in Seq(PlanItems)
        BY DEF PlanItems
      <3>2. 7 \in DOMAIN P /\ P[7] = "gateway"
        OBVIOUS
      <3>3. QED BY <3>1, <3>2 DEF Range
    <2> HIDE DEF P
    <2>3. ServerRestOK'
      BY <1>1, <2>2, ServerTypeParts DEF Load, ServerRestOK, P
    <2>4. Range(steps) = {} /\ Range(steps') = {} /\ steps' = steps
      BY <1>1 DEF Load, ResourcesHaveClosers, Range
    <2>5. (srvPhase' = "new" /\ plan' = P) \/ (srvPhase' = "exited" /\ plan' = plan)
      BY <1>1 DEF Load, P
    <2>6. ResourcesHaveClosers' /\ GatewayIsBuilt' /\ ServersStopFirst'
      BY <1>1, <2>2, <2>4, <2>5
         DEF Load, ResourcesHaveClosers, GatewayIsBuilt, ServersStopFirst, ExitReleasesWhatWasBuilt
    <2>7. PortsFollowSteps'
      BY <1>1, <2>5 DEF Load, PortsFollowSteps
    <2>71. CallsFollowSteps'
      BY <1>1, <2>5 DEF Load, CallsFollowSteps, InFlight
    <2>72. ShutdownLosesNoCall'
      BY <1>1, <2>5 DEF Load, ShutdownLosesNoCall
    <2>8. QED BY <2>1, <2>3, <2>6, <2>7, <2>71, <2>72, ServerTypeParts, PTL
  <1>2. CASE Construct
    <2> DEFINE item == Head(plan)
               new == Registers(Head(plan))
    <2>1. new \in Seq(StepNames) /\ \A k \in Range(new) : ~IsServer(k)
      BY RegistersResources
    <2>2. item = "gateway" /\ "gateway" \in options => "gateway-conn" \in Range(new)
      <3>1. ASSUME item = "gateway", "gateway" \in options
            PROVE  "gateway-conn" \in Range(new)
        <4>1. new = <<"gateway-conn", "gateway-listener">>
          BY <3>1 DEF Registers
        <4>2. 1 \in DOMAIN new /\ new[1] = "gateway-conn"
          BY <4>1
        <4>3. QED BY <4>2 DEF Range
      <3>2. QED BY <3>1
    <2>3. /\ steps' = steps \o new /\ Range(new) \subseteq open /\ plan' = Tail(plan) /\ plan # <<>>
          /\ srvPhase = "new" /\ (open \subseteq Range(steps) \union Range(new)) /\ Range(steps) \subseteq open
          /\ UNCHANGED <<srvPhase, options, open, ports, call, todo, stopping, serving, routed, sigterm,
                         errCh, forced>>
      BY <1>2 DEF Construct, ResourcesHaveClosers, Unregistered
    <2> HIDE DEF item, new
    <2>4. ServerFlagsOK'
      BY <2>3, ServerTypeParts, Zenon DEF ServerFlagsOK
    <2>5. /\ Range(steps') = Range(steps) \union Range(new) /\ steps' \in Seq(StepNames)
          /\ Range(plan) = {item} \union Range(Tail(plan)) /\ Tail(plan) \in Seq(PlanItems)
      BY <2>1, <2>3, RangeConcat, RangeTail, ServerTypeParts DEF ServerRestOK, item
    <2>7. ServerRestOK'
      BY <2>3, <2>5, ServerTypeParts DEF ServerRestOK
    <2>8. ResourcesHaveClosers' /\ GatewayIsBuilt' /\ ServersStopFirst'
      BY <2>1, <2>2, <2>3, <2>5
         DEF ResourcesHaveClosers, GatewayIsBuilt, ServersStopFirst, ExitReleasesWhatWasBuilt
    <2>9. PortsFollowSteps' /\ CallsFollowSteps' /\ ShutdownLosesNoCall'
      BY <2>3 DEF PortsFollowSteps, CallsFollowSteps, ShutdownLosesNoCall
    <2>10. QED BY <2>4, <2>7, <2>8, <2>9, ServerTypeParts, PTL
  <1>3. CASE ConstructFails
    <2>1. ServerFlagsOK'
      BY <1>3, ServerTypeParts, Zenon DEF ConstructFails, ServerFlagsOK
    <2>2. Reverse(steps) \in Seq(StepNames) /\ Range(Reverse(steps)) = Range(steps)
      BY RangeReverse, ServerTypeParts DEF ServerRestOK
    <2>21. Range(steps) \subseteq StepNames
      BY ServerTypeParts DEF ServerRestOK, Range
    <2>3. ServerRestOK'
      BY <1>3, <2>2, <2>21, ServerTypeParts DEF ConstructFails, ServerRestOK
    <2>31. open' \subseteq Range(steps) \union LeftBy(Head(plan)) /\ LeftBy(Head(plan))' = LeftBy(Head(plan))
      BY <1>3 DEF ConstructFails, ResourcesHaveClosers, Unregistered, LeftBy, Registers
    <2>4. ResourcesHaveClosers' /\ GatewayIsBuilt' /\ ServersStopFirst'
      BY <1>3, <2>2, <2>31
         DEF ConstructFails, ResourcesHaveClosers, GatewayIsBuilt, ServersStopFirst, ExitReleasesWhatWasBuilt
    <2>5. PortsFollowSteps' /\ CallsFollowSteps' /\ ShutdownLosesNoCall'
      BY <1>3 DEF ConstructFails, PortsFollowSteps, CallsFollowSteps, ShutdownLosesNoCall
    <2>6. QED BY <2>1, <2>3, <2>4, <2>5, ServerTypeParts, PTL
  <1>4. CASE OpenNext
    <2>1. ServerFlagsOK'
      BY <1>4, ServerTypeParts, Zenon DEF OpenNext, ServerFlagsOK
    <2>2. PICK k \in Range(Registers(Head(plan))) : open' = open \union {k}
      BY <1>4 DEF OpenNext
    <2>3. k \in StepNames
      BY <2>2, RegistersResources
    <2>4. ServerRestOK'
      BY <1>4, <2>2, <2>3, ServerTypeParts DEF OpenNext, ServerRestOK
    <2>5. srvPhase = "new" /\ srvPhase' = "new" /\ k \in Unregistered /\ Unregistered' = Unregistered
      BY <1>4, <2>2 DEF OpenNext, Unregistered, Registers
    <2>6. ResourcesHaveClosers' /\ GatewayIsBuilt' /\ ServersStopFirst'
      BY <1>4, <2>2, <2>5
         DEF OpenNext, ResourcesHaveClosers, GatewayIsBuilt, ServersStopFirst, ExitReleasesWhatWasBuilt
    <2>7. PortsFollowSteps' /\ CallsFollowSteps' /\ ShutdownLosesNoCall'
      BY <1>4 DEF OpenNext, PortsFollowSteps, CallsFollowSteps, ShutdownLosesNoCall
    <2>8. QED BY <2>1, <2>4, <2>6, <2>7, ServerTypeParts, PTL
  <1>5. QED BY <1>1, <1>2, <1>3, <1>4

\* Steps that change neither the steps nor the queue: what is left to show.
LEMMA SteadyKeepsSInv ==
  ASSUME SInv, UNCHANGED <<options, plan, steps, todo, stopping, open>>, ServerTypeOK',
         \/ srvPhase' = srvPhase
         \/ srvPhase = "new" /\ plan = <<>> /\ srvPhase' = "running"
         \/ srvPhase = "running" /\ srvPhase' = "draining"
         \/ srvPhase' = "aborted" /\ srvPhase # "closing",
         PortsFollowSteps', CallsFollowSteps', ShutdownLosesNoCall'
  PROVE  SInv'
  <1> USE DEF SInv
  <1>1. ResourcesHaveClosers'
    BY DEF ResourcesHaveClosers, Unregistered, ExitReleasesWhatWasBuilt, LeftBy, Registers
  <1>2. GatewayIsBuilt'
    <2>1. plan = <<>> => Range(plan) = {}
      BY DEF Range
    <2>2. QED BY <2>1 DEF GatewayIsBuilt
  <1>3. ServersStopFirst'
    BY DEF ServersStopFirst, GatewayNext, GrpcNext, OuterDone
  <1>4. QED BY <1>1, <1>2, <1>3

\* Run: the listeners, the signal, the endpoints, and the start of Close.
LEMMA ServingKeepsSInv ==
  ASSUME SInv,
         Listen \/ ListenerFails \/ Signal \/ Close \/ Route \/ Unroute \/ (\E p \in Ports : Bind(p))
  PROVE  SInv'
  <1> USE DEF Listen, ListenerFails, Signal, Close, Route, Unroute, Bind, builtVars, queueVars, reachVars,
              eventVars
  <1>1. ServerTypeOK'
    <2>1. ServerFlagsOK'
      <3>1. ServerFlagsOK
        BY ServerTypeParts DEF SInv
      <3>2. QED BY <3>1, Zenon DEF ServerFlagsOK
    <2>2. ServerRestOK'
      <3>1. ServerRestOK
        BY ServerTypeParts DEF SInv
      <3>2. QED BY <3>1 DEF ServerRestOK, Ports, InFlight, Settled
    <2>3. QED BY <2>1, <2>2, ServerTypePartsNext
  <1>2. ports \in [Ports -> {"unbound", "failed", "open", "closed"}]
    BY ServerTypeParts DEF SInv, ServerRestOK
  <1>3. PortsFollowSteps'
    BY <1>2 DEF SInv, PortsFollowSteps, Ports
  <1>4. CallsFollowSteps'
    BY DEF SInv, CallsFollowSteps, InFlight
  <1>5. ShutdownLosesNoCall'
    BY DEF SInv, ShutdownLosesNoCall
  <1>6. QED BY <1>1, <1>3, <1>4, <1>5, SteadyKeepsSInv

\* Clients: a call connects, is forwarded, is answered or is given up.
LEMMA ClientKeepsSInv ==
  ASSUME SInv, NEW c \in Calls, Client(c)
  PROVE  SInv'
  <1>1. UNCHANGED srvOthers
    BY DEF Client, Connect, Forward, HandlerEnds, CallerLeaves
  <1>2. /\ ServerFlagsOK /\ ServerRestOK /\ ResourcesHaveClosers /\ GatewayIsBuilt /\ ServersStopFirst
        /\ PortsFollowSteps /\ CallsFollowSteps /\ ShutdownLosesNoCall
    BY ServerTypeParts DEF SInv
  <1>3. srvPhase \in {"running", "draining"} =>
          /\ open = Range(steps) /\ ports["grpc"] = "open"
          /\ "gateway" \in options => "gateway-conn" \in open
    BY <1>2 DEF ResourcesHaveClosers, GatewayIsBuilt, PortsFollowSteps
  <1>4. srvPhase = "closing" =>
          \/ /\ ~OuterDone(todo) /\ open = Range(steps)
             /\ "gateway" \in options => "gateway-conn" \in open
          \/ OuterDone(todo) /\ ports["grpc"] = "closed"
    BY <1>2, SituationsDiffer DEF ServersStopFirst, GatewayIsBuilt, PortsFollowSteps, ServerRestOK
  <1>5. PICK a : /\ call' = [call EXCEPT ![c] = a] /\ a \in InFlight \union Settled \union {"idle", "orphan"}
                 /\ a # "broken" /\ (a = "refused" => forced)
                 /\ a \in InFlight => srvPhase \in {"running", "draining", "closing"}
                 /\ a = "atGateway" => "gateway" \in options /\ srvPhase # "closing"
                 /\ srvPhase = "closing" /\ OuterDone(todo) => a \notin {"viaGateway", "direct"}
    <2>1. CASE \E p \in {"grpc"} \union (options \intersect {"gateway"}) : Connect(c, p)
      <3>1. PICK p \in {"grpc"} \union (options \intersect {"gateway"}) : Connect(c, p)
        BY <2>1
      <3>2. srvPhase \in {"running", "draining"} /\ ports[p] # "closed" /\ p \in Ports
        BY <1>2, <3>1 DEF Connect, Ended, PortsFollowSteps, Ports
      <3>3. \E a \in {"early", "atGateway", "direct"} :
              call' = [call EXCEPT ![c] = a] /\ (a = "atGateway" => p = "gateway")
        <4>1. CASE ports[p] \in {"unbound", "failed"}
          BY <3>1, <4>1 DEF Connect
        <4>2. CASE ports[p] = "open"
          BY <3>1, <4>2 DEF Connect
        <4>3. ports[p] \in {"unbound", "failed", "open"}
          BY <1>2, <3>2 DEF ServerRestOK
        <4>4. QED BY <4>1, <4>2, <4>3
      <3>4. QED BY <3>2, <3>3 DEF InFlight, Settled
    <2>2. CASE Forward(c)
      <3>1. srvPhase \in {"running", "draining", "closing"} /\ "gateway" \in options
        BY <1>2, <2>2 DEF Forward, CallsFollowSteps, InFlight
      <3>2. ("gateway-conn" \in open /\ ports["grpc"] = "open") \/ forced
        <4>1. CASE srvPhase \in {"running", "draining"}
          BY <1>3, <3>1, <4>1
        <4>2. CASE srvPhase = "closing" /\ GatewayNext(todo)
          BY <1>2, <1>4, <3>1, <4>2, SituationsDiffer DEF PortsFollowSteps, ServerRestOK
        <4>3. CASE srvPhase = "closing" /\ ~GatewayNext(todo)
          BY <1>2, <2>2, <4>3 DEF Forward, CallsFollowSteps
        <4>4. QED BY <3>1, <4>1, <4>2, <4>3
      <3>3. CASE "gateway-conn" \in open /\ ports["grpc"] = "open"
        <4>1. call' = [call EXCEPT ![c] = "viaGateway"]
          BY <2>2, <3>3 DEF Forward
        <4> WITNESS "viaGateway"
        <4>2. QED BY <1>4, <3>1, <3>3, <4>1 DEF InFlight, Settled
      <3>4. CASE ~("gateway-conn" \in open /\ ports["grpc"] = "open")
        <4>1. call' = [call EXCEPT ![c] = "refused"]
          BY <2>2, <3>4 DEF Forward
        <4> WITNESS "refused"
        <4>2. QED BY <3>2, <3>4, <4>1 DEF InFlight, Settled
      <3>5. QED BY <3>3, <3>4
    <2>3. CASE HandlerEnds(c)
      <3>1. call[c] # "orphan" => Range(steps) \subseteq open
        BY <1>2, <1>3, <1>4, <2>3 DEF HandlerEnds, CallsFollowSteps, InFlight
      <3>2. call' = [call EXCEPT ![c] = "gone"] \/ call' = [call EXCEPT ![c] = "served"]
        BY <2>3, <3>1 DEF HandlerEnds
      <3>3. QED BY <3>2 DEF InFlight, Settled
    <2>4. CASE CallerLeaves(c)
      <3>1. call' = [call EXCEPT ![c] = "gone"] \/ call' = [call EXCEPT ![c] = "orphan"]
        BY <2>4 DEF CallerLeaves
      <3>2. QED BY <3>1 DEF InFlight, Settled
    <2>5. QED BY <2>1, <2>2, <2>3, <2>4 DEF Client
  <1>6. \A d \in Calls : call'[d] = IF d = c THEN a ELSE call[d]
    BY <1>2, <1>5 DEF ServerRestOK
  <1> USE DEF srvOthers, builtVars, queueVars, reachVars, eventVars
  <1>7. ServerTypeOK'
    <2>1. ServerFlagsOK'
      BY <1>1, <1>2, Zenon DEF ServerFlagsOK
    <2>2. ServerRestOK'
      BY <1>1, <1>2, <1>5 DEF ServerRestOK
    <2>3. QED BY <2>1, <2>2, ServerTypeParts, PTL
  <1>8. PortsFollowSteps'
    BY <1>1, <1>2 DEF PortsFollowSteps
  <1>9. CallsFollowSteps'
    BY <1>1, <1>2, <1>5, <1>6 DEF CallsFollowSteps, InFlight
  <1>10. ShutdownLosesNoCall'
    BY <1>1, <1>2, <1>5, <1>6 DEF ShutdownLosesNoCall
  <1>11. QED BY <1>1, <1>7, <1>8, <1>9, <1>10, SteadyKeepsSInv

\* Close and closeOpened: the steps run in order, each to its end or its timeout.
LEMMA ShutdownKeepsSInv ==
  ASSUME SInv, Drained \/ StepBegins \/ StepEnds \/ StepTimesOut \/ Release \/ Exit
  PROVE  SInv'
  <1> USE DEF builtVars, queueVars, reachVars, eventVars
  <1>1. /\ ServerFlagsOK /\ ServerRestOK /\ ResourcesHaveClosers /\ GatewayIsBuilt /\ ServersStopFirst
        /\ PortsFollowSteps /\ CallsFollowSteps /\ ShutdownLosesNoCall
    BY ServerTypeParts DEF SInv
  <1>2. todo \in Seq(StepNames) /\ ports \in [Ports -> {"unbound", "failed", "open", "closed"}]
        /\ steps \in Seq(StepNames)
    BY <1>1 DEF ServerRestOK
  <1>3. SInv' <=> /\ ServerFlagsOK' /\ ServerRestOK' /\ ResourcesHaveClosers' /\ GatewayIsBuilt'
                  /\ ServersStopFirst' /\ PortsFollowSteps' /\ CallsFollowSteps' /\ ShutdownLosesNoCall'
    BY ServerTypePartsNext DEF SInv
  <1>4. CASE Drained
    <2>1. /\ todo' \in Seq(StepNames) /\ Range(steps) \subseteq Range(todo')
          /\ "gateway" \in options => GatewayNext(todo')
          /\ "gateway" \notin options => GrpcNext(todo')
      BY <1>1, <1>2, <1>4, ShutdownOrder DEF Drained, ResourcesHaveClosers
    <2>2. ~stopping /\ ~routed /\ stopping' = stopping
      BY <1>1, <1>4 DEF Drained, ServersStopFirst
    <2>3. (GatewayNext(todo') \/ GrpcNext(todo')) /\ ~OuterDone(todo')
      BY <2>1, SituationsDiffer
    <2>4. ServerFlagsOK'
      BY <1>1, <1>4, Zenon DEF Drained, ServerFlagsOK
    <2>5. ServerRestOK'
      BY <1>1, <1>4, <2>1 DEF Drained, ServerRestOK
    <2>6. ResourcesHaveClosers' /\ GatewayIsBuilt' /\ ServersStopFirst'
      BY <1>1, <1>4, <2>1, <2>2, <2>3
         DEF Drained, ResourcesHaveClosers, GatewayIsBuilt, ServersStopFirst, ExitReleasesWhatWasBuilt
    <2>7. PortsFollowSteps'
      BY <1>1, <1>4, <2>1, <2>2, <2>3 DEF Drained, PortsFollowSteps
    <2>8. CallsFollowSteps' /\ ShutdownLosesNoCall'
      BY <1>1, <1>4, <2>1, <2>2, <2>3 DEF Drained, CallsFollowSteps, ShutdownLosesNoCall
    <2>9. QED BY <1>3, <2>4, <2>5, <2>6, <2>7, <2>8
  <1>5. CASE StepBegins
    <2>1. ServerFlagsOK'
      BY <1>1, <1>5, Zenon DEF StepBegins, ServerFlagsOK
    <2>2. PortOf(Head(todo)) \in Ports /\ (PortOf(Head(todo)) = "grpc" <=> Head(todo) = "grpc-server")
      BY <1>5 DEF StepBegins, PortOf, Ports, IsServer
    <2>3. ServerRestOK'
      BY <1>1, <1>5, <2>2 DEF StepBegins, ServerRestOK
    <2>4. ResourcesHaveClosers' /\ GatewayIsBuilt' /\ ServersStopFirst'
      BY <1>1, <1>5
         DEF StepBegins, ResourcesHaveClosers, GatewayIsBuilt, ServersStopFirst, ExitReleasesWhatWasBuilt
    <2>5. /\ GatewayNext(todo) => Head(todo) = "gateway-server"
          /\ GrpcNext(todo) => Head(todo) = "grpc-server"
          /\ OuterDone(todo) => Head(todo) \notin Outer
      BY <1>2, <1>5, StepsAdvance DEF StepBegins
    <2>6. PortsFollowSteps'
      BY <1>1, <1>2, <1>5, <2>2, <2>5 DEF StepBegins, PortsFollowSteps, Outer, Ports
    <2>7. CallsFollowSteps' /\ ShutdownLosesNoCall'
      BY <1>1, <1>5 DEF StepBegins, CallsFollowSteps, ShutdownLosesNoCall
    <2>8. QED BY <1>3, <2>1, <2>3, <2>4, <2>6, <2>7
  <1>6. CASE StepEnds \/ StepTimesOut
    <2>1. /\ todo # <<>> /\ stopping /\ todo' = Tail(todo) /\ stopping' = FALSE
          /\ UNCHANGED <<srvPhase, open, ports, options, plan, steps, serving, routed, sigterm, errCh>>
      BY <1>6 DEF StepEnds, StepTimesOut
    <2>2. srvPhase = "closing" /\ IsServer(Head(todo))
      BY <1>1, <2>1 DEF ServersStopFirst
    <2>3. /\ Tail(todo) \in Seq(StepNames) /\ Range(todo) = {Head(todo)} \union Range(Tail(todo))
      BY <1>2, <2>1, RangeTail
    <2>4. /\ GatewayNext(todo) => GrpcNext(todo') /\ Head(todo) = "gateway-server"
          /\ GrpcNext(todo) => OuterDone(todo') /\ Head(todo) = "grpc-server"
          /\ OuterDone(todo) => OuterDone(todo') /\ Head(todo) \notin Outer
      BY <1>2, <2>1, StepsAdvance
    <2>5. GatewayNext(todo) \/ GrpcNext(todo) \/ OuterDone(todo)
      BY <1>1, <2>2 DEF ServersStopFirst
    <2>6. /\ GrpcNext(todo') => ~GatewayNext(todo') /\ ~OuterDone(todo')
          /\ OuterDone(todo') => ~GatewayNext(todo') /\ ~GrpcNext(todo')
      BY <2>1, <2>3, SituationsDiffer
    <2>7. forced' \in BOOLEAN /\ (forced => forced') /\ (StepTimesOut => forced')
      <3>1. CASE StepTimesOut
        BY <3>1 DEF StepTimesOut
      <3>2. CASE ~StepTimesOut
        <4>1. forced' = forced
          BY <1>6, <3>2 DEF StepEnds
        <4>2. forced \in BOOLEAN
          BY <1>1, Zenon DEF ServerFlagsOK
        <4>3. QED BY <3>2, <4>1, <4>2, Zenon
      <3>3. QED BY <3>1, <3>2
    <2>8. ServerFlagsOK'
      BY <1>1, <2>1, <2>7, Zenon DEF ServerFlagsOK
    <2>9. \A c \in Calls : \/ call'[c] = call[c]
                           \/ call'[c] = "orphan"
      BY <1>1, <1>6 DEF StepEnds, StepTimesOut, ServerRestOK
    <2>10. ServerRestOK'
      <3>1. call' \in [Calls -> InFlight \union Settled \union {"idle", "orphan"}]
        BY <1>1, <1>6 DEF StepEnds, StepTimesOut, ServerRestOK
      <3>2. QED BY <1>1, <2>1, <2>3, <3>1 DEF ServerRestOK
    <2>11. ResourcesHaveClosers' /\ GatewayIsBuilt'
      <3>1. open \subseteq Range(todo') \intersect Range(steps)
        BY <1>1, <2>1, <2>2, <2>3 DEF ResourcesHaveClosers
      <3>2. QED BY <1>1, <2>1, <2>2, <3>1 DEF ResourcesHaveClosers, GatewayIsBuilt, ExitReleasesWhatWasBuilt
    <2>12. ServersStopFirst'
      BY <1>1, <2>1, <2>2, <2>4, <2>5 DEF ServersStopFirst
    <2>13. PortsFollowSteps'
      BY <1>1, <2>1, <2>2, <2>4, <2>5, <2>6 DEF PortsFollowSteps
    <2>14. CallsFollowSteps'
      <3> SUFFICES ASSUME NEW c \in Calls
                   PROVE  /\ call'[c] = "atGateway" => "gateway" \in options
                          /\ call'[c] = "atGateway" => forced'
                          /\ OuterDone(todo') => call'[c] \notin {"viaGateway", "direct"}
        BY <2>1, <2>2 DEF CallsFollowSteps
      <3>1. call'[c] = "atGateway" => call[c] = "atGateway"
        BY <2>9
      <3>2. call[c] = "atGateway" /\ ~GatewayNext(todo) => forced
        BY <1>1, <2>2 DEF CallsFollowSteps
      <3>3. call[c] = "atGateway" /\ GatewayNext(todo) => StepTimesOut
        BY <1>6, <2>4 DEF StepEnds, WaitsFor
      <3>4. OuterDone(todo') => GrpcNext(todo) \/ OuterDone(todo)
        BY <2>4, <2>5, <2>6
      <3>5. OuterDone(todo) => call[c] \notin {"viaGateway", "direct"}
        BY <1>1, <2>2 DEF CallsFollowSteps
      <3>6. GrpcNext(todo) => call'[c] \notin {"viaGateway", "direct"}
        BY <1>6, <2>4 DEF StepEnds, StepTimesOut, WaitsFor
      <3>7. call[c] = "atGateway" => "gateway" \in options
        BY <1>1 DEF CallsFollowSteps
      <3>8. QED BY <2>7, <2>9, <3>1, <3>2, <3>3, <3>4, <3>5, <3>6, <3>7
    <2>15. ShutdownLosesNoCall'
      BY <1>1, <2>7, <2>9 DEF ShutdownLosesNoCall
    <2>16. QED BY <1>3, <2>8, <2>10, <2>11, <2>12, <2>13, <2>14, <2>15
  <1>7. CASE Release
    <2>1. /\ Tail(todo) \in Seq(StepNames) /\ Range(todo) = {Head(todo)} \union Range(Tail(todo))
      BY <1>2, <1>7, RangeTail DEF Release
    <2>2. ServerFlagsOK'
      BY <1>1, <1>7, Zenon DEF Release, ServerFlagsOK
    <2>3. ServerRestOK'
      BY <1>1, <1>7, <2>1 DEF Release, ServerRestOK
    <2>4. ResourcesHaveClosers' /\ GatewayIsBuilt'
      <3>1. LeftBy(Head(plan))' = LeftBy(Head(plan))
        BY <1>7 DEF Release, LeftBy, Registers
      <3>2. QED
        BY <1>1, <1>7, <2>1, <3>1 DEF Release, ResourcesHaveClosers, GatewayIsBuilt, ExitReleasesWhatWasBuilt
    <2>5. /\ srvPhase = "closing" => OuterDone(todo) /\ OuterDone(todo')
          /\ srvPhase = "closing" => ~GatewayNext(todo') /\ ~GrpcNext(todo') /\ ~GatewayNext(todo)
      <3>1. /\ GatewayNext(todo) => Head(todo) = "gateway-server"
            /\ GrpcNext(todo) => Head(todo) = "grpc-server"
            /\ OuterDone(todo) => OuterDone(todo')
        BY <1>2, <1>7, StepsAdvance DEF Release
      <3>2. srvPhase = "closing" => OuterDone(todo)
        BY <1>1, <1>7, <3>1 DEF Release, IsServer, ServersStopFirst
      <3>3. QED BY <1>2, <1>7, <2>1, <3>1, <3>2, SituationsDiffer DEF Release
    <2>6. ~stopping /\ ~stopping'
      BY <1>1, <1>7 DEF Release, ServersStopFirst
    <2>7. ServersStopFirst' /\ PortsFollowSteps'
      BY <1>1, <1>7, <2>5, <2>6 DEF Release, ServersStopFirst, PortsFollowSteps
    <2>8. CallsFollowSteps' /\ ShutdownLosesNoCall'
      BY <1>1, <1>7, <2>5 DEF Release, CallsFollowSteps, ShutdownLosesNoCall
    <2>9. QED BY <1>3, <2>2, <2>3, <2>4, <2>7, <2>8
  <1>8. CASE Exit
    <2>1. ServerFlagsOK'
      BY <1>1, <1>8, Zenon DEF Exit, ServerFlagsOK
    <2>2. ServerRestOK'
      BY <1>1, <1>8 DEF Exit, ServerRestOK, InFlight, Settled
    <2>3. ~stopping /\ open \subseteq (IF plan = <<>> THEN {} ELSE LeftBy(Head(plan)))
      <3>1. todo = <<>> => Range(todo) = {}
        BY DEF Range
      <3>2. QED BY <1>1, <1>8, <3>1 DEF Exit, ResourcesHaveClosers, ServersStopFirst
    <2>31. LeftBy(Head(plan))' = LeftBy(Head(plan))
      BY <1>8 DEF Exit, LeftBy, Registers
    <2>4. ResourcesHaveClosers' /\ GatewayIsBuilt' /\ ServersStopFirst'
      BY <1>1, <1>8, <2>3, <2>31
         DEF Exit, ResourcesHaveClosers, GatewayIsBuilt, ServersStopFirst, ExitReleasesWhatWasBuilt
    <2>5. PortsFollowSteps'
      BY <1>1, <1>8 DEF Exit, PortsFollowSteps
    <2>6. CallsFollowSteps' /\ ShutdownLosesNoCall'
      BY <1>1, <1>8 DEF Exit, CallsFollowSteps, ShutdownLosesNoCall, InFlight
    <2>7. QED BY <1>3, <2>1, <2>2, <2>4, <2>5, <2>6
  <1>9. QED BY <1>4, <1>5, <1>6, <1>7, <1>8

\* Every step preserves the invariant.
LEMMA NextSInv == SInv /\ [ServerNext]_srvVars => SInv'
  <1> SUFFICES ASSUME SInv, [ServerNext]_srvVars PROVE SInv'
    OBVIOUS
  <1>1. CASE ServerNext
    BY <1>1, StartKeepsSInv, ServingKeepsSInv, ClientKeepsSInv, ShutdownKeepsSInv DEF ServerNext, ServerStep
  <1>2. CASE UNCHANGED srvVars
    <2>1. UNCHANGED <<srvPhase, options, plan, steps, todo, stopping, open, ports, serving, routed, sigterm,
                      errCh, forced, call>>
      BY <1>2 DEF srvVars, builtVars, queueVars, reachVars, eventVars
    <2>2. ServerTypeOK'
      <3>1. ServerFlagsOK /\ ServerRestOK
        BY ServerTypeParts DEF SInv
      <3>2. ServerFlagsOK'
        BY <2>1, <3>1, Zenon DEF ServerFlagsOK
      <3>3. ServerRestOK'
        BY <2>1, <3>1 DEF ServerRestOK
      <3>4. QED BY <3>2, <3>3, ServerTypeParts, PTL
    <2>3. PortsFollowSteps' /\ CallsFollowSteps' /\ ShutdownLosesNoCall'
      BY <2>1 DEF SInv, PortsFollowSteps, CallsFollowSteps, ShutdownLosesNoCall
    <2>4. QED BY <2>1, <2>2, <2>3, SteadyKeepsSInv
  <1>3. QED BY <1>1, <1>2

\* The invariant holds throughout.
LEMMA SpecSInv == ServerSpec => []SInv
  BY InitSInv, NextSInv, PTL DEF ServerSpec

\* Every reachable state of the server process is well typed.
THEOREM ServerTypeCorrect == ServerSpec => []ServerTypeOK
  BY SpecSInv, PTL DEF SInv

\* Close drains before it stops and shutdownSteps stops the servers before what
\* they use: no call is refused but for a step that ran out of time, and no
\* handler with a caller loses its store, whatever the number of calls.
THEOREM ShutdownIsGraceful == ServerSpec => []ShutdownLosesNoCall
  BY SpecSInv, PTL DEF SInv

\* What is open has a closer, and at the exit no closer is left.
LEMMA SInvReleases == SInv => ExitReleasesWhatWasBuilt
  BY DEF SInv, ResourcesHaveClosers

\* A shutdown closes whatever New built and Run used; a New that fails closes
\* what was built before the constructor that failed, whose own resources are
\* the only ones that may stay open (closeOpened, Close).
THEOREM ShutdownReleases == ServerSpec => []ExitReleasesWhatWasBuilt
  BY SInvReleases, SpecSInv, PTL
=============================================================================
