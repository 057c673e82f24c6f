-------------------------- MODULE ServerLifecycle --------------------------
(***************************************************************************)
(* The life of one orderd process: configuration, app.New, app.Run, the    *)
(* drain, and the ordered shutdown, with calls arriving over gRPC and over *)
(* the REST gateway throughout.                                            *)
(***************************************************************************)
EXTENDS Naturals, Sequences, SequencesExt

CONSTANTS
  Calls             \* the calls clients make of this process

VARIABLES
  srvPhase,         \* where run() is
  options,          \* what the configuration enables; NoOptions before Load
  plan,             \* what New has yet to build, in order
  steps,            \* App.steps, in construction order
  todo,             \* what Shutdown has yet to run, in execution order
  open,             \* resources held: the tracer, the pool, Redis, the in-process pair;
                    \* New opens one before it registers the step that closes it
  ports,            \* the three listeners
  stopping,         \* the current step has closed its listener and waits
  serving,          \* grpc.health.v1 says SERVING
  routed,           \* external: the endpoints list this pod
  sigterm,          \* ctx is cancelled
  errCh,            \* a listener goroutine has sent its error
  forced,           \* a step ran out of time: HTTP left open, or Stop() instead of GracefulStop
  call              \* how far each call is

builtVars == <<options, plan, steps>>
queueVars == <<todo, stopping>>
reachVars == <<serving, routed>>
eventVars == <<sigterm, errCh, forced>>
srvVars == <<srvPhase, builtVars, queueVars, open, ports, reachVars, eventVars, call>>

NoOptions == {}
Optional == {"gateway", "postgres", "redis"}
Ports == {"grpc", "admin", "gateway"}
InFlight == {"atGateway", "viaGateway", "direct"}     \* a caller waits for the answer
Settled == {"served", "early", "refused", "broken", "gone"}
StepNames == {"flush-traces", "postgres-pool", "redis-client", "gateway-conn", "gateway-listener",
              "admin-server", "grpc-server", "gateway-server"}

PlanItems == {"verifier", "tracing", "validator", "store", "limiter", "server", "gateway"}

ServerTypeOK ==
  /\ srvPhase \in {"load", "new", "unwinding", "running", "draining", "closing", "exited", "aborted"}
  /\ options \subseteq Optional
  /\ steps \in Seq(StepNames) /\ todo \in Seq(StepNames) /\ plan \in Seq(PlanItems)
  /\ open \subseteq StepNames
  /\ ports \in [Ports -> {"unbound", "failed", "open", "closed"}]
  /\ \A b \in {stopping, serving, routed, sigterm, errCh, forced} : b \in BOOLEAN
  /\ call \in [Calls -> InFlight \union Settled \union {"idle", "orphan"}]

\* The steps that stop a server, and the listener each of them closes.
PortOf(k) == CASE k = "gateway-server" -> "gateway"
               [] k = "grpc-server" -> "grpc"
               [] k = "admin-server" -> "admin"
IsServer(k) == k \in {"gateway-server", "grpc-server", "admin-server"}

\* run() has returned: through Shutdown (or before anything was opened), or with
\* an error of Run, which leaves everything to the operating system.
Ended == srvPhase \in {"exited", "aborted"}

ServerInit ==
  /\ srvPhase = "load" /\ options = NoOptions
  /\ plan = <<>> /\ steps = <<>> /\ todo = <<>> /\ open = {}
  /\ ports = [p \in Ports |-> "unbound"]
  /\ stopping = FALSE /\ serving = FALSE /\ routed = FALSE
  /\ sigterm = FALSE /\ errCh = FALSE /\ forced = FALSE
  /\ call = [c \in Calls |-> "idle"]

-----------------------------------------------------------------------------
(* Start-up *)

\* run: config.Load refuses a bad configuration before anything is opened.
Load ==
  /\ srvPhase = "load"
  /\ \/ /\ options' \in SUBSET Optional
        /\ srvPhase' = "new"
        /\ plan' = <<"verifier", "tracing", "validator", "store", "limiter", "server", "gateway">>
     \/ /\ srvPhase' = "exited"
        /\ UNCHANGED <<options, plan>>
  /\ UNCHANGED <<steps, open, ports, call, queueVars, reachVars, eventVars>>

\* The steps a constructor of New registers once it has succeeded, each named
\* for the resource it closes; buildGateway registers both of its at its end.
Registers(item) ==
  CASE item = "tracing" -> <<"flush-traces">>
    [] item = "store" /\ "postgres" \in options -> <<"postgres-pool">>
    [] item = "limiter" /\ "redis" \in options -> <<"redis-client">>
    [] item = "gateway" /\ "gateway" \in options -> <<"gateway-conn", "gateway-listener">>
    [] OTHER -> <<>>

\* A constructor opens its next resource; no step closes it yet.  buildGateway
\* listens, and serves, before it dials.
OpenNext ==
  /\ srvPhase = "new" /\ plan # <<>>
  /\ \E k \in Range(Registers(Head(plan))) \ open :
       /\ k = "gateway-conn" => "gateway-listener" \in open
       /\ open' = open \union {k}
  /\ UNCHANGED <<srvPhase, ports, call, builtVars, queueVars, reachVars, eventVars>>

\* A constructor returns: what it opened is registered from here on.
Construct ==
  /\ srvPhase = "new" /\ plan # <<>>
  /\ Range(Registers(Head(plan))) \subseteq open
  /\ plan' = Tail(plan)
  /\ steps' = steps \o Registers(Head(plan))
  /\ UNCHANGED <<srvPhase, options, open, ports, call, queueVars, reachVars, eventVars>>

\* Mutant: New returns the error and leaves what it has opened.
ConstructFails_Returning ==
  /\ srvPhase = "new" /\ plan # <<>>
  /\ srvPhase' = "exited"
  /\ UNCHANGED <<open, ports, call, builtVars, queueVars, reachVars, eventVars>>

\* The resources a failing constructor may leave behind: the exporter when
\* newResource fails, the pool when it cannot be unwrapped or guarded, and the
\* in-process listener and connection when the dial or the mux fails.
LeftBy(item) == IF item = "limiter" THEN {} ELSE Range(Registers(item))

\* A constructor of New fails and New calls closeOpened, which runs the steps
\* registered so far.  buildLimiter fails over a bad quota and closes its client;
\* a pool that does not answer the ping is closed by gormx.Open; every other
\* failure returns with what the constructor had opened.
ConstructFails ==
  /\ srvPhase = "new" /\ plan # <<>>
  /\ Head(plan) = "limiter" => "redis-client" \in open
  /\ Head(plan) = "gateway" => "gateway-listener" \in open
  /\ \/ Head(plan) # "limiter" /\ UNCHANGED open
     \/ Head(plan) \in {"store", "limiter"} /\ open' = Range(steps)
  /\ srvPhase' = "unwinding"
  /\ todo' = Reverse(steps)
  /\ UNCHANGED <<ports, stopping, call, builtVars, reachVars, eventVars>>

\* New returns, Run binds the gRPC port and says SERVING; a bind that fails
\* (or is cancelled) ends the process without Close.
Listen ==
  /\ srvPhase = "new" /\ plan = <<>>
  /\ \/ /\ srvPhase' = "running"
        /\ ports' = [ports EXCEPT !["grpc"] = "open"]
        /\ serving' = TRUE
     \/ srvPhase' = "aborted" /\ UNCHANGED <<ports, serving>>
  /\ UNCHANGED <<open, routed, call, builtVars, queueVars, eventVars>>

\* The goroutines Run starts: ListenAndServe binds its port or fails, and once
\* Shutdown was called on the server it returns ErrServerClosed.
Bind(p) ==
  /\ srvPhase \in {"running", "draining", "closing"}
  /\ ports[p] = "unbound" /\ p \in {"admin"} \union (options \intersect {"gateway"})
  /\ \/ ports' = [ports EXCEPT ![p] = "open"] /\ UNCHANGED errCh
     \/ ports' = [ports EXCEPT ![p] = "failed"] /\ errCh' = TRUE
  /\ UNCHANGED <<srvPhase, open, sigterm, forced, call, builtVars, queueVars, reachVars>>

\* Run's select: a listener's error ends the process, without Close.
ListenerFails ==
  /\ srvPhase = "running" /\ errCh
  /\ srvPhase' = "aborted"
  /\ call' = [c \in Calls |-> IF call[c] = "idle" THEN "idle" ELSE "gone"]
  /\ UNCHANGED <<open, ports, builtVars, queueVars, reachVars, eventVars>>

-----------------------------------------------------------------------------
(* Shutdown *)

\* External: SIGTERM, at any time.
Signal ==
  /\ ~sigterm /\ ~Ended
  /\ sigterm' = TRUE
  /\ UNCHANGED <<srvPhase, open, ports, errCh, forced, call, builtVars, queueVars, reachVars>>

\* Mutant: the order shutdownSteps once had, the gRPC server before the gateway.
shutdownSteps_InsideOut ==
  <<"grpc-server">> \o (IF "gateway" \in options THEN <<"gateway-server">> ELSE <<>>)
  \o <<"admin-server">> \o Reverse(steps)

\* shutdownSteps, already in the order Shutdown runs them.
shutdownSteps ==
  (IF "gateway" \in options THEN <<"gateway-server">> ELSE <<>>)
  \o <<"grpc-server", "admin-server">> \o Reverse(steps)

\* Close, step 1: not routable, still serving.
Close ==
  /\ srvPhase = "running" /\ sigterm
  /\ serving' = FALSE
  /\ srvPhase' = "draining"
  /\ UNCHANGED <<open, ports, routed, call, builtVars, queueVars, eventVars>>

\* DrainDelay is over.  It is configured to outlast the endpoint update.
Drained ==
  /\ srvPhase = "draining" /\ ~routed
  /\ srvPhase' = "closing"
  /\ todo' = shutdownSteps
  /\ UNCHANGED <<open, ports, stopping, call, builtVars, reachVars, eventVars>>

\* A server's step begins: http.Server.Shutdown and GracefulStop close the
\* listener and then wait.
StepBegins ==
  /\ srvPhase = "closing" /\ todo # <<>> /\ ~stopping
  /\ IsServer(Head(todo))
  /\ ports' = [ports EXCEPT ![PortOf(Head(todo))] = "closed"]
  /\ stopping' = TRUE
  /\ UNCHANGED <<srvPhase, todo, open, call, builtVars, reachVars, eventVars>>

\* What the current step waits for.
WaitsFor(k) == CASE k = "gateway-server" -> {"atGateway", "viaGateway"}
                 [] k = "grpc-server" -> {"viaGateway", "direct"}
                 [] OTHER -> {}

StepEnds ==
  /\ todo # <<>> /\ stopping
  /\ \A c \in Calls : call[c] \notin WaitsFor(Head(todo))
  /\ todo' = Tail(todo) /\ stopping' = FALSE
  /\ UNCHANGED <<srvPhase, open, ports, call, builtVars, reachVars, eventVars>>

\* Mutant: GracefulStop with no grace period: the step never gives up.
StepTimesOut_GatewayOnly ==
  /\ todo # <<>> /\ stopping /\ Head(todo) = "gateway-server"
  /\ \E c \in Calls : call[c] \in WaitsFor(Head(todo))
  /\ todo' = Tail(todo) /\ stopping' = FALSE /\ forced' = TRUE
  /\ UNCHANGED <<srvPhase, open, ports, sigterm, errCh, call, builtVars, reachVars>>

\* The step's timeout: the gateway leaves its requests to their fate (Shutdown
\* returns an error and the next step runs), the gRPC server cuts its
\* connections with Stop, whose handlers may still be running.
StepTimesOut ==
  /\ todo # <<>> /\ stopping
  /\ \E c \in Calls : call[c] \in WaitsFor(Head(todo))
  /\ todo' = Tail(todo) /\ stopping' = FALSE /\ forced' = TRUE
  /\ call' = [c \in Calls |-> IF Head(todo) = "grpc-server" /\ call[c] \in WaitsFor("grpc-server")
                              THEN "orphan" ELSE call[c]]
  /\ UNCHANGED <<srvPhase, open, ports, sigterm, errCh, builtVars, reachVars>>

\* A closer runs; its error, if any, is joined and the rest still run.
Release ==
  /\ srvPhase \in {"closing", "unwinding"} /\ todo # <<>>
  /\ ~IsServer(Head(todo))
  /\ open' = open \ {Head(todo)}
  /\ todo' = Tail(todo)
  /\ UNCHANGED <<srvPhase, ports, stopping, call, builtVars, reachVars, eventVars>>

\* Shutdown returns, and with it run(): whatever still runs dies with the process.
Exit ==
  /\ srvPhase \in {"closing", "unwinding"} /\ todo = <<>>
  /\ srvPhase' = "exited"
  /\ call' = [c \in Calls |-> IF call[c] \in InFlight \union {"orphan"} THEN "gone" ELSE call[c]]
  /\ UNCHANGED <<open, ports, builtVars, queueVars, reachVars, eventVars>>

-----------------------------------------------------------------------------
(* Clients *)

\* External: Kubernetes adds a ready pod to the endpoints and, some time after
\* it is terminating or not ready, removes it.
Route ==
  /\ ~routed /\ serving /\ srvPhase = "running" /\ ~sigterm
  /\ routed' = TRUE
  /\ UNCHANGED <<srvPhase, open, ports, serving, call, builtVars, queueVars, eventVars>>

Unroute ==
  /\ routed /\ (~serving \/ sigterm)
  /\ routed' = FALSE
  /\ UNCHANGED <<srvPhase, open, ports, serving, call, builtVars, queueVars, eventVars>>

srvOthers == <<srvPhase, builtVars, queueVars, open, ports, reachVars, eventVars>>

\* A client sent here connects to a listener, or finds none.
Connect(c, p) ==
  /\ call[c] = "idle" /\ routed /\ ~Ended
  /\ call' = [call EXCEPT ![c] = CASE ports[p] \in {"unbound", "failed"} -> "early"
                                   [] ports[p] = "closed" -> "refused"
                                   [] ports[p] = "open" -> IF p = "gateway" THEN "atGateway"
                                                                            ELSE "direct"]
  /\ UNCHANGED srvOthers

\* The mux calls the gRPC server over the in-process connection.
Forward(c) ==
  /\ call[c] = "atGateway"
  /\ call' = [call EXCEPT ![c] = IF "gateway-conn" \in open /\ ports["grpc"] = "open"
                                 THEN "viaGateway" ELSE "refused"]
  /\ UNCHANGED srvOthers

\* A handler finishes: with its store, its limiter and its spans, or without.
HandlerEnds(c) ==
  /\ call[c] \in {"viaGateway", "direct", "orphan"}
  /\ call' = [call EXCEPT ![c] = IF call[c] = "orphan" THEN "gone"
                                 ELSE IF Range(steps) \subseteq open THEN "served" ELSE "broken"]
  /\ UNCHANGED srvOthers

\* The caller goes away; its handler notices in its own time.
CallerLeaves(c) ==
  /\ call[c] \in InFlight
  /\ call' = [call EXCEPT ![c] = IF call[c] = "atGateway" THEN "gone" ELSE "orphan"]
  /\ UNCHANGED srvOthers

Client(c) ==
  \/ \E p \in {"grpc"} \union (options \intersect {"gateway"}) : Connect(c, p)
  \/ Forward(c) \/ HandlerEnds(c) \/ CallerLeaves(c)

\* What the process does by itself.
ServerStep ==
  \/ Load \/ OpenNext \/ Construct \/ ConstructFails \/ Listen \/ ListenerFails
  \/ Close \/ Drained \/ StepBegins \/ StepEnds \/ StepTimesOut \/ Release \/ Exit

ServerNext ==
  \/ ServerStep \/ (\E p \in Ports : Bind(p))
  \/ Signal \/ Route \/ Unroute
  \/ \E c \in Calls : Client(c)

\* Timers fire, goroutines run and the endpoints controller gets around to a
\* terminating pod.  Handlers owe nothing: a watch never ends by itself.
ServerSpec ==
  ServerInit /\ [][ServerNext]_srvVars /\ WF_srvVars(ServerStep) /\ WF_srvVars(Unroute)

-----------------------------------------------------------------------------
(* Properties *)

\* A deploy costs no caller an answer: a call routed here is refused only when a
\* shutdown step has run out of time, and a handler somebody waits for never
\* finds its pool, its limiter or its connection closed (Close, shutdownSteps).
ShutdownLosesNoCall ==
  \A c \in Calls : call[c] # "broken" /\ (call[c] = "refused" => forced)

\* A process that was shut down has closed its pool, its Redis client, its
\* exporter and its in-process pair; one whose New failed half-way has closed
\* what the constructors before the failing one opened (closeOpened, Close).  A
\* process that Run ends with an error calls neither and closes nothing.  New's
\* comment (app.go:72) has everything opened closed, the failing constructor's
\* own included; that does not hold.
ExitReleasesWhatWasBuilt ==
  srvPhase = "exited" => open \subseteq (IF plan = <<>> THEN {} ELSE LeftBy(Head(plan)))

\* After SIGTERM the process ends, whatever its clients and handlers do.
SigtermEndsTheProcess == []<>(~sigterm \/ Ended)
=============================================================================
