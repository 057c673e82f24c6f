----------------------------- MODULE MCPlatform -----------------------------
(***************************************************************************)
(* The platform's components side by side, for model checking.  They share *)
(* no variable: a behaviour picks one of Parts and is a behaviour of it,   *)
(* with the fairness of its own specification, while the rest stand still. *)
(***************************************************************************)
EXTENDS KeyCache, RateLimit, RequestPath, UpstreamCall, ServerLifecycle, WorkerProcess,
        Money, OrderListing, EventRetention

CONSTANTS
  Parts             \* the components to exercise

VARIABLES
  part              \* the one this behaviour exercises

platformVars == <<part, keysVars, rateVars, requestVars, upstreamVars, srvVars, wkVars, moneyVars,
                  listVars, retentionVars>>

PlatformTypeOK ==
  /\ KeysTypeOK /\ RateTypeOK /\ RequestsTypeOK /\ UpstreamTypeOK
  /\ ServerTypeOK /\ WorkerTypeOK /\ MoneyTypeOK /\ ListingTypeOK /\ RetentionTypeOK

PlatformInit ==
  /\ part \in Parts
  /\ KeysInit /\ RateInit /\ RequestsInit /\ UpstreamInit
  /\ ServerInit /\ WorkerInit /\ MoneyInit /\ ListingInit /\ RetentionInit

\* Step A of one component.
OfKeys(A) ==
  /\ part = "keys" /\ A
  /\ UNCHANGED <<part, rateVars, requestVars, upstreamVars, srvVars, wkVars, moneyVars, listVars,
                 retentionVars>>
OfRequests(A) ==
  /\ part = "requests" /\ A
  /\ UNCHANGED <<part, keysVars, rateVars, upstreamVars, srvVars, wkVars, moneyVars, listVars,
                 retentionVars>>
OfServer(A) ==
  /\ part = "server" /\ A
  /\ UNCHANGED <<part, keysVars, rateVars, requestVars, upstreamVars, wkVars, moneyVars, listVars,
                 retentionVars>>
OfWorker(A) ==
  /\ part = "worker" /\ A
  /\ UNCHANGED <<part, keysVars, rateVars, requestVars, upstreamVars, srvVars, moneyVars,
                 listVars, retentionVars>>

PlatformNext ==
  \/ OfKeys(KeysNext)
  \/ OfRequests(RequestsNext)
  \/ OfServer(ServerNext)
  \/ OfWorker(WorkerNext)
  \/ /\ part = "rate" /\ RateNext
     /\ UNCHANGED <<part, keysVars, requestVars, upstreamVars, srvVars, wkVars, moneyVars,
                    listVars, retentionVars>>
  \/ /\ part = "upstream" /\ UpstreamNext
     /\ UNCHANGED <<part, keysVars, rateVars, requestVars, srvVars, wkVars, moneyVars, listVars,
                    retentionVars>>
  \/ /\ part = "money" /\ MoneyNext
     /\ UNCHANGED <<part, keysVars, rateVars, requestVars, upstreamVars, srvVars, wkVars,
                    listVars, retentionVars>>
  \/ /\ part = "listing" /\ ListingNext
     /\ UNCHANGED <<part, keysVars, rateVars, requestVars, upstreamVars, srvVars, wkVars,
                    moneyVars, retentionVars>>
  \/ /\ part = "retention" /\ RetentionNext
     /\ UNCHANGED <<part, keysVars, rateVars, requestVars, upstreamVars, srvVars, wkVars,
                    moneyVars, listVars>>

\* The fairness of KeysSpec, RequestsSpec, ServerSpec and WorkerSpec.
PlatformFairness ==
  /\ WF_platformVars(OfKeys(IssuerAnswers))
  /\ \A c \in Callers : WF_platformVars(OfKeys(KeysProgress(c)))
  /\ \A r \in Requests : /\ WF_platformVars(OfRequests(RequestProgress(r)))
                         /\ WF_platformVars(OfRequests(DeadlinePasses(r)))
  /\ WF_platformVars(OfServer(ServerStep))
  /\ WF_platformVars(OfServer(Unroute))
  /\ WF_platformVars(OfWorker(WorkerStart \/ Wait \/ WorkerExit))
  /\ \A l \in Loops : WF_platformVars(OfWorker(wkPhase # "exited" /\ LoopStep(l)))
  /\ WF_platformVars(OfWorker(wkPhase # "exited" /\ HandlerReturns))
  /\ SF_platformVars(OfWorker(wkPhase # "exited" /\ Acquire("relay")))

PlatformSpec == PlatformInit /\ [][PlatformNext]_platformVars /\ PlatformFairness

\* After SIGTERM a process ends, whatever its clients, its handlers, the broker
\* and the database do: every wait on the way out has a deadline of its own
\* (app.Close and Shutdown; the worker's run, quarantine, observeOnce, Consumer.Run).
SigtermEndsProcesses == SigtermEndsTheProcess /\ WorkerEnds
=============================================================================
