---------------------------- MODULE RequestPath ----------------------------
(***************************************************************************)
(* Concurrent RPCs through the interceptor chain of grpcapi.NewServer and  *)
(* the handlers behind it, inward and outward.  What a step reads from the *)
(* caller (its token, its deadline, its payload) is chosen where the code  *)
(* reads it.  REST calls take the same path (gateway over a bufconn); each *)
(* answer is rendered for them as well, a unary call's by handleError and  *)
(* WatchOrders' by the stream handler of grpc-gateway.                     *)
(***************************************************************************)
EXTENDS Naturals, FiniteSets, Sequences, ErrorModel

CONSTANTS
  Requests,         \* concurrent calls
  AdmissionLimit,   \* Server.AdmissionLimit
  TenantClaims      \* values of the tenant claim; "" when it is missing

ASSUME RequestAssumption == AdmissionLimit \in Nat

VARIABLES
  phase,            \* where each call is
  methodOf,         \* its full method
  ctxErr,           \* ctx.Err(): "live", "Canceled" or "DeadlineExceeded"
  timed,            \* calls whose context has a deadline
  principal,        \* auth.PrincipalFrom(ctx)
  slots,            \* occupied admission slots
  holding,          \* calls whose deferred release is pending
  err,              \* the error on its way out
  answered,         \* the status sent, its HTTP rendering and the code logged
  aborted,          \* history: the handler gave up because ctx was done
  sent              \* streams that have sent a message, and over HTTP the status 200

requestVars == <<phase, methodOf, ctxErr, timed, principal, slots, holding, err, answered, aborted, sent>>

Anonymous == [tenant |-> "", scopes |-> {}]
Pending == [status |-> OKStatus, http |-> 0, logged |-> "none", partial |-> FALSE]

-----------------------------------------------------------------------------
(* The policy and the chains. *)

\* DefaultPolicy: one entry for each kind of rule, the order methods by scope.
policy ==
  [GetOrder    |-> [public |-> FALSE, scopes |-> {"orders:read"}],
   WatchOrders |-> [public |-> FALSE, scopes |-> {"orders:read"}],
   CreateOrder |-> [public |-> FALSE, scopes |-> {"orders:write"}],
   HealthCheck |-> [public |-> TRUE, scopes |-> {}],
   HealthList  |-> [public |-> FALSE, scopes |-> {}]]

\* ValidateCoverage: NewServer serves no method without a rule and knows no rule
\* without a method.
Methods == DOMAIN policy
OrderMethods == {"GetOrder", "WatchOrders", "CreateOrder"}

\* NewServer: the interceptors that decide something, outermost first.  The
\* stream chain has neither Admission nor Validate.
IsStream(m) == m = "WatchOrders"
FirstOf(m) == IF IsStream(m) THEN "auth" ELSE "admission"
After(m, p) ==
  CASE p = "admission" -> "auth"
    [] p = "auth" -> "ratelimit"
    [] p = "ratelimit" -> "deadline"
    [] p = "deadline" -> IF IsStream(m) THEN "handler" ELSE "validate"
    [] p = "validate" -> "handler"

\* Mutant: one of the scopes is enough, and no scope is as good as any.
Check_AnyScope(m, p) == policy[m].scopes = {} \/ p.tenant # ""

\* Policy.Check: every scope of the rule is granted.
Check(m, p) == policy[m].scopes \subseteq p.scopes

\* What tokens can prove: Verify fails, or principalFrom finds a tenant and the
\* scopes the token grants.
Verified(claims) == claims.signed /\ claims.tenant # ""
Tokens ==
  [signed : BOOLEAN, tenant : TenantClaims, scopes : {{}, {"orders:read"}, {"orders:write"}}]

-----------------------------------------------------------------------------
(* State *)

Active == {"admission", "auth", "ratelimit", "deadline", "validate", "handler", "watching",
           "returning", "panicking"}

RequestsTypeOK ==
  /\ phase \in [Requests -> Active \union {"idle"}]
  /\ methodOf \in [Requests -> Methods]
  /\ ctxErr \in [Requests -> {"live", "Canceled", "DeadlineExceeded"}]
  /\ slots \in 0..Cardinality(Requests)
  /\ holding \subseteq Requests /\ timed \subseteq Requests /\ aborted \subseteq Requests
  /\ sent \subseteq Requests

RequestsInit ==
  /\ phase = [r \in Requests |-> "idle"]
  /\ methodOf = [r \in Requests |-> "HealthCheck"]
  /\ ctxErr = [r \in Requests |-> "live"]
  /\ principal = [r \in Requests |-> Anonymous]
  /\ slots = 0 /\ holding = {} /\ timed = {} /\ aborted = {} /\ sent = {}
  /\ err = [r \in Requests |-> OKStatus]
  /\ answered = [r \in Requests |-> Pending]

GoTo(r, p) == phase' = [phase EXCEPT ![r] = p]
Proceed(r) == GoTo(r, After(methodOf[r], phase[r])) /\ UNCHANGED err
Refuse(r, e) == GoTo(r, "returning") /\ err' = [err EXCEPT ![r] = e]
Refusal(k) == App(k, "public", "none")

-----------------------------------------------------------------------------
(* The caller *)

Arrive(r, m) ==
  /\ phase[r] = "idle"
  /\ GoTo(r, FirstOf(m))
  /\ methodOf' = [methodOf EXCEPT ![r] = m]
  /\ timed' \in {timed, timed \union {r}}
  /\ answered' = [answered EXCEPT ![r] = Pending]
  /\ aborted' = aborted \ {r}
  /\ UNCHANGED <<ctxErr, principal, err, slots, holding, sent>>

HangUp(r) ==
  /\ phase[r] \in Active /\ ctxErr[r] = "live"
  /\ ctxErr' = [ctxErr EXCEPT ![r] = "Canceled"]
  /\ UNCHANGED <<phase, methodOf, timed, principal, slots, holding, err, answered, aborted, sent>>

DeadlinePasses(r) ==
  /\ phase[r] \in Active /\ ctxErr[r] = "live" /\ r \in timed
  /\ ctxErr' = [ctxErr EXCEPT ![r] = "DeadlineExceeded"]
  /\ UNCHANGED <<phase, methodOf, timed, principal, slots, holding, err, answered, aborted, sent>>

-----------------------------------------------------------------------------
(* The interceptors, inward *)

TakeSlot(r) == slots' = slots + 1 /\ holding' = holding \union {r}
Capacity == IF AdmissionLimit > 1 THEN AdmissionLimit ELSE 1

Exempt(r) == methodOf[r] = "HealthCheck"

Admission(r) ==
  /\ phase[r] = "admission"
  /\ \/ /\ Exempt(r)
        /\ Proceed(r) /\ UNCHANGED <<slots, holding>>
     \/ /\ ~Exempt(r) /\ ctxErr[r] = "DeadlineExceeded"
        /\ Refuse(r, Refusal("ResourceExhausted")) /\ UNCHANGED <<slots, holding>>
     \/ /\ ~Exempt(r) /\ ctxErr[r] # "DeadlineExceeded" /\ slots < Capacity
        /\ Proceed(r) /\ TakeSlot(r)
     \/ /\ ~Exempt(r) /\ ctxErr[r] # "DeadlineExceeded" /\ slots >= Capacity
        /\ Refuse(r, Refusal("ResourceExhausted")) /\ UNCHANGED <<slots, holding>>
  /\ UNCHANGED <<methodOf, ctxErr, timed, principal, answered, aborted, sent>>

\* authorize: public methods skip verification; otherwise verify, then check.
Auth(r) ==
  /\ phase[r] = "auth"
  /\ IF policy[methodOf[r]].public
       THEN Proceed(r) /\ UNCHANGED principal
       ELSE \E claims \in Tokens :
              LET p == [tenant |-> claims.tenant, scopes |-> claims.scopes]
              IN CASE ~Verified(claims) ->
                        Refuse(r, Refusal("Unauthenticated")) /\ UNCHANGED principal
                   [] Verified(claims) /\ ~Check(methodOf[r], p) ->
                        Refuse(r, Refusal("PermissionDenied")) /\ UNCHANGED principal
                   [] OTHER ->
                        Proceed(r) /\ principal' = [principal EXCEPT ![r] = p]
  /\ UNCHANGED <<methodOf, ctxErr, timed, slots, holding, answered, aborted, sent>>

\* checkQuota: no tenant, no quota; a limiter that fails admits the call; a
\* refusal says when to come back.
CheckQuota(r) ==
  /\ phase[r] = "ratelimit"
  /\ \/ Proceed(r)
     \/ principal[r].tenant # "" /\ Refuse(r, App("ResourceExhausted", "public", "retry_after"))
  /\ UNCHANGED <<methodOf, ctxErr, timed, principal, slots, holding, answered, aborted, sent>>

\* Mutant: only a deadline that is too long is dealt with.
Deadline_OnlyClamp(r) ==
  /\ phase[r] = "deadline"
  /\ Proceed(r)
  /\ UNCHANGED <<methodOf, ctxErr, timed, principal, slots, holding, answered, aborted, sent>>

\* A unary call without a deadline gets the default, and one whose deadline is too
\* long the maximum; a stream without one gets the maximum, and its own is left
\* alone.  From here on the call has a deadline; how long is not told apart.
Deadline(r) ==
  /\ phase[r] = "deadline"
  /\ timed' = timed \union {r}
  /\ Proceed(r)
  /\ UNCHANGED <<methodOf, ctxErr, principal, slots, holding, answered, aborted, sent>>

\* A message without rules always passes; toBadRequest tells the caller's fault
\* from the engine's.
Validate(r) ==
  /\ phase[r] = "validate"
  /\ \/ Proceed(r)
     \/ methodOf[r] \in OrderMethods
        /\ \E e \in {Refusal("InvalidArgument"), App("Internal", "private", "none")} : Refuse(r, e)
  /\ UNCHANGED <<methodOf, ctxErr, timed, principal, slots, holding, answered, aborted, sent>>

-----------------------------------------------------------------------------
(* The handlers *)

\* What the domain and the store can answer.
DomainErrors(m) ==
  CASE m = "GetOrder" -> {"ErrNotFound", "driver"}
    [] m = "CreateOrder" -> {"ErrInvalidItem", "ErrMoney", "ErrDuplicate", "driver"}
    [] m = "WatchOrders" -> {"driver"}
    [] OTHER -> {}

\* WatchOrders sends a snapshot, of which some, or all, or nothing gets out.
SendsSome(r) == sent' \in {sent, sent \union (IF IsStream(methodOf[r]) THEN {r} ELSE {})}

\* tenantOf finds the tenant of the principal that Auth attached.
Handle(r) ==
  /\ phase[r] = "handler"
  /\ \/ /\ methodOf[r] # "WatchOrders"
        /\ GoTo(r, "returning") /\ UNCHANGED <<err, sent>>
     \/ /\ methodOf[r] = "WatchOrders"          \* the snapshot is sent
        /\ GoTo(r, "watching") /\ UNCHANGED err /\ SendsSome(r)
     \/ /\ \E s \in DomainErrors(methodOf[r]) : Refuse(r, asAppError(Plain(s)))
        /\ UNCHANGED sent
     \/ /\ methodOf[r] = "WatchOrders"          \* stream.Send failed
        /\ Refuse(r, Status("Unavailable", "public")) /\ SendsSome(r)
  /\ UNCHANGED <<methodOf, ctxErr, timed, principal, slots, holding, answered, aborted>>

\* The store's call returns because ctx is done.
StoreGivesUp(r) ==
  /\ phase[r] = "handler" /\ methodOf[r] \in OrderMethods /\ ctxErr[r] # "live"
  /\ Refuse(r, asAppError(Plain(ctxErr[r])))
  /\ aborted' = aborted \union {r}
  /\ UNCHANGED <<methodOf, ctxErr, timed, principal, slots, holding, answered, sent>>

\* WatchOrders holds the stream open until ctx is done.
WatchEnds(r) ==
  /\ phase[r] = "watching" /\ ctxErr[r] # "live"
  /\ Refuse(r, Plain(ctxErr[r]))
  /\ aborted' = aborted \union {r}
  /\ UNCHANGED <<methodOf, ctxErr, timed, principal, slots, holding, answered, sent>>

HandlerPanics(r) ==
  /\ phase[r] = "handler" /\ methodOf[r] \in OrderMethods
  /\ GoTo(r, "panicking") /\ SendsSome(r)
  /\ UNCHANGED <<methodOf, ctxErr, timed, principal, slots, holding, err, answered, aborted>>

-----------------------------------------------------------------------------
(* Outward *)

\* The deferred release of Admission.
ReleaseSlot(r) ==
  /\ slots' = IF r \in holding THEN slots - 1 ELSE slots
  /\ holding' = holding \ {r}

\* Over HTTP a stream's status went out with its first message; the failure is
\* then a trailing chunk of a 200.  Before, the status is grpc-gateway's.
HTTPStatus(r, st) ==
  CASE ~IsStream(methodOf[r]) -> handleError(st).status
    [] IsStream(methodOf[r]) /\ r \in sent -> 200
    [] OTHER -> runtimeHTTPStatus(st.code)

Answer(r, st, logged) ==
  answered' = [answered EXCEPT ![r] =
                 [status |-> st, http |-> HTTPStatus(r, st), logged |-> logged, partial |-> r \in sent]]

\* The call's context ends with it.
EndCall(r) ==
  /\ GoTo(r, "idle")
  /\ ctxErr' = [ctxErr EXCEPT ![r] = "live"]
  /\ timed' = timed \ {r}
  /\ principal' = [principal EXCEPT ![r] = Anonymous]
  /\ err' = [err EXCEPT ![r] = OKStatus]
  /\ sent' = sent \ {r}

\* ErrorMap, then Logging, then the answer.
Return(r) ==
  /\ phase[r] = "returning"
  /\ EndCall(r)
  /\ ReleaseSlot(r)
  /\ LET st == mapErr(err[r]) IN Answer(r, st, st.code)
  /\ UNCHANGED <<methodOf, aborted>>

\* Mutant: the release is a statement after the call, not deferred.
Recover_KeepingSlot(r) ==
  /\ phase[r] = "panicking"
  /\ EndCall(r)
  /\ holding' = holding \ {r}
  /\ Answer(r, ToStatus(App("Internal", "private", "none")), "none")
  /\ UNCHANGED <<methodOf, slots, aborted>>

\* Mutant: the panic's error is left for grpc-go to map.
Recover_Unmapped(r) ==
  /\ phase[r] = "panicking"
  /\ EndCall(r)
  /\ ReleaseSlot(r)
  /\ Answer(r, Unmapped(App("Internal", "private", "none")), "none")
  /\ UNCHANGED <<methodOf, aborted>>

\* A panic passes Admission, which releases, ErrorMap and Logging, which see
\* nothing, and ends in Recovery, which maps its own error.
Recover(r) ==
  /\ phase[r] = "panicking"
  /\ EndCall(r)
  /\ ReleaseSlot(r)
  /\ Answer(r, ToStatus(App("Internal", "private", "none")), "none")
  /\ UNCHANGED <<methodOf, aborted>>

\* Steps the server owes every call.  A handler's own return is not among them:
\* a query may hang until its context ends.
RequestProgress(r) ==
  \/ Admission(r) \/ Auth(r) \/ CheckQuota(r) \/ Deadline(r) \/ Validate(r)
  \/ StoreGivesUp(r) \/ WatchEnds(r)
  \/ Return(r) \/ Recover(r)
  \/ methodOf[r] \notin OrderMethods /\ Handle(r)

RequestsNext ==
  \E r \in Requests :
    \/ \E m \in Methods : Arrive(r, m)
    \/ HangUp(r)
    \/ DeadlinePasses(r)
    \/ Admission(r)
    \/ Auth(r)
    \/ CheckQuota(r)
    \/ Deadline(r)
    \/ Validate(r)
    \/ Handle(r)
    \/ StoreGivesUp(r)
    \/ WatchEnds(r)
    \/ HandlerPanics(r)
    \/ Return(r)
    \/ Recover(r)

\* Time passes, goroutines run, and the database driver honours its context.
RequestsSpec ==
  /\ RequestsInit /\ [][RequestsNext]_requestVars
  /\ \A r \in Requests : WF_requestVars(RequestProgress(r)) /\ WF_requestVars(DeadlinePasses(r))

-----------------------------------------------------------------------------
(* Properties *)

\* The occupied slots are those of the calls inside Admission, on every path out
\* of a handler, and never more than the limit (admission.go, the deferred release).
SlotsMatchCalls ==
  /\ slots = Cardinality(holding)
  /\ slots <= Capacity
  /\ \A r \in holding : phase[r] # "idle"

\* A handler of the order service runs only for a verified principal that has a
\* tenant and every scope of the method's rule, on both chains (authorize).
OnlyAuthorisedCallsAreHandled ==
  \A r \in Requests :
    phase[r] \in {"handler", "watching", "panicking"} /\ ~policy[methodOf[r]].public
      => principal[r].tenant # "" /\ policy[methodOf[r]].scopes \subseteq principal[r].scopes

\* Every answer, also that of a panic or a failed engine, is a mapped code with
\* no private text; the access log has the code the caller got, unless a panic
\* kept it from logging (Recovery, ErrorMap, Logging).  Over HTTP it is the status
\* of apperr's table, 500 for this service's own faults only and 200 for a
\* success only, also where grpc-gateway's table decides; all but the failure of a
\* stream that has already sent a message (gateway/errors.go).
AnswersAreMapped ==
  \A r \in Requests :
    LET a == answered[r] IN
      /\ a.status.code \in {"OK"} \union {GRPCCode(k) : k \in Kinds}
      /\ a.status.text = "public"
      /\ a.logged \in {a.status.code, "none"}
      /\ a.partial \/ a.http \in {0, HTTPStatusFromCode(a.status.code)}
      /\ a.http = 500 => a.status.code = "Internal"
      /\ a.http = 200 => a.status.code = "OK" \/ a.partial

\* Every call is answered, whether the client set a deadline or none, and although
\* a query may hang as long as its context lives (Deadline).
CallsAreAnswered == \A r \in Requests : []<>(phase[r] = "idle")

\* apperr.go says of a cancelled call that it "is not KindInternal": a handler
\* that gives up because its caller did answers Canceled or DeadlineExceeded.
CancellationIsNotInternal ==
  \A r \in aborted : phase[r] = "idle" => answered[r].status.code # "Internal"
=============================================================================
