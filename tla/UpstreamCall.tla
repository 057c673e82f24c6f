---------------------------- MODULE UpstreamCall ----------------------------
(***************************************************************************)
(* One outbound call of the platform client, made by a handler that is     *)
(* itself answering a call: identity, deadline budget, grpc-go's retries   *)
(* as the service config asks for them, and what the handler's own caller  *)
(* is told.  The connection and the upstream may fail at any point.        *)
(***************************************************************************)
EXTENDS Naturals, ErrorModel

CONSTANTS
  RetryMethods,     \* the methods Options.Retry names; every other one is never replayed
  MaxAttempts,      \* Retry.MaxAttempts, the first attempt included
  DefaultTimeout, MinBudget, ReservePercent,
  MaxInstant        \* bound: the last instant of the model

ASSUME UpstreamAssumption ==
  /\ MaxAttempts \in Nat /\ MaxAttempts >= 2          \* buildServiceConfig
  /\ DefaultTimeout \in Nat \ {0} /\ MinBudget \in Nat \ {0}      \* applyDefaults
  /\ ReservePercent \in 1..99 /\ MaxInstant \in Nat

VARIABLES
  instant,
  step,             \* where the call is
  request,          \* its method and the inbound deadline, NoDeadline if none
  limit,            \* the deadline of the outbound context
  attempts,
  inTransit,        \* attempts the upstream may still carry out
  executions,       \* how often the upstream has done the work
  settled           \* when the call ended, what ended it, and what the handler tells its caller

upstreamVars == <<instant, step, request, limit, attempts, inTransit, executions, settled>>

NoDeadline == MaxInstant + 1
UpMethods == RetryMethods \union {"CreateOrder", "WatchOrders"}
UpStream(m) == m = "WatchOrders"
UpCodes == {"OK", "Unavailable", "ResourceExhausted", "NotFound", "Internal"}
Causes == {"credentials", "budget", "interceptor", "upstream"}
Unsettled == [at |-> NoDeadline, cause |-> "none", status |-> OKStatus]

UpstreamTypeOK ==
  /\ instant \in 0..MaxInstant
  /\ step \in {"idle", "sending", "waiting", "backoff", "settled"}
  /\ request.method \in UpMethods /\ request.deadline \in 0..NoDeadline /\ limit \in 0..NoDeadline
  /\ inTransit + executions <= attempts
  /\ settled.at \in 0..NoDeadline /\ settled.cause \in Causes \union {"none"}

UpstreamInit ==
  /\ instant = 0 /\ step = "idle" /\ limit = NoDeadline
  /\ request = [method |-> "CreateOrder", deadline |-> NoDeadline]
  /\ attempts = 0 /\ inTransit = 0 /\ executions = 0 /\ settled = Unsettled

-----------------------------------------------------------------------------
(* Errors *)

\* Error.Kind: the callee's code, as what is true of this service.
Kind(code) ==
  IF code \in {"Unavailable", "DeadlineExceeded", "Canceled", "ResourceExhausted"}
    THEN "Unavailable" ELSE "Internal"

\* AsAppError: the kind, and the upstream, the method and the code as metadata.
AsAppError(code) ==
  App(Kind(code), IF Kind(code) = "Internal" THEN "private" ELSE "public", "upstream")

\* What a caller is told of a *client.Error: a handler returns it as it is, and
\* its flattened cause is no status, or calls AsAppError.
ClientError(code) == {mapErr(Plain("upstream")), mapErr(AsAppError(code))}

\* newUpstreamError, of what the invoker returned: a status becomes a
\* *client.Error, any other error is passed on.  A stream has no such
\* interceptor: its status passes through.
newUpstreamError(m, e) ==
  IF e.type # "status" \/ UpStream(m) \/ e = OKStatus THEN {mapErr(e)} ELSE ClientError(e.code)

\* The call is over: one of the statuses is what the handler's caller is told.
SettleCall(cause, statuses) ==
  /\ step' = "settled"
  /\ \E st \in statuses : settled' = [at |-> instant, cause |-> cause, status |-> st]

-----------------------------------------------------------------------------
(* The call *)

\* budget, of a context with a deadline: 0 when the call is not worth making.
budget(remaining) ==
  LET allowed == (remaining * (100 - ReservePercent)) \div 100
  IN IF allowed < MinBudget THEN 0 ELSE allowed

\* External: what Credentials.Token may fail with, which unaryIdentity and
\* streamIdentity wrap: an error of its own, that of a context, or the status of
\* a token endpoint (then the text is the whole chain's).
CredentialErrors ==
  {Plain(s) : s \in {"credentials", "Canceled", "DeadlineExceeded"}}
  \union {Status(c, "private") : c \in UpCodes \ {"OK"}}

\* The chain up to the wire: attachIdentity, then the budget (newBudgetError).  A
\* stream's budget only decides whether it is opened.  A limit past the model's
\* last instant is none.
Invoke(m, deadline) ==
  /\ step = "idle"
  /\ request' = [method |-> m, deadline |-> deadline]
  /\ LET allowed == IF deadline = NoDeadline THEN DefaultTimeout ELSE budget(deadline - instant)
     IN \/ /\ \E e \in CredentialErrors : SettleCall("credentials", {mapErr(e)})
           /\ UNCHANGED limit
        \/ /\ allowed = 0 /\ SettleCall("budget", ClientError("DeadlineExceeded"))
           /\ UNCHANGED limit
        \/ /\ allowed > 0 /\ step' = "sending" /\ UNCHANGED settled
           /\ limit' = IF UpStream(m) \/ instant + allowed > MaxInstant
                         THEN deadline ELSE instant + allowed
  /\ UNCHANGED <<instant, attempts, inTransit, executions>>

\* External: an interceptor of Options.DialOptions, which runs below the chain,
\* fails by itself before anything is sent.
InterceptorFails ==
  /\ step = "sending" /\ attempts = 0
  /\ \E s \in {"local", "Canceled", "DeadlineExceeded"} :
       SettleCall("interceptor", newUpstreamError(request.method, Plain(s)))
  /\ UNCHANGED <<instant, request, limit, attempts, inTransit, executions>>

\* The invoker returns a status.
Ends(code) == SettleCall("upstream", newUpstreamError(request.method, Status(code, "public")))

\* Mutant: the retry policy names the service, and so every method of it.
Retryable_Service(code) == code = "Unavailable" /\ attempts < MaxAttempts

\* The service config: UNAVAILABLE only, of the methods it names.
Retryable(code) ==
  code = "Unavailable" /\ request.method \in RetryMethods /\ attempts < MaxAttempts

\* External: grpc-go ends an attempt; it may also be out of retry tokens.
Reply(code) ==
  /\ UNCHANGED <<instant, request, limit, attempts>>
  /\ \/ Ends(code)
     \/ Retryable(code) /\ step' = "backoff" /\ UNCHANGED settled

\* An attempt is written to the connection.
Send ==
  /\ step = "sending"
  /\ step' = "waiting"
  /\ attempts' = attempts + 1 /\ inTransit' = inTransit + 1
  /\ UNCHANGED <<instant, request, limit, executions, settled>>

\* The upstream does the work and answers, or refuses without doing it.
Answered(code) ==
  /\ step = "waiting" /\ inTransit > 0
  /\ inTransit' = inTransit - 1
  /\ executions' \in {executions + 1} \union (IF code = "OK" THEN {} ELSE {executions})
  /\ Reply(code)

\* The connection breaks: the attempt is over here, and perhaps not there.
Broken ==
  /\ step = "waiting" /\ inTransit > 0
  /\ inTransit' \in {inTransit - 1, inTransit}
  /\ UNCHANGED executions
  /\ Reply("Unavailable")

\* An attempt nobody waits for is carried out after all.
LateExecution ==
  /\ inTransit > (IF step = "waiting" THEN 1 ELSE 0)
  /\ inTransit' = inTransit - 1 /\ executions' = executions + 1
  /\ UNCHANGED <<instant, step, request, limit, attempts, settled>>

BackoffEnds ==
  /\ step = "backoff" /\ step' = "sending"
  /\ UNCHANGED <<instant, request, limit, attempts, inTransit, executions, settled>>

UnderWay(s) == s \in {"sending", "waiting", "backoff"}

\* The outbound context expires.
TimesOut ==
  /\ UnderWay(step) /\ instant >= limit
  /\ Ends("DeadlineExceeded")
  /\ UNCHANGED <<instant, request, limit, attempts, inTransit, executions>>

\* Timers are on time: a call does not outlive its context.
InstantPasses ==
  /\ instant < MaxInstant /\ ~(UnderWay(step) /\ instant >= limit)
  /\ instant' = instant + 1
  /\ UNCHANGED <<step, request, limit, attempts, inTransit, executions, settled>>

UpstreamNext ==
  \/ \E m \in UpMethods, d \in 0..NoDeadline : d >= instant /\ Invoke(m, d)
  \/ InterceptorFails \/ Send \/ (\E code \in UpCodes : Answered(code)) \/ Broken
  \/ LateExecution \/ BackoffEnds \/ TimesOut \/ InstantPasses

UpstreamSpec == UpstreamInit /\ [][UpstreamNext]_upstreamVars

-----------------------------------------------------------------------------
(* Properties *)

\* Whatever the network and the upstream do, a method outside the retry policy
\* is carried out at most once, and a call that failed before the wire (over its
\* credentials, its budget or an interceptor) never; a unary call that was sent
\* ends while its handler still has time to say so, as a fault of this service and
\* never with the callee's status or text; only Unavailable names the upstream
\* (Retry, attachIdentity, unaryBudget, newUpstreamError, AsAppError, ToStatus).
\* What a credentials or interceptor error says of itself is passed on.
UpstreamFaultsStayUpstream ==
  /\ request.method \notin RetryMethods => executions <= 1
  /\ settled.cause \in {"credentials", "budget", "interceptor"} => executions = 0
  /\ settled.cause = "upstream" /\ ~UpStream(request.method) => settled.at < request.deadline
  /\ settled.cause = "budget" \/ (settled.cause = "upstream" /\ ~UpStream(request.method)) =>
       /\ settled.status.code \in {"OK", "Unavailable", "Internal"}
       /\ settled.status.text = "public"
       /\ settled.status.metadata # "none" => settled.status.code = "Unavailable"
=============================================================================
