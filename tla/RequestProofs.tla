---------------------------- MODULE RequestProofs ----------------------------
(***************************************************************************)
(* Proofs about a call on its way in and on its way out: RequestPath and   *)
(* UpstreamCall, over the error model they share.  For any number of       *)
(* concurrent calls, any admission limit, and any retry policy and budget. *)
(***************************************************************************)
EXTENDS RequestPath, UpstreamCall, FiniteSetTheorems, TLAPS

-----------------------------------------------------------------------------
(* The error model *)

\* A status a caller may see: a mapped code, with no driver or panic text.
SafeStatus(st) ==
  /\ st.code \in {"OK"} \union {GRPCCode(k) : k \in Kinds}
  /\ st.text = "public"

\* An error that ErrorMap turns into one.
SafeError(e) ==
  \/ e.type = "status" /\ SafeStatus(e)
  \/ e.type = "plain"
  \/ /\ e.type = "app" /\ e.kind \in Kinds
     /\ Redacts(e.kind) \/ e.text = "public"

\* mapErr and ToStatus: what is not a status is redacted or public already.
LEMMA MappedErrorsAreSafe ==
  ASSUME NEW e, SafeError(e)
  PROVE  SafeStatus(mapErr(e))
  <1>1. CASE e.type = "status"
    BY <1>1 DEF SafeError, mapErr
  <1>2. CASE e.type = "plain"
    <2>1. classify(e.sentinel) \in {App("Canceled", "public", "none"),
                                    App("DeadlineExceeded", "public", "none"),
                                    App("Internal", "private", "none")}
      BY DEF classify
    <2>2. QED BY <1>2, <2>1 DEF mapErr, ToStatus, SafeStatus, App, Kinds, GRPCCode, Redacts
  <1>3. CASE e.type = "app"
    BY <1>3 DEF SafeError, mapErr, ToStatus, SafeStatus
  <1>4. QED BY <1>1, <1>2, <1>3 DEF SafeError

\* HTTPStatusFromCode: only Internal is rendered as 500 and only OK as 200, and
\* for every code this service answers with grpc-gateway's table agrees.
LEMMA StatusesAgree ==
  ASSUME NEW st, SafeStatus(st)
  PROVE  /\ HTTPStatusFromCode(st.code) = 500 => st.code = "Internal"
         /\ HTTPStatusFromCode(st.code) = 200 => st.code = "OK"
         /\ runtimeHTTPStatus(st.code) = HTTPStatusFromCode(st.code)
  <1>1. /\ \A k \in Kinds : kindStatus[k] = 500 => k \in {"Internal", "Unknown"}
        /\ \A k \in Kinds : kindStatus[k] # 200
    BY DEF kindStatus, Kinds
  <1>2. CASE st.code = "OK"
    BY <1>2 DEF HTTPStatusFromCode, runtimeHTTPStatus, GRPCCode, Kinds
  <1>3. CASE \E k \in Kinds : GRPCCode(k) = st.code
    <2> DEFINE kind == CHOOSE k \in Kinds : GRPCCode(k) = st.code
    <2>1. kind \in Kinds /\ GRPCCode(kind) = st.code
      BY <1>3
    <2>2. st.code \notin {"OK", "Unimplemented"}
      BY <1>3 DEF Kinds, GRPCCode
    <2>3. HTTPStatusFromCode(st.code) = kindStatus[kind]
      BY <1>3, <2>2 DEF HTTPStatusFromCode
    <2> HIDE DEF kind
    <2>4. kind \in {"Internal", "Unknown"} => st.code = "Internal"
      BY <2>1 DEF GRPCCode
    <2>5. kindStatus[kind] = 500 => kind \in {"Internal", "Unknown"}
      BY <1>1, <2>1
    <2>6. \A k \in Kinds : runtimeHTTPStatus(GRPCCode(k)) = kindStatus[k]
      BY DEF runtimeHTTPStatus, kindStatus, Kinds, GRPCCode
    <2>7. runtimeHTTPStatus(st.code) = kindStatus[kind] /\ kindStatus[kind] # 200
      BY <1>1, <2>1, <2>6
    <2>8. QED BY <2>3, <2>4, <2>5, <2>7
  <1>4. st.code = "OK" \/ \E k \in Kinds : GRPCCode(k) = st.code
    BY DEF SafeStatus
  <1>5. QED BY <1>2, <1>3, <1>4

\* The errors the interceptors and the handlers return.
LEMMA ReturnedErrorsAreSafe ==
  /\ SafeError(OKStatus) /\ SafeError(Status("Unavailable", "public"))
  /\ \A s : SafeError(Plain(s)) /\ SafeError(asAppError(Plain(s)))
  /\ \A k \in Kinds : \A m : SafeError(App(k, "public", m))
  /\ SafeError(App("Internal", "private", "none"))
  <1>1. SafeError(OKStatus) /\ SafeError(Status("Unavailable", "public"))
    BY DEF SafeError, SafeStatus, OKStatus, Status, Kinds, GRPCCode
  <1>2. \A s : SafeError(Plain(s))
    BY DEF SafeError, Plain
  <1>3. /\ \A k \in Kinds : \A m : SafeError(App(k, "public", m))
        /\ SafeError(App("Internal", "private", "none"))
    BY DEF SafeError, App, Kinds, Redacts
  <1>4. ASSUME NEW s PROVE SafeError(asAppError(Plain(s)))
    <2> DEFINE k == DomainErrorKind(s)
    <2>1. k \in {"NotFound", "AlreadyExists", "FailedPrecondition", "InvalidArgument", "Internal"}
      BY DEF DomainErrorKind
    <2>2. asAppError(Plain(s)) = App(k, IF Redacts(k) THEN "private" ELSE "public", "none")
      BY DEF asAppError, Plain
    <2> HIDE DEF k
    <2>3. QED BY <2>1, <2>2 DEF SafeError, App, Kinds, Redacts
  <1>5. QED BY <1>1, <1>2, <1>3, <1>4

-----------------------------------------------------------------------------
(* The interceptor chain *)

\* The functions of the state are functions of the calls.
CallsTyped ==
  /\ phase \in [Requests -> Active \union {"idle"}]
  /\ methodOf \in [Requests -> Methods]
  /\ ctxErr \in [Requests -> {"live", "Canceled", "DeadlineExceeded"}]
  /\ holding \subseteq Requests /\ timed \subseteq Requests /\ aborted \subseteq Requests
  /\ sent \subseteq Requests
  /\ DOMAIN principal = Requests /\ DOMAIN err = Requests /\ DOMAIN answered = Requests

\* A call that has yet to pass Admission holds no slot.
SlotsAreCounted ==
  /\ IsFiniteSet(holding)
  /\ SlotsMatchCalls
  /\ \A r \in holding : phase[r] # "admission"

\* Past Auth, a method that is not public has its principal.
PrincipalsAreSet ==
  \A r \in Requests :
    phase[r] \in {"ratelimit", "deadline", "validate", "handler", "watching", "panicking"}
      /\ ~policy[methodOf[r]].public
      => principal[r].tenant # "" /\ policy[methodOf[r]].scopes \subseteq principal[r].scopes

\* Whatever is on its way out can be mapped.
ErrorsAreSafe == \A r \in Requests : SafeError(err[r])

\* The inductive strengthening of the three safety properties.
RInv == CallsTyped /\ SlotsAreCounted /\ PrincipalsAreSet /\ ErrorsAreSafe /\ AnswersAreMapped

\* A step of one call.
CallStep(r) ==
  \/ \E m \in Methods : Arrive(r, m)
  \/ HangUp(r) \/ DeadlinePasses(r) \/ Admission(r) \/ Auth(r) \/ CheckQuota(r) \/ Deadline(r)
  \/ Validate(r) \/ Handle(r) \/ StoreGivesUp(r) \/ WatchEnds(r) \/ HandlerPanics(r)
  \/ Return(r) \/ Recover(r)

\* What After returns for the phases that proceed.
LEMMA ChainOrder ==
  \A m : /\ After(m, "admission") = "auth" /\ After(m, "auth") = "ratelimit"
         /\ After(m, "ratelimit") = "deadline"
         /\ After(m, "deadline") \in {"handler", "validate"}
         /\ After(m, "validate") = "handler"
         /\ FirstOf(m) \in {"auth", "admission"}
  BY DEF After, FirstOf

\* Admitted or refused, the quota check changes the call's phase and error only.
LEMMA QuotaOutcomes ==
  ASSUME NEW r, CheckQuota(r)
  PROVE  /\ phase[r] = "ratelimit"
         /\ UNCHANGED <<methodOf, ctxErr, timed, principal, slots, holding, answered, aborted, sent>>
         /\ \E p \in {"deadline", "returning"} : phase' = [phase EXCEPT ![r] = p]
         /\ err' = err \/ \E e : err' = [err EXCEPT ![r] = e]
  <1>1. /\ phase[r] = "ratelimit"
        /\ UNCHANGED <<methodOf, ctxErr, timed, principal, slots, holding, answered, aborted, sent>>
        /\ Proceed(r) \/ Refuse(r, App("ResourceExhausted", "public", "retry_after"))
    BY DEF CheckQuota
  <1>2. After(methodOf[r], phase[r]) = "deadline"
    BY <1>1, ChainOrder
  <1>3. QED BY <1>1, <1>2 DEF Proceed, Refuse, GoTo

\* authorize: a public method passes, a token is refused, or its principal, which
\* has a tenant and the scopes of the rule, is attached.
LEMMA AuthOutcomes ==
  ASSUME NEW r, Auth(r)
  PROVE  /\ phase[r] = "auth" /\ UNCHANGED <<methodOf, ctxErr, timed, slots, holding, answered, aborted, sent>>
         /\ \/ Proceed(r) /\ UNCHANGED principal /\ policy[methodOf[r]].public
            \/ /\ \E k \in {"Unauthenticated", "PermissionDenied"} : Refuse(r, Refusal(k))
               /\ UNCHANGED principal
            \/ \E p : /\ Proceed(r) /\ principal' = [principal EXCEPT ![r] = p]
                      /\ p.tenant # "" /\ policy[methodOf[r]].scopes \subseteq p.scopes
  <1>1. CASE policy[methodOf[r]].public
    BY <1>1 DEF Auth
  <1>2. CASE ~policy[methodOf[r]].public
    <2>1. PICK claims \in Tokens :
            LET p == [tenant |-> claims.tenant, scopes |-> claims.scopes]
            IN CASE ~Verified(claims) ->
                      Refuse(r, Refusal("Unauthenticated")) /\ UNCHANGED principal
                 [] Verified(claims) /\ ~Check(methodOf[r], p) ->
                      Refuse(r, Refusal("PermissionDenied")) /\ UNCHANGED principal
                 [] OTHER ->
                      Proceed(r) /\ principal' = [principal EXCEPT ![r] = p]
      BY <1>2 DEF Auth
    <2> DEFINE p == [tenant |-> claims.tenant, scopes |-> claims.scopes]
    <2>2. CASE ~Verified(claims) \/ ~Check(methodOf[r], p)
      BY <2>1, <2>2 DEF Auth
    <2>3. CASE Verified(claims) /\ Check(methodOf[r], p)
      <3>1. principal' = [principal EXCEPT ![r] = p] /\ Proceed(r)
        BY <2>1, <2>3
      <3>2. p.tenant # "" /\ policy[methodOf[r]].scopes \subseteq p.scopes
        BY <2>3 DEF Verified, Check
      <3>3. QED BY <3>1, <3>2 DEF Auth
    <2>4. QED BY <2>2, <2>3
  <1>3. QED BY <1>1, <1>2

\* No call has arrived: the invariant holds.
LEMMA InitRInv == RequestsInit => RInv
  <1> SUFFICES ASSUME RequestsInit PROVE RInv
    OBVIOUS
  <1>1. CallsTyped
    BY DEF RequestsInit, CallsTyped, Methods, policy
  <1>2. SlotsAreCounted
    <2>1. Capacity \in Nat
      BY RequestAssumption DEF Capacity
    <2>2. QED BY <2>1, FS_EmptySet DEF RequestsInit, SlotsAreCounted, SlotsMatchCalls
  <1>3. PrincipalsAreSet
    BY DEF RequestsInit, PrincipalsAreSet
  <1>4. ErrorsAreSafe
    BY ReturnedErrorsAreSafe DEF RequestsInit, ErrorsAreSafe
  <1>5. AnswersAreMapped
    BY DEF RequestsInit, AnswersAreMapped, Pending, OKStatus, Status
  <1>6. QED BY <1>1, <1>2, <1>3, <1>4, <1>5 DEF RInv

\* Every step keeps the state typed.
LEMMA StepsKeepTypes ==
  ASSUME CallsTyped, RequestsNext
  PROVE  CallsTyped'
  <1> PICK r \in Requests : CallStep(r)
    BY DEF RequestsNext, CallStep
  <1> USE DEF CallsTyped, GoTo, Proceed, Refuse, Active
  <1>1. CASE (\E m \in Methods : Arrive(r, m)) \/ HangUp(r) \/ DeadlinePasses(r)
    BY <1>1, ChainOrder DEF Arrive, HangUp, DeadlinePasses
  <1>2. CASE Admission(r)
    BY <1>2, ChainOrder DEF Admission, TakeSlot
  <1>3. CASE Auth(r)
    <2>1. After(methodOf[r], phase[r]) = "ratelimit"
      BY <1>3, AuthOutcomes, ChainOrder
    <2>2. \E p : phase' = [phase EXCEPT ![r] = p] /\ p \in {"ratelimit", "returning"}
      BY <1>3, <2>1, AuthOutcomes
    <2>3. DOMAIN principal' = Requests /\ DOMAIN err' = Requests
      BY <1>3, AuthOutcomes
    <2>4. QED BY <1>3, <2>2, <2>3, AuthOutcomes
  <1>4. CASE CheckQuota(r) \/ Deadline(r) \/ Validate(r)
    <2>1. CASE CheckQuota(r)
      BY <2>1, QuotaOutcomes
    <2>2. CASE Deadline(r)
      BY <2>2, ChainOrder DEF Deadline
    <2>3. CASE Validate(r)
      BY <2>3, ChainOrder DEF Validate
    <2>4. QED BY <1>4, <2>1, <2>2, <2>3
  <1>5. CASE Handle(r) \/ StoreGivesUp(r) \/ WatchEnds(r) \/ HandlerPanics(r)
    BY <1>5 DEF Handle, StoreGivesUp, WatchEnds, HandlerPanics, SendsSome
  <1>6. CASE Return(r) \/ Recover(r)
    BY <1>6 DEF Return, Recover, EndCall, ReleaseSlot, Answer
  <1>7. QED BY <1>1, <1>2, <1>3, <1>4, <1>5, <1>6 DEF CallStep

\* Admission takes a slot for a call that holds none; every way out gives back
\* exactly the one that was taken.
LEMMA StepsKeepSlots ==
  ASSUME CallsTyped, SlotsAreCounted, RequestsNext
  PROVE  SlotsAreCounted'
  <1> PICK r \in Requests : CallStep(r)
    BY DEF RequestsNext, CallStep
  <1> USE DEF GoTo, Proceed, Refuse, CallsTyped
  <1>1. Capacity \in Nat /\ Cardinality(holding) \in Nat /\ IsFiniteSet(holding)
    BY RequestAssumption, FS_CardinalityType DEF Capacity, SlotsAreCounted
  <1>2. ASSUME UNCHANGED <<slots, holding>>,
               \E p : phase' = [phase EXCEPT ![r] = p] /\ (r \in holding => p \notin {"idle", "admission"})
        PROVE  SlotsAreCounted'
    BY <1>2 DEF SlotsAreCounted, SlotsMatchCalls
  <1>3. CASE \E m \in Methods : Arrive(r, m)
    BY <1>2, <1>3 DEF Arrive, SlotsAreCounted, SlotsMatchCalls
  <1>4. CASE HangUp(r) \/ DeadlinePasses(r)
    BY <1>4 DEF HangUp, DeadlinePasses, SlotsAreCounted, SlotsMatchCalls
  <1>5. CASE Admission(r)
    <2>1. r \notin holding
      BY <1>5 DEF Admission, SlotsAreCounted
    <2>2. CASE UNCHANGED <<slots, holding>>
      BY <1>2, <1>5, <2>1, <2>2 DEF Admission
    <2>3. CASE TakeSlot(r) /\ slots < Capacity /\ Proceed(r)
      <3>1. Cardinality(holding') = Cardinality(holding) + 1 /\ IsFiniteSet(holding')
        BY <1>1, <2>1, <2>3, FS_AddElement DEF TakeSlot
      <3>2. slots' <= Capacity
        BY <1>1, <2>3 DEF TakeSlot, SlotsAreCounted, SlotsMatchCalls
      <3>3. phase'[r] = "auth"
        BY <1>5, <2>3, ChainOrder DEF Admission
      <3>4. \A s \in holding : phase'[s] \notin {"idle", "admission"}
        BY <2>1, <2>3 DEF SlotsAreCounted, SlotsMatchCalls
      <3>5. QED BY <1>1, <2>3, <3>1, <3>2, <3>3, <3>4 DEF TakeSlot, SlotsAreCounted, SlotsMatchCalls
    <2>4. QED BY <1>5, <2>2, <2>3 DEF Admission
  <1>6. CASE Auth(r)
    <2>1. After(methodOf[r], phase[r]) = "ratelimit"
      BY <1>6, AuthOutcomes, ChainOrder
    <2>2. \E p : phase' = [phase EXCEPT ![r] = p] /\ p \in {"ratelimit", "returning"}
      BY <1>6, <2>1, AuthOutcomes
    <2>3. QED BY <1>2, <1>6, <2>2, AuthOutcomes
  <1>7. CASE CheckQuota(r) \/ Deadline(r) \/ Validate(r)
    <2>1. CASE CheckQuota(r)
      BY <1>2, <2>1, QuotaOutcomes
    <2>2. CASE Deadline(r)
      BY <1>2, <2>2, ChainOrder DEF Deadline
    <2>3. CASE Validate(r)
      BY <1>2, <2>3, ChainOrder DEF Validate
    <2>4. QED BY <1>7, <2>1, <2>2, <2>3
  <1>8. CASE Handle(r) \/ StoreGivesUp(r) \/ WatchEnds(r) \/ HandlerPanics(r)
    BY <1>2, <1>8 DEF Handle, StoreGivesUp, WatchEnds, HandlerPanics
  <1>9. CASE Return(r) \/ Recover(r)
    <2>1. phase' = [phase EXCEPT ![r] = "idle"] /\ ReleaseSlot(r)
      BY <1>9 DEF Return, Recover, EndCall
    <2>2. /\ IsFiniteSet(holding \ {r})
          /\ Cardinality(holding \ {r}) = IF r \in holding THEN Cardinality(holding) - 1
                                                           ELSE Cardinality(holding)
      BY <1>1, FS_RemoveElement
    <2>3. QED BY <1>1, <2>1, <2>2 DEF ReleaseSlot, SlotsAreCounted, SlotsMatchCalls
  <1>10. QED BY <1>3, <1>4, <1>5, <1>6, <1>7, <1>8, <1>9 DEF CallStep

\* Only Auth lets a call past, with the principal it checked, and only the end of
\* the call forgets it.
LEMMA StepsKeepPrincipals ==
  ASSUME CallsTyped, PrincipalsAreSet, RequestsNext
  PROVE  PrincipalsAreSet'
  <1> PICK r \in Requests : CallStep(r)
    BY DEF RequestsNext, CallStep
  <1> USE DEF GoTo, Proceed, Refuse, CallsTyped
  <1>0. ASSUME NEW p \in {"admission", "auth", "returning"}, phase' = [phase EXCEPT ![r] = p],
               principal' = principal, \A s \in Requests : s # r => methodOf'[s] = methodOf[s]
        PROVE  PrincipalsAreSet'
    <2>1. \A s \in Requests : s # r => phase'[s] = phase[s]
      BY <1>0
    <2>2. phase'[r] \in {"admission", "auth", "returning"}
      BY <1>0
    <2>3. QED BY <1>0, <2>1, <2>2 DEF PrincipalsAreSet
  <1>1. CASE \E m \in Methods : Arrive(r, m)
    <2>1. PICK m \in Methods : Arrive(r, m)
      BY <1>1
    <2>2. FirstOf(m) \in {"auth", "admission"}
      BY ChainOrder
    <2>3. QED BY <1>0, <2>1, <2>2 DEF Arrive
  <1>2. CASE HangUp(r) \/ DeadlinePasses(r)
    BY <1>2 DEF HangUp, DeadlinePasses, PrincipalsAreSet
  <1>3. CASE Admission(r)
    <2>1. After(methodOf[r], phase[r]) = "auth"
      BY <1>3, ChainOrder DEF Admission
    <2>2. QED BY <1>0, <1>3, <2>1 DEF Admission
  <1>4. CASE Auth(r)
    <2>1. methodOf' = methodOf
      BY <1>4, AuthOutcomes
    <2>2. CASE Proceed(r) /\ UNCHANGED principal /\ policy[methodOf[r]].public
      BY <2>1, <2>2 DEF PrincipalsAreSet
    <2>3. CASE /\ \E k \in {"Unauthenticated", "PermissionDenied"} : Refuse(r, Refusal(k))
               /\ UNCHANGED principal
      BY <1>0, <2>1, <2>3
    <2>4. CASE \E p : /\ Proceed(r) /\ principal' = [principal EXCEPT ![r] = p]
                      /\ p.tenant # "" /\ policy[methodOf[r]].scopes \subseteq p.scopes
      BY <2>1, <2>4 DEF PrincipalsAreSet
    <2>5. QED BY <1>4, <2>2, <2>3, <2>4, AuthOutcomes
  <1>5. CASE CheckQuota(r) \/ Deadline(r) \/ Validate(r)
    <2>1. CASE CheckQuota(r)
      BY <2>1, QuotaOutcomes DEF PrincipalsAreSet
    <2>2. CASE Deadline(r)
      BY <2>2, ChainOrder DEF Deadline, PrincipalsAreSet
    <2>3. CASE Validate(r)
      BY <2>3, ChainOrder DEF Validate, PrincipalsAreSet
    <2>4. QED BY <1>5, <2>1, <2>2, <2>3
  <1>6. CASE Handle(r) \/ StoreGivesUp(r) \/ WatchEnds(r) \/ HandlerPanics(r)
    <2>1. CASE Handle(r)
      BY <2>1 DEF Handle, PrincipalsAreSet
    <2>2. CASE StoreGivesUp(r) \/ WatchEnds(r) \/ HandlerPanics(r)
      BY <2>2 DEF StoreGivesUp, WatchEnds, HandlerPanics, PrincipalsAreSet
    <2>3. QED BY <1>6, <2>1, <2>2
  <1>7. CASE Return(r) \/ Recover(r)
    <2>1. /\ phase' = [phase EXCEPT ![r] = "idle"] /\ methodOf' = methodOf
          /\ principal' = [principal EXCEPT ![r] = Anonymous]
      BY <1>7 DEF Return, Recover, EndCall
    <2>2. QED BY <2>1 DEF PrincipalsAreSet
  <1>8. QED BY <1>1, <1>2, <1>3, <1>4, <1>5, <1>6, <1>7 DEF CallStep

\* Every error set on the way out is one ErrorMap can map.
LEMMA StepsKeepErrorsSafe ==
  ASSUME CallsTyped, ErrorsAreSafe, RequestsNext
  PROVE  ErrorsAreSafe'
  <1> PICK r \in Requests : CallStep(r)
    BY DEF RequestsNext, CallStep
  <1> USE DEF GoTo, Proceed, Refuse, CallsTyped
  <1>1. \A k \in {"ResourceExhausted", "Unauthenticated", "PermissionDenied", "InvalidArgument"} :
          \A m : SafeError(Refusal(k)) /\ SafeError(App(k, "public", m))
    BY ReturnedErrorsAreSafe DEF Refusal, Kinds
  <1>2. (\E e : SafeError(e) /\ err' = [err EXCEPT ![r] = e]) => ErrorsAreSafe'
    BY DEF ErrorsAreSafe
  <1>3. UNCHANGED err => ErrorsAreSafe'
    BY DEF ErrorsAreSafe
  <1>4. CASE (\E m \in Methods : Arrive(r, m)) \/ HangUp(r) \/ DeadlinePasses(r) \/ HandlerPanics(r)
    BY <1>3, <1>4 DEF Arrive, HangUp, DeadlinePasses, HandlerPanics
  <1>5. CASE Admission(r)
    BY <1>1, <1>2, <1>3, <1>5 DEF Admission
  <1>6. CASE Auth(r)
    BY <1>1, <1>2, <1>3, <1>6, AuthOutcomes
  <1>7. CASE CheckQuota(r) \/ Deadline(r) \/ Validate(r)
    BY <1>1, <1>2, <1>3, <1>7, ReturnedErrorsAreSafe DEF CheckQuota, Deadline, Validate
  <1>8. CASE Handle(r) \/ StoreGivesUp(r) \/ WatchEnds(r)
    BY <1>2, <1>3, <1>8, ReturnedErrorsAreSafe DEF Handle, StoreGivesUp, WatchEnds
  <1>9. CASE Return(r) \/ Recover(r)
    BY <1>2, <1>9, ReturnedErrorsAreSafe DEF Return, Recover, EndCall
  <1>10. QED BY <1>4, <1>5, <1>6, <1>7, <1>8, <1>9 DEF CallStep

\* What Return and Recover send is mapped; nothing else is ever sent.
LEMMA StepsKeepAnswersMapped ==
  ASSUME CallsTyped, ErrorsAreSafe, AnswersAreMapped, RequestsNext
  PROVE  AnswersAreMapped'
  <1> PICK r \in Requests : CallStep(r)
    BY DEF RequestsNext, CallStep
  <1> USE DEF CallsTyped
  <1>1. UNCHANGED answered => AnswersAreMapped'
    BY DEF AnswersAreMapped
  <1>2. ASSUME NEW st, NEW logged, SafeStatus(st), logged \in {st.code, "none"}, Answer(r, st, logged)
        PROVE  AnswersAreMapped'
    <2> DEFINE http == HTTPStatus(r, st)
               partial == r \in sent
    <2>1. \/ http = 200 /\ partial
          \/ /\ http = HTTPStatusFromCode(st.code)
             /\ http = 500 => st.code = "Internal"
             /\ http = 200 => st.code = "OK"
      BY <1>2, StatusesAgree DEF HTTPStatus, handleError
    <2>2. answered' = [answered EXCEPT ![r] = [status |-> st, http |-> http, logged |-> logged,
                                               partial |-> partial]]
      BY <1>2 DEF Answer
    <2> HIDE DEF http, partial
    <2>3. \A s \in Requests : s # r => answered'[s] = answered[s]
      BY <2>2
    <2>4. /\ answered'[r].status = st /\ answered'[r].http = http
          /\ answered'[r].logged = logged /\ answered'[r].partial = partial
      BY <2>2
    <2>5. QED BY <1>2, <2>1, <2>3, <2>4 DEF AnswersAreMapped, SafeStatus
  <1>3. CASE \E m \in Methods : Arrive(r, m)
    <2>1. answered' = [answered EXCEPT ![r] = Pending]
      BY <1>3 DEF Arrive
    <2>2. QED BY <2>1 DEF AnswersAreMapped, Pending, OKStatus, Status
  <1>4. CASE HangUp(r) \/ DeadlinePasses(r) \/ Admission(r) \/ Auth(r) \/ CheckQuota(r) \/ Deadline(r)
              \/ Validate(r) \/ Handle(r) \/ StoreGivesUp(r) \/ WatchEnds(r) \/ HandlerPanics(r)
    BY <1>1, <1>4 DEF HangUp, DeadlinePasses, Admission, Auth, CheckQuota, Deadline, Validate, Handle,
                      StoreGivesUp, WatchEnds, HandlerPanics
  <1>5. CASE Return(r)
    <2>1. SafeStatus(mapErr(err[r]))
      BY MappedErrorsAreSafe DEF ErrorsAreSafe
    <2>2. Answer(r, mapErr(err[r]), mapErr(err[r]).code)
      BY <1>5 DEF Return
    <2>3. QED BY <1>2, <2>1, <2>2
  <1>6. CASE Recover(r)
    <2> DEFINE st == ToStatus(App("Internal", "private", "none"))
    <2>1. SafeStatus(st)
      <3>1. SafeStatus(mapErr(App("Internal", "private", "none")))
        BY ReturnedErrorsAreSafe, MappedErrorsAreSafe
      <3>2. mapErr(App("Internal", "private", "none")) = st
        BY DEF mapErr, App
      <3>3. QED BY <3>1, <3>2
    <2>2. Answer(r, st, "none")
      BY <1>6 DEF Recover
    <2> HIDE DEF st
    <2>3. QED BY <1>2, <2>1, <2>2
  <1>7. QED BY <1>3, <1>4, <1>5, <1>6 DEF CallStep

\* Every step preserves the invariant.
LEMMA NextRInv == RInv /\ [RequestsNext]_requestVars => RInv'
  <1> SUFFICES ASSUME RInv, [RequestsNext]_requestVars PROVE RInv'
    OBVIOUS
  <1>1. CASE RequestsNext
    BY <1>1, StepsKeepTypes, StepsKeepSlots, StepsKeepPrincipals, StepsKeepErrorsSafe, StepsKeepAnswersMapped
       DEF RInv
  <1>2. CASE UNCHANGED requestVars
    <2>1. CallsTyped' /\ SlotsAreCounted'
      BY <1>2 DEF requestVars, RInv, CallsTyped, SlotsAreCounted, SlotsMatchCalls
    <2>2. PrincipalsAreSet' /\ ErrorsAreSafe'
      BY <1>2 DEF requestVars, RInv, PrincipalsAreSet, ErrorsAreSafe
    <2>3. AnswersAreMapped'
      BY <1>2 DEF requestVars, RInv, AnswersAreMapped
    <2>4. QED BY <2>1, <2>2, <2>3 DEF RInv
  <1>3. QED BY <1>1, <1>2

\* The invariant holds throughout.
LEMMA SpecRInv == RequestsSpec => []RInv
  BY InitRInv, NextRInv, PTL DEF RequestsSpec

\* The invariant includes the types.
LEMMA RInvTypes ==
  ASSUME IsFiniteSet(Requests)
  PROVE  RInv => RequestsTypeOK
  <1> SUFFICES ASSUME RInv PROVE RequestsTypeOK
    OBVIOUS
  <1>1. Cardinality(holding) <= Cardinality(Requests) /\ Cardinality(holding) \in Nat
        /\ Cardinality(Requests) \in Nat
    BY FS_Subset, FS_CardinalityType DEF RInv, CallsTyped
  <1>2. slots \in 0..Cardinality(Requests)
    BY <1>1 DEF RInv, SlotsAreCounted, SlotsMatchCalls
  <1>3. QED BY <1>2 DEF RInv, CallsTyped, RequestsTypeOK

\* The types, for finitely many concurrent calls.
THEOREM RequestsTypeCorrect ==
  ASSUME IsFiniteSet(Requests)
  PROVE  RequestsSpec => []RequestsTypeOK
  <1>1. RInv => RequestsTypeOK
    BY RInvTypes
  <1>2. QED BY <1>1, SpecRInv, PTL

\* The admission semaphore never leaks and never over-admits: on every path, a
\* refusal, an answer or a panic, the deferred release returns what was taken.
THEOREM AdmissionIsExact == RequestsSpec => []SlotsMatchCalls
  BY SpecRInv, PTL DEF RInv, SlotsAreCounted

\* A handler runs behind the interceptors that admitted the call.
LEMMA RInvAuthorised == RInv => OnlyAuthorisedCallsAreHandled
  BY DEF RInv, PrincipalsAreSet, OnlyAuthorisedCallsAreHandled

\* On both chains a handler runs only for a principal that Auth has verified and
\* checked against the method's rule.
THEOREM HandlersAreAuthorised == RequestsSpec => []OnlyAuthorisedCallsAreHandled
  BY RInvAuthorised, SpecRInv, PTL

\* No path out of the chain, a panic's included, leaks driver or panic text or an
\* unmapped code; over HTTP both tables give the code its one status, and only a
\* stream that has sent a message fails behind a 200.
THEOREM AnswersAreAlwaysMapped == RequestsSpec => []AnswersAreMapped
  BY SpecRInv, PTL DEF RInv

-----------------------------------------------------------------------------
(* The outbound client *)

\* The type invariant with its counters.
UpstreamCounts ==
  /\ UpstreamTypeOK
  /\ request \in [method : UpMethods, deadline : 0..NoDeadline]
  /\ attempts \in Nat /\ inTransit \in Nat /\ executions \in Nat
  /\ step = "idle" => attempts = 0

\* A method the policy does not name is sent at most once.
SentOnce ==
  request.method \notin RetryMethods =>
    attempts <= 1 /\ step # "backoff" /\ (step = "sending" => attempts = 0)

\* A unary call under way ends before its handler's own deadline.
LimitsAreTight ==
  UnderWay(step) /\ ~UpStream(request.method) =>
    instant <= limit /\ (limit < request.deadline \/ request.deadline = NoDeadline)

\* What a handler may say of an upstream: success or a fault of this service, in
\* public text, with the upstream named to a caller that can act on it.
OurStatus(st) ==
  /\ st.code \in {"OK", "Unavailable", "Internal"}
  /\ st.text = "public"
  /\ st.metadata # "none" => st.code = "Unavailable"

\* What a settled call has told.  One that failed before the wire was never sent.
AnswersAreOurs ==
  /\ step = "settled" <=> settled.cause # "none"
  /\ settled.cause \in {"credentials", "budget", "interceptor"} => attempts = 0
  /\ settled.cause = "upstream" /\ ~UpStream(request.method) => settled.at < request.deadline
  /\ settled.cause = "budget" \/ (settled.cause = "upstream" /\ ~UpStream(request.method)) =>
       OurStatus(settled.status)

\* The inductive strengthening of UpstreamFaultsStayUpstream.
UInv == UpstreamCounts /\ SentOnce /\ LimitsAreTight /\ AnswersAreOurs

\* budget: the reserve, at least a percent, leaves less than what remains.
LEMMA BudgetIsLess ==
  ASSUME NEW remaining \in Nat
  PROVE  /\ budget(remaining) \in Nat
         /\ budget(remaining) > 0 => budget(remaining) < remaining
  <1> DEFINE share == remaining * (100 - ReservePercent)
             allowed == share \div 100
  <1>1. ReservePercent \in 1..99 /\ MinBudget \in Nat \ {0}
    BY UpstreamAssumption
  <1>2. share \in Nat /\ share <= remaining * 99
    <2>1. 100 - ReservePercent \in 1..99
      BY <1>1
    <2>2. \A p \in 1..99 : remaining * p \in Nat /\ remaining * p <= remaining * 99
      OBVIOUS
    <2>3. QED BY <2>1, <2>2
  <1> HIDE DEF share
  <1>3. allowed \in Nat /\ 100 * allowed <= share
    BY <1>2
  <1> HIDE DEF allowed
  <1>4. allowed > 0 => allowed < remaining
    BY <1>2, <1>3
  <1>5. budget(remaining) = IF allowed < MinBudget THEN 0 ELSE allowed
    BY DEF budget, allowed, share
  <1>6. QED BY <1>3, <1>4, <1>5

\* ClientError and newUpstreamError: a unary call is told a fault of this service,
\* whatever the callee's code was.
LEMMA UpstreamErrorsAreOurs ==
  ASSUME NEW code
  PROVE  /\ \A st \in ClientError(code) : OurStatus(st)
         /\ \A m : ~UpStream(m) =>
              \A st \in newUpstreamError(m, Status(code, "public")) : OurStatus(st)
  <1>1. OurStatus(mapErr(OKStatus))
    BY DEF OKStatus, Status, mapErr, OurStatus
  <1>2. OurStatus(mapErr(Plain("upstream")))
    BY DEF mapErr, Plain, ToStatus, classify, App, GRPCCode, Redacts, OurStatus
  <1>3. OurStatus(mapErr(AsAppError(code)))
    <2>1. Kind(code) \in {"Unavailable", "Internal"}
      BY DEF Kind
    <2>2. QED BY <2>1 DEF AsAppError, mapErr, App, ToStatus, GRPCCode, Redacts, OurStatus
  <1>4. \A st \in ClientError(code) : OurStatus(st)
    BY <1>2, <1>3 DEF ClientError
  <1>5. ASSUME NEW m, ~UpStream(m), NEW st \in newUpstreamError(m, Status(code, "public"))
        PROVE  OurStatus(st)
    <2>1. Status(code, "public").type = "status" /\ Status(code, "public").code = code
      BY DEF Status
    <2>2. st = mapErr(OKStatus) \/ st \in ClientError(code)
      BY <1>5, <2>1 DEF newUpstreamError
    <2>3. QED BY <1>1, <1>4, <2>2
  <1>6. QED BY <1>4, <1>5

\* Before the call, the invariant holds.
LEMMA InitUInv == UpstreamInit => UInv
  BY UpstreamAssumption DEF UpstreamInit, UInv, UpstreamCounts, UpstreamTypeOK, SentOnce, LimitsAreTight,
     AnswersAreOurs, UnderWay, NoDeadline, UpMethods, Unsettled, Causes

\* A step that settles a call under way.
LEMMA SettlingKeepsUInv ==
  ASSUME UInv, UnderWay(step), NEW cause \in {"interceptor", "upstream"}, NEW st,
         step' = "settled", settled' = [at |-> instant, cause |-> cause, status |-> st],
         cause = "interceptor" => attempts = 0,
         cause = "upstream" /\ ~UpStream(request.method) => OurStatus(st),
         UNCHANGED <<instant, request, limit, attempts>>,
         inTransit' \in Nat, executions' \in Nat, inTransit' + executions' <= attempts
  PROVE  UInv'
  <1>1. step' = "settled" /\ settled'.at = instant /\ settled'.status = st /\ settled'.cause = cause
    OBVIOUS
  <1>2. UpstreamCounts'
    <2>1. instant \in 0..MaxInstant /\ instant \in 0..NoDeadline
      BY UpstreamAssumption DEF UInv, UpstreamCounts, UpstreamTypeOK, NoDeadline
    <2>2. NoDeadline' = NoDeadline
      BY DEF NoDeadline
    <2>3. QED BY <1>1, <2>1, <2>2 DEF UInv, UpstreamCounts, UpstreamTypeOK, Causes
  <1>3. SentOnce' /\ LimitsAreTight'
    BY <1>1 DEF UInv, SentOnce, LimitsAreTight, UnderWay
  <1>4. AnswersAreOurs'
    <2>1. ~UpStream(request.method) => instant < request.deadline
      BY UpstreamAssumption DEF UInv, UpstreamCounts, UpstreamTypeOK, LimitsAreTight, NoDeadline
    <2>2. QED BY <1>1, <2>1 DEF AnswersAreOurs
  <1>5. QED BY <1>2, <1>3, <1>4 DEF UInv

\* The invoker's status settles a call under way.
LEMMA EndingKeepsUInv ==
  ASSUME UInv, UnderWay(step), NEW code, Ends(code), UNCHANGED <<instant, request, limit, attempts>>,
         inTransit' \in Nat, executions' \in Nat, inTransit' + executions' <= attempts
  PROVE  UInv'
  <1>1. PICK st \in newUpstreamError(request.method, Status(code, "public")) :
          step' = "settled" /\ settled' = [at |-> instant, cause |-> "upstream", status |-> st]
    BY DEF Ends, SettleCall
  <1>2. ~UpStream(request.method) => OurStatus(st)
    BY <1>1, UpstreamErrorsAreOurs
  <1>3. QED BY <1>1, <1>2, SettlingKeepsUInv

\* The chain up to the wire.
LEMMA InvokeKeepsUInv ==
  ASSUME UInv, NEW m \in UpMethods, NEW d \in 0..NoDeadline, d >= instant, Invoke(m, d)
  PROVE  UInv'
  <1> DEFINE allowed == IF d = NoDeadline THEN DefaultTimeout ELSE budget(d - instant)
  <1>1. /\ step = "idle" /\ request' = [method |-> m, deadline |-> d]
        /\ attempts = 0 /\ UNCHANGED <<instant, attempts, inTransit, executions>>
    BY DEF Invoke, UInv, UpstreamCounts
  <1>2. /\ instant \in 0..MaxInstant /\ NoDeadline = MaxInstant + 1 /\ MaxInstant \in Nat
        /\ attempts \in Nat /\ inTransit \in Nat /\ executions \in Nat /\ inTransit + executions <= attempts
        /\ limit \in 0..NoDeadline
    BY UpstreamAssumption DEF UInv, UpstreamCounts, UpstreamTypeOK, NoDeadline
  <1>3. allowed \in Nat /\ (allowed > 0 /\ d # NoDeadline => instant + allowed < d)
    <2>1. d - instant \in Nat
      BY <1>2
    <2>2. DefaultTimeout \in Nat
      BY UpstreamAssumption
    <2>3. QED BY <1>2, <2>1, <2>2, BudgetIsLess
  <1>4. \/ (\E e \in CredentialErrors : SettleCall("credentials", {mapErr(e)})) /\ UNCHANGED limit
        \/ allowed = 0 /\ SettleCall("budget", ClientError("DeadlineExceeded")) /\ UNCHANGED limit
        \/ /\ allowed > 0 /\ step' = "sending" /\ UNCHANGED settled
           /\ limit' = IF UpStream(m) \/ instant + allowed > MaxInstant THEN d ELSE instant + allowed
    BY DEF Invoke
  <1> HIDE DEF allowed
  <1>5. CASE step' = "sending"
    <2>1. /\ allowed > 0 /\ UNCHANGED settled
          /\ limit' = IF UpStream(m) \/ instant + allowed > MaxInstant THEN d ELSE instant + allowed
      BY <1>4, <1>5 DEF SettleCall
    <2>2. limit' \in 0..NoDeadline
      BY <1>2, <1>3, <2>1
    <2>3. UpstreamCounts'
      BY <1>1, <1>2, <1>5, <2>1, <2>2 DEF UInv, UpstreamCounts, UpstreamTypeOK, NoDeadline
    <2>4. LimitsAreTight'
      BY <1>1, <1>2, <1>3, <2>1 DEF LimitsAreTight, NoDeadline
    <2>5. SentOnce' /\ AnswersAreOurs'
      BY <1>1, <1>5, <2>1 DEF UInv, SentOnce, AnswersAreOurs
    <2>6. QED BY <2>3, <2>4, <2>5 DEF UInv
  <1>6. CASE step' = "settled"
    <2>1. /\ UNCHANGED limit
          /\ \E cause \in {"credentials", "budget"} : \E st :
               /\ settled' = [at |-> instant, cause |-> cause, status |-> st]
               /\ cause = "budget" => OurStatus(st)
      <3>1. CASE \E e \in CredentialErrors : SettleCall("credentials", {mapErr(e)})
        BY <1>4, <1>6, <3>1 DEF SettleCall
      <3>2. CASE SettleCall("budget", ClientError("DeadlineExceeded"))
        BY <1>4, <1>6, <3>2, UpstreamErrorsAreOurs DEF SettleCall
      <3>3. QED BY <1>4, <1>6, <3>1, <3>2
    <2>2. UpstreamCounts'
      BY <1>1, <1>2, <1>6, <2>1 DEF UInv, UpstreamCounts, UpstreamTypeOK, NoDeadline, Causes
    <2>3. SentOnce' /\ LimitsAreTight'
      BY <1>1, <1>6 DEF SentOnce, LimitsAreTight, UnderWay
    <2>4. AnswersAreOurs'
      BY <1>1, <1>6, <2>1 DEF AnswersAreOurs
    <2>5. QED BY <2>2, <2>3, <2>4 DEF UInv
  <1>7. QED BY <1>4, <1>5, <1>6 DEF SettleCall

\* An attempt ends: with the answer, or with another try that the policy allows.
LEMMA ReplyKeepsUInv ==
  ASSUME UInv, step = "waiting", NEW code, Reply(code),
         inTransit' \in Nat, executions' \in Nat, inTransit' + executions' <= attempts
  PROVE  UInv'
  <1>1. CASE Ends(code)
    <2>1. UNCHANGED <<instant, request, limit, attempts>>
      BY DEF Reply
    <2>2. QED BY <1>1, <2>1, EndingKeepsUInv DEF UnderWay
  <1>2. CASE Retryable(code) /\ step' = "backoff" /\ UNCHANGED settled
    BY <1>2 DEF Reply, Retryable, UInv, UpstreamCounts, UpstreamTypeOK, SentOnce, LimitsAreTight,
                AnswersAreOurs, UnderWay
  <1>3. QED BY <1>1, <1>2 DEF Reply

\* Every step preserves the invariant.
LEMMA NextUInv == UInv /\ [UpstreamNext]_upstreamVars => UInv'
  <1> SUFFICES ASSUME UInv, [UpstreamNext]_upstreamVars PROVE UInv'
    OBVIOUS
  <1>1. /\ instant \in 0..MaxInstant /\ attempts \in Nat /\ inTransit \in Nat /\ executions \in Nat
        /\ inTransit + executions <= attempts /\ limit \in 0..NoDeadline /\ NoDeadline \in Nat
        /\ MaxInstant \in Nat
    BY UpstreamAssumption DEF UInv, UpstreamCounts, UpstreamTypeOK, NoDeadline
  <1>2. CASE \E m \in UpMethods, d \in 0..NoDeadline : d >= instant /\ Invoke(m, d)
    BY <1>2, InvokeKeepsUInv
  <1>3. CASE Send
    <2>1. UpstreamCounts'
      BY <1>1, <1>3 DEF Send, UInv, UpstreamCounts, UpstreamTypeOK
    <2>2. SentOnce' /\ LimitsAreTight' /\ AnswersAreOurs'
      BY <1>1, <1>3 DEF Send, UInv, SentOnce, LimitsAreTight, AnswersAreOurs, UnderWay
    <2>3. QED BY <2>1, <2>2 DEF UInv
  <1>4. CASE \E code \in UpCodes : Answered(code)
    <2>1. PICK code \in UpCodes : Answered(code)
      BY <1>4
    <2>2. inTransit' \in Nat /\ executions' \in Nat /\ inTransit' + executions' <= attempts
      <3>1. /\ inTransit > 0 /\ inTransit' = inTransit - 1
            /\ executions' = executions \/ executions' = executions + 1
        BY <2>1 DEF Answered
      <3>2. QED BY <1>1, <3>1
    <2>3. QED BY <2>1, <2>2, ReplyKeepsUInv DEF Answered
  <1>5. CASE Broken
    <2>1. inTransit' \in Nat /\ executions' \in Nat /\ inTransit' + executions' <= attempts
      <3>1. /\ inTransit > 0 /\ executions' = executions
            /\ inTransit' = inTransit - 1 \/ inTransit' = inTransit
        BY <1>5 DEF Broken
      <3>2. QED BY <1>1, <3>1
    <2>2. QED BY <1>5, <2>1, ReplyKeepsUInv DEF Broken
  <1>6. CASE LateExecution
    BY <1>1, <1>6 DEF LateExecution, UInv, UpstreamCounts, UpstreamTypeOK, SentOnce, LimitsAreTight,
                      AnswersAreOurs
  <1>7. CASE BackoffEnds
    BY <1>7 DEF BackoffEnds, UInv, UpstreamCounts, UpstreamTypeOK, SentOnce, LimitsAreTight,
                AnswersAreOurs, UnderWay
  <1>8. CASE TimesOut
    BY <1>1, <1>8, EndingKeepsUInv DEF TimesOut
  <1>9. CASE InstantPasses
    BY <1>1, <1>9 DEF InstantPasses, UInv, UpstreamCounts, UpstreamTypeOK, SentOnce, LimitsAreTight,
                      AnswersAreOurs
  <1>10. CASE UNCHANGED upstreamVars
    BY <1>10 DEF upstreamVars, UInv, UpstreamCounts, UpstreamTypeOK, SentOnce, LimitsAreTight, AnswersAreOurs,
                 UnderWay
  <1>11. CASE InterceptorFails
    <2>1. UnderWay(step) /\ attempts = 0 /\ UNCHANGED <<instant, request, limit, attempts, inTransit, executions>>
      BY <1>11 DEF InterceptorFails, UnderWay
    <2>2. \E st : step' = "settled" /\ settled' = [at |-> instant, cause |-> "interceptor", status |-> st]
      BY <1>11 DEF InterceptorFails, SettleCall
    <2>3. QED BY <1>1, <2>1, <2>2, SettlingKeepsUInv
  <1>12. QED BY <1>2, <1>3, <1>4, <1>5, <1>6, <1>7, <1>8, <1>9, <1>10, <1>11 DEF UpstreamNext

\* The invariant holds throughout.
LEMMA SpecUInv == UpstreamSpec => []UInv
  BY InitUInv, NextUInv, PTL DEF UpstreamSpec

\* Every reachable state of the client is well typed.
THEOREM UpstreamTypeCorrect == UpstreamSpec => []UpstreamTypeOK
  BY SpecUInv, PTL DEF UInv, UpstreamCounts

\* The invariant accounts for every outcome of an outbound call.
LEMMA UInvContains == UInv => UpstreamFaultsStayUpstream
  BY DEF UInv, UpstreamCounts, UpstreamTypeOK, SentOnce, AnswersAreOurs, UpstreamFaultsStayUpstream, OurStatus

\* For every retry policy, attempt limit and reserve: what must not be replayed is
\* not, what fails before the wire is never carried out, and a unary call that was
\* sent settles while its handler has time left, as a fault of this service.
THEOREM UpstreamFaultsAreContained == UpstreamSpec => []UpstreamFaultsStayUpstream
  BY UInvContains, SpecUInv, PTL
=============================================================================
