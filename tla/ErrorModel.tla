----------------------------- MODULE ErrorModel ----------------------------
(***************************************************************************)
(* How an error becomes an answer: platform/apperr, the domain mapping of  *)
(* grpcapi/errmap.go, the ErrorMap interceptor and the gateway's rendering.*)
(*                                                                         *)
(* A Go error is one of                                                    *)
(*   Plain(s)      an error whose chain holds the sentinel s;              *)
(*   App(k, t, m)  a chain with an *apperr.Error of kind k, whose message  *)
(*                 is t and whose metadata is m;                           *)
(*   Status(c, t)  a gRPC status.                                          *)
(* A text is "public", or "private" when it holds driver or panic text.    *)
(***************************************************************************)

Plain(s) == [type |-> "plain", sentinel |-> s]
App(k, t, m) == [type |-> "app", kind |-> k, text |-> t, metadata |-> m]
Status(c, t) == [type |-> "status", code |-> c, text |-> t, metadata |-> "none"]
OKStatus == Status("OK", "public")

Kinds == {"Unknown", "InvalidArgument", "FailedPrecondition", "NotFound", "AlreadyExists",
          "PermissionDenied", "Unauthenticated", "ResourceExhausted", "Unavailable",
          "Internal", "Canceled", "DeadlineExceeded"}

\* kindInfo: every kind but Unknown shares its name with its code.
GRPCCode(k) == IF k = "Unknown" THEN "Internal" ELSE k

kindStatus ==
  [k \in Kinds |->
     CASE k \in {"InvalidArgument", "FailedPrecondition"} -> 400
       [] k = "Unauthenticated" -> 401
       [] k = "PermissionDenied" -> 403
       [] k = "NotFound" -> 404
       [] k = "AlreadyExists" -> 409
       [] k = "ResourceExhausted" -> 429
       [] k = "Canceled" -> 499
       [] k \in {"Internal", "Unknown"} -> 500
       [] k = "Unavailable" -> 503
       [] k = "DeadlineExceeded" -> 504]

HTTPStatusFromCode(c) ==
  CASE \E k \in Kinds : GRPCCode(k) = c -> kindStatus[CHOOSE k \in Kinds : GRPCCode(k) = c]
    [] c = "OK" -> 200
    [] c = "Unimplemented" -> 501
    [] OTHER -> 500

\* External: runtime.HTTPStatusFromCode, grpc-gateway's own table, which a stream
\* that fails before its first message is rendered with.
runtimeHTTPStatus(c) ==
  CASE c = "OK" -> 200
    [] c \in {"InvalidArgument", "FailedPrecondition", "OutOfRange"} -> 400
    [] c = "Unauthenticated" -> 401
    [] c = "PermissionDenied" -> 403
    [] c = "NotFound" -> 404
    [] c \in {"AlreadyExists", "Aborted"} -> 409
    [] c = "ResourceExhausted" -> 429
    [] c = "Canceled" -> 499
    [] c = "Unimplemented" -> 501
    [] c = "Unavailable" -> 503
    [] c = "DeadlineExceeded" -> 504
    [] OTHER -> 500

Redacts(k) == k \in {"Internal", "Unknown"}

\* classify: the two context sentinels, and everything else.
classify(s) ==
  CASE s = "Canceled" -> App("Canceled", "public", "none")
    [] s = "DeadlineExceeded" -> App("DeadlineExceeded", "public", "none")
    [] OTHER -> App("Internal", "private", "none")

\* ToStatus: the message and the metadata of a redacting kind stay behind.
ToStatus(e) ==
  LET ae == IF e.type = "app" THEN e ELSE classify(e.sentinel)
  IN [type |-> "status", code |-> GRPCCode(ae.kind),
      text |-> IF Redacts(ae.kind) THEN "public" ELSE ae.text,
      metadata |-> IF Redacts(ae.kind) THEN "none" ELSE ae.metadata]

\* mapErr: a status that is not an application error is left alone.
mapErr(e) == IF e.type = "status" THEN e ELSE ToStatus(e)

\* What grpc-go makes of an error nobody mapped: its whole text, as Unknown.
Unmapped(e) == IF e.type = "status" THEN e ELSE Status("Unknown", "private")

DomainErrorKind(s) ==
  CASE s = "ErrNotFound" -> "NotFound"
    [] s = "ErrDuplicate" -> "AlreadyExists"
    [] s = "ErrInvalidTransition" -> "FailedPrecondition"
    [] s \in {"ErrNoItems", "ErrInvalidItem", "ErrInvalidPageToken", "ErrMoney"} -> "InvalidArgument"
    [] OTHER -> "Internal"

\* A domain sentinel's text is written for callers, any other error's is not.
asAppError(e) ==
  IF e.type = "app"
    THEN e
    ELSE LET k == DomainErrorKind(e.sentinel)
         IN App(k, IF Redacts(k) THEN "private" ELSE "public", "none")

\* The gateway's answer to a unary call over HTTP: the code through the same table.
handleError(st) == [status |-> HTTPStatusFromCode(st.code), text |-> st.text]
=============================================================================
