----------------------------- MODULE RateLimit -----------------------------
(***************************************************************************)
(* The shared quota (platform/ratelimit): GCRA as a Lua script in Redis.   *)
(* Redis runs a script atomically and on its own clock, so one Allow is    *)
(* one step however many replicas ask.                                     *)
(***************************************************************************)
EXTENDS Integers, Sequences

CONSTANTS
  Buckets,        \* limitKey: one bucket per tenant and method
  Limit, Period, Burst,     \* Config; Period in nanoseconds
  NsPerUs, UsPerMs,         \* units: 1000 and 1000, scaled down in the model
  MaxNow          \* bound: the last microsecond the model looks at

VARIABLES
  nowUs,          \* redis TIME, in microseconds
  store,          \* bucket -> [tat, expireMs], or Gone
  grants,         \* history: the instants of the granted requests
  told            \* history: the last Result of each bucket and its instant

rateVars == <<nowUs, store, grants, told>>

Gone == [tat |-> -1, expireMs |-> -1]
Unasked == [at |-> -1, allowed |-> FALSE, retryAfter |-> 0, remaining |-> 0]

AtLeast(a, b) == IF a >= b THEN a ELSE b
CeilDiv(a, b) == (a + b - 1) \div b

EmissionInterval == Period \div Limit                     \* nanoseconds
DelayTolerance == EmissionInterval * Burst
emissionUS == EmissionInterval \div NsPerUs               \* Microseconds() truncates
toleranceUS == DelayTolerance \div NsPerUs

\* What NewRedis accepts, and a rate the microsecond clock can express.
ASSUME QuotaAssumption ==
  /\ Limit \in Nat \ {0} /\ Period \in Nat \ {0} /\ Burst \in Nat \ {0}
  /\ NsPerUs \in Nat \ {0} /\ UsPerMs \in Nat \ {0} /\ MaxNow \in Nat
  /\ emissionUS > 0

RateTypeOK ==
  /\ nowUs \in 0..MaxNow
  /\ \A b \in Buckets : store[b] = Gone \/ (store[b].tat \in Nat /\ store[b].expireMs \in Nat)
  /\ \A b \in Buckets : told[b].remaining \in Nat

RateInit ==
  /\ nowUs = 0
  /\ store = [b \in Buckets |-> Gone]
  /\ grants = [b \in Buckets |-> <<>>]
  /\ told = [b \in Buckets |-> Unasked]

-----------------------------------------------------------------------------
(* Redis *)

\* A key is gone once the millisecond clock has passed its expiry time.
Expire(b) ==
  /\ store[b] # Gone /\ nowUs \div UsPerMs > store[b].expireMs
  /\ store' = [store EXCEPT ![b] = Gone]
  /\ UNCHANGED <<nowUs, grants, told>>

\* GET sees no expired key, removed or not.
StoredTat(b) ==
  IF store[b] = Gone \/ nowUs \div UsPerMs > store[b].expireMs
    THEN nowUs
    ELSE store[b].tat

Elapse ==
  /\ nowUs < MaxNow
  /\ nowUs' = nowUs + 1
  /\ UNCHANGED <<store, grants, told>>

-----------------------------------------------------------------------------
(* gcraScript *)

NewTat(b) == AtLeast(StoredTat(b), nowUs) + emissionUS

\* diff of the script: how far the request is past the instant that allows it.
Diff(b) == nowUs - (NewTat(b) - toleranceUS)

\* Mutant: the expiry is rounded down.
TtlMs_Floor(b) == AtLeast((NewTat(b) - nowUs) \div UsPerMs, 1)

TtlMs(b) == AtLeast(CeilDiv(NewTat(b) - nowUs, UsPerMs), 1)

Tell(b, allowed, retry, left) ==
  told' = [told EXCEPT ![b] =
             [at |-> nowUs, allowed |-> allowed, retryAfter |-> retry, remaining |-> left]]

Grant(b) ==
  /\ Diff(b) >= 0
  /\ store' = [store EXCEPT ![b] =
                 [tat |-> NewTat(b), expireMs |-> nowUs \div UsPerMs + TtlMs(b)]]
  /\ grants' = [grants EXCEPT ![b] = Append(@, nowUs)]
  /\ Tell(b, TRUE, 0, Diff(b) \div emissionUS)
  /\ UNCHANGED nowUs

\* Mutant: a rejected request moves the stored TAT as well.
Reject_Pushing(b) ==
  /\ Diff(b) < 0
  /\ store' = [store EXCEPT ![b].tat = @ + 1]
  /\ Tell(b, FALSE, -Diff(b), 0)
  /\ UNCHANGED <<nowUs, grants>>

\* A rejection writes nothing.
Reject(b) ==
  /\ Diff(b) < 0
  /\ Tell(b, FALSE, -Diff(b), 0)
  /\ UNCHANGED <<nowUs, store, grants>>

Allow(b) == Grant(b) \/ Reject(b)

RateNext == Elapse \/ \E b \in Buckets : Expire(b) \/ Allow(b)

RateSpec == RateInit /\ [][RateNext]_rateVars

-----------------------------------------------------------------------------
(* Properties *)

\* Whenever the requests come, any stretch of time admits at most the tolerance
\* plus one request per emission interval: an expiry in whole milliseconds never
\* forgets a key that still owes microseconds (gcraScript).
QuotaHolds ==
  \A b \in Buckets : \A i, j \in 1..Len(grants[b]) :
    i <= j => (j - i + 1) * emissionUS <= (grants[b][j] - grants[b][i]) + toleranceUS

\* Each answer predicts the next decision exactly: a rejected caller is admitted
\* at RetryAfter and not before, and of the callers of one instant exactly
\* Remaining more are admitted (Result.RetryAfter and Result.Remaining).
AnswersPredictTheNext ==
  [][\A b \in Buckets :
       LET was == told[b]
           is == told'[b]
       IN /\ is # was /\ was # Unasked
          => IF was.allowed
               THEN is.at = was.at =>
                      /\ is.allowed <=> was.remaining >= 1
                      /\ is.allowed => is.remaining = was.remaining - 1
               ELSE is.allowed <=> is.at >= was.at + was.retryAfter]_rateVars

\* DelayTolerance's comment, "exactly Burst requests are admitted instantaneously":
\* no more than Burst grants of a bucket carry the same instant.  It holds when no
\* fraction of a microsecond is lost, and only then for every Burst.
AtMostBurstAtOnce ==
  \A b \in Buckets : \A i, j \in 1..Len(grants[b]) :
    i <= j /\ grants[b][i] = grants[b][j] => j - i + 1 <= Burst
=============================================================================
