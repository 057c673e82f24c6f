--------------------------- MODULE AlgorithmProofs ---------------------------
(***************************************************************************)
(* Proofs about the components that are algorithms: the shared quota       *)
(* (RateLimit), for every limit, period, burst and clock unit; amounts of  *)
(* money (Money), for every width of the machine's integers; and keyset    *)
(* pagination (OrderListing), for every set of orders and page size.       *)
(***************************************************************************)
EXTENDS RateLimit, Money, OrderListing, FiniteSetTheorems, SequenceTheorems, TLAPS

-----------------------------------------------------------------------------
(* Division *)

\* What the quotient of natural numbers is.
LEMMA DivFacts ==
  ASSUME NEW a \in Nat, NEW n \in Nat \ {0}
  PROVE  a \div n \in Nat /\ n * (a \div n) <= a /\ a < n * (a \div n) + n
  OBVIOUS

\* A positive factor can be cancelled.
LEMMA MulCancel ==
  ASSUME NEW a \in Int, NEW b \in Int, NEW n \in Nat \ {0}, n * a < n * b
  PROVE  a < b
  OBVIOUS

\* Modulo and floor division of an integer.
LEMMA ModFacts ==
  ASSUME NEW x \in Int, NEW n \in Nat \ {0}
  PROVE  x % n \in 0..(n - 1) /\ x = n * (x \div n) + (x % n) /\ x \div n \in Int
  OBVIOUS

\* No other number is the quotient.
LEMMA DivUnique ==
  ASSUME NEW a \in Nat, NEW n \in Nat \ {0}, NEW q \in Int, n * q <= a, a < n * q + n
  PROVE  a \div n = q
  <1>1. a \div n \in Nat /\ n * (a \div n) <= a /\ a < n * (a \div n) + n
    BY DivFacts
  <1>2. n * q < n * ((a \div n) + 1) /\ n * (a \div n) < n * (q + 1)
    BY <1>1
  <1>3. q < (a \div n) + 1 /\ a \div n < q + 1
    BY <1>1, <1>2, MulCancel
  <1>4. QED BY <1>1, <1>3

\* Taking the divisor away once lowers the quotient by one.
LEMMA DivMinus ==
  ASSUME NEW a \in Nat, NEW n \in Nat \ {0}
  PROVE  /\ a >= n <=> a \div n >= 1
         /\ a >= n => (a - n) \div n = (a \div n) - 1
  <1>1. a \div n \in Nat /\ n * (a \div n) <= a /\ a < n * (a \div n) + n
    BY DivFacts
  <1>2. ASSUME a >= n PROVE (a - n) \div n = (a \div n) - 1
    <2> DEFINE x == a - n
               q == (a \div n) - 1
    <2>1. x \in Nat /\ q \in Int
      BY <1>1, <1>2
    <2>2. n * q <= x /\ x < n * q + n
      BY <1>1, <1>2
    <2> HIDE DEF x, q
    <2>3. x \div n = q
      BY <2>1, <2>2, DivUnique
    <2>4. QED BY <2>3 DEF x, q
  <1>3. a \div n >= 1 => a >= n
    BY <1>1
  <1>4. a >= n => a \div n >= 1
    BY <1>1
  <1>5. QED BY <1>2, <1>3, <1>4

-----------------------------------------------------------------------------
(* The quota *)

\* What the proofs use of the constants: one request always fits in the burst.
LEMMA QuotaConstants ==
  /\ emissionUS \in Nat \ {0} /\ toleranceUS \in Nat /\ toleranceUS >= emissionUS
  /\ UsPerMs \in Nat \ {0}
  <1> DEFINE E == EmissionInterval
             D == DelayTolerance
  <1>1. /\ NsPerUs \in Nat \ {0} /\ UsPerMs \in Nat \ {0} /\ Burst \in Nat \ {0} /\ emissionUS > 0
        /\ Period \in Nat /\ Limit \in Nat \ {0}
    BY QuotaAssumption
  <1>2. E \in Nat
    BY <1>1, DivFacts DEF EmissionInterval
  <1>3. D \in Nat /\ D >= E
    <2>1. D = E * Burst
      BY DEF DelayTolerance
    <2> HIDE DEF D, E
    <2>2. E * Burst \in Nat /\ E * Burst >= E
      BY <1>1, <1>2
    <2>3. QED BY <2>1, <2>2
  <1>4. emissionUS = E \div NsPerUs /\ toleranceUS = D \div NsPerUs
    BY DEF emissionUS, toleranceUS
  <1> HIDE DEF D, E
  <1>5. /\ emissionUS \in Nat /\ NsPerUs * emissionUS <= E
        /\ toleranceUS \in Nat /\ D < NsPerUs * toleranceUS + NsPerUs
    BY <1>1, <1>2, <1>3, <1>4, DivFacts
  <1>6. NsPerUs * emissionUS < NsPerUs * (toleranceUS + 1)
    BY <1>1, <1>2, <1>3, <1>5
  <1>7. emissionUS < toleranceUS + 1
    BY <1>1, <1>5, <1>6, MulCancel
  <1>8. QED BY <1>1, <1>5, <1>7

\* A key of the store: its TAT and its expiry are instants, and the expiry, in
\* whole milliseconds, is never before the TAT.
KeyOK(b) ==
  store[b] # Gone =>
    /\ store[b] \in [tat : Nat, expireMs : Nat]
    /\ store[b].tat < UsPerMs * (store[b].expireMs + 1)

\* The instant up to which the granted requests are paid for.
Paid(b) == IF store[b] = Gone THEN nowUs ELSE store[b].tat

\* Each granted request, with those granted since, takes its interval of what has
\* been paid for; and none is in the future.
GrantsArePaid(b) ==
  /\ grants[b] \in Seq(Nat)
  /\ \A i \in 1..Len(grants[b]) :
       /\ grants[b][i] <= nowUs
       /\ (Len(grants[b]) - i + 1) * emissionUS <= Paid(b) - grants[b][i]

\* What an answer knows of the key: a grant, the TAT for as long as the instant
\* lasts; a rejection, when the TAT will let the next request pass.
ToldOK(b) ==
  \/ told[b] = Unasked
  \/ /\ told[b].allowed = TRUE /\ told[b].at \in Nat /\ told[b].at <= nowUs /\ told[b].remaining \in Nat
     /\ told[b].at = nowUs =>
          /\ store[b] # Gone /\ nowUs \div UsPerMs <= store[b].expireMs
          /\ nowUs <= store[b].tat /\ store[b].tat <= nowUs + toleranceUS
          /\ told[b].remaining = (nowUs - (store[b].tat - toleranceUS)) \div emissionUS
  \/ /\ told[b].allowed = FALSE /\ told[b].at \in Nat /\ told[b].at <= nowUs
     /\ told[b].remaining = 0 /\ told[b].retryAfter \in Nat
     /\ IF store[b] = Gone
          THEN nowUs >= told[b].at + told[b].retryAfter
          ELSE told[b].at + told[b].retryAfter = store[b].tat + emissionUS - toleranceUS

\* The state is typed.
RateTyped ==
  /\ nowUs \in 0..MaxNow
  /\ DOMAIN store = Buckets /\ DOMAIN grants = Buckets /\ DOMAIN told = Buckets

\* QuotaHolds, of one bucket.
QuotaOf(b) ==
  \A i, j \in 1..Len(grants[b]) :
    i <= j => (j - i + 1) * emissionUS <= (grants[b][j] - grants[b][i]) + toleranceUS

BucketOK(b) == KeyOK(b) /\ GrantsArePaid(b) /\ QuotaOf(b) /\ ToldOK(b)

\* The inductive strengthening of QuotaHolds, from which AnswersPredictTheNext
\* follows too.
QInv == RateTyped /\ \A b \in Buckets : BucketOK(b)

\* An untouched bucket stays as it is.
LEMMA OtherBuckets ==
  ASSUME NEW c \in Buckets, BucketOK(c), nowUs' = nowUs,
         store'[c] = store[c], grants'[c] = grants[c], told'[c] = told[c]
  PROVE  BucketOK(c)'
  BY DEF BucketOK, KeyOK, GrantsArePaid, Paid, QuotaOf, ToldOK

\* A key that GET no longer sees had its TAT in the past.
LEMMA ExpiredKeysArePaid ==
  ASSUME RateTyped, NEW b \in Buckets, KeyOK(b), store[b] # Gone, nowUs \div UsPerMs > store[b].expireMs
  PROVE  store[b].tat < nowUs
  <1> DEFINE m == nowUs \div UsPerMs
             x == store[b].expireMs
             t == store[b].tat
  <1>1. nowUs \in Nat /\ UsPerMs \in Nat \ {0}
    BY QuotaConstants, QuotaAssumption DEF RateTyped
  <1>2. m \in Nat /\ UsPerMs * m <= nowUs
    BY <1>1, DivFacts
  <1>3. x \in Nat /\ t \in Nat /\ t < UsPerMs * (x + 1) /\ m > x
    BY DEF KeyOK
  <1> HIDE DEF m, x, t
  <1>4. UsPerMs * (x + 1) <= UsPerMs * m
    BY <1>1, <1>2, <1>3
  <1>5. t < nowUs
    BY <1>1, <1>2, <1>3, <1>4
  <1>6. QED BY <1>5 DEF t

\* What the script computes: the new TAT is an interval past the present and past
\* whatever has been paid for, and past the present only on account of a live key.
LEMMA NewTatFacts ==
  ASSUME RateTyped, NEW b \in Buckets, KeyOK(b)
  PROVE  /\ NewTat(b) \in Nat /\ nowUs \in Nat
         /\ NewTat(b) >= nowUs + emissionUS /\ NewTat(b) >= Paid(b) + emissionUS
         /\ \/ NewTat(b) = nowUs + emissionUS
            \/ store[b] # Gone /\ NewTat(b) = store[b].tat + emissionUS /\ store[b].tat > nowUs
         /\ store[b] # Gone /\ nowUs \div UsPerMs <= store[b].expireMs /\ nowUs <= store[b].tat =>
              NewTat(b) = store[b].tat + emissionUS
  <1>1. nowUs \in Nat /\ emissionUS \in Nat
    BY QuotaConstants, QuotaAssumption DEF RateTyped
  <1>2. CASE store[b] = Gone
    BY <1>1, <1>2 DEF NewTat, StoredTat, AtLeast, Paid
  <1>3. CASE store[b] # Gone /\ nowUs \div UsPerMs > store[b].expireMs
    <2>1. store[b].tat < nowUs /\ store[b].tat \in Nat
      BY <1>3, ExpiredKeysArePaid DEF KeyOK
    <2>2. QED BY <1>1, <1>3, <2>1 DEF NewTat, StoredTat, AtLeast, Paid
  <1>4. CASE store[b] # Gone /\ ~(nowUs \div UsPerMs > store[b].expireMs)
    <2>1. store[b].tat \in Nat
      BY <1>4 DEF KeyOK
    <2>2. StoredTat(b) = store[b].tat
      BY <1>4 DEF StoredTat
    <2>3. QED BY <1>1, <1>4, <2>1, <2>2 DEF NewTat, AtLeast, Paid
  <1>5. QED BY <1>2, <1>3, <1>4

\* The time to live reaches to the new TAT.
LEMMA TtlFacts ==
  ASSUME RateTyped, NEW b \in Buckets, KeyOK(b)
  PROVE  /\ nowUs \div UsPerMs + TtlMs(b) \in Nat
         /\ nowUs \div UsPerMs <= nowUs \div UsPerMs + TtlMs(b)
         /\ NewTat(b) < UsPerMs * ((nowUs \div UsPerMs + TtlMs(b)) + 1)
  <1> DEFINE m == nowUs \div UsPerMs
             left == NewTat(b) - nowUs
             a == left + UsPerMs - 1
             q == a \div UsPerMs
             ttl == TtlMs(b)
  <1>1. nowUs \in Nat /\ UsPerMs \in Nat \ {0} /\ left \in Nat /\ NewTat(b) = nowUs + left
    BY NewTatFacts, QuotaConstants
  <1>2. m \in Nat /\ nowUs < UsPerMs * m + UsPerMs
    BY <1>1, DivFacts
  <1> HIDE DEF m, left
  <1>3. a \in Nat
    BY <1>1
  <1> HIDE DEF a
  <1>4. q \in Nat /\ a < UsPerMs * q + UsPerMs
    BY <1>1, <1>3, DivFacts
  <1>5. ttl = IF q >= 1 THEN q ELSE 1
    BY DEF TtlMs, AtLeast, CeilDiv, left, a, q
  <1> HIDE DEF q, ttl
  <1>6. left <= UsPerMs * q
    BY <1>1, <1>4 DEF a
  <1>7. ttl \in Nat /\ ttl >= q
    BY <1>4, <1>5
  <1>8. UsPerMs * q <= UsPerMs * ttl
    BY <1>1, <1>4, <1>7
  <1>9. nowUs + left < UsPerMs * m + UsPerMs + UsPerMs * ttl
    BY <1>1, <1>2, <1>4, <1>6, <1>7, <1>8
  <1>10. UsPerMs * ((m + ttl) + 1) = UsPerMs * m + UsPerMs + UsPerMs * ttl
    BY <1>1, <1>2, <1>7
  <1>11. QED BY <1>1, <1>2, <1>7, <1>9, <1>10 DEF m, ttl

\* A granted request: the quota still holds, and the answer is right.
LEMMA GrantKeepsBucket ==
  ASSUME RateTyped, NEW b \in Buckets, BucketOK(b), Grant(b)
  PROVE  BucketOK(b)'
  <1> DEFINE t == NewTat(b)
             x == nowUs \div UsPerMs + TtlMs(b)
             e == emissionUS
             n == Len(grants[b])
  <1>1. /\ e \in Nat \ {0} /\ toleranceUS \in Nat /\ toleranceUS >= e
        /\ t \in Nat /\ nowUs \in Nat /\ t >= nowUs + e /\ t >= Paid(b) + e
    BY NewTatFacts, QuotaConstants DEF BucketOK
  <1>2. x \in Nat /\ t < UsPerMs * (x + 1) /\ nowUs \div UsPerMs <= x
    BY TtlFacts DEF BucketOK
  <1>3. nowUs - (t - toleranceUS) >= 0
    BY DEF Grant, Diff
  <1>4. /\ store'[b] = [tat |-> t, expireMs |-> x] /\ nowUs' = nowUs
        /\ grants'[b] = Append(grants[b], nowUs)
        /\ told'[b] = [at |-> nowUs, allowed |-> TRUE, retryAfter |-> 0,
                       remaining |-> (nowUs - (t - toleranceUS)) \div e]
    BY DEF Grant, Tell, RateTyped, Diff
  <1> HIDE DEF t, x
  <1>5. store'[b] # Gone /\ store'[b].tat = t /\ store'[b].expireMs = x
    BY <1>1, <1>4 DEF Gone
  <1>6. KeyOK(b)'
    BY <1>1, <1>2, <1>4, <1>5 DEF KeyOK
  <1>7. /\ grants[b] \in Seq(Nat) /\ n \in Nat /\ grants'[b] \in Seq(Nat) /\ Len(grants'[b]) = n + 1
        /\ \A i \in 1..n : grants'[b][i] = grants[b][i]
        /\ grants'[b][n + 1] = nowUs
    BY <1>1, <1>4, AppendProperties DEF BucketOK, GrantsArePaid
  <1>8. ASSUME NEW i \in 1..n
        PROVE  /\ grants[b][i] \in Nat /\ grants[b][i] <= nowUs
               /\ ((n + 1) - i + 1) * e <= t - grants[b][i]
    <2>1. /\ grants[b][i] \in Nat /\ grants[b][i] <= nowUs
          /\ (n - i + 1) * e <= Paid(b) - grants[b][i]
      <3>1. grants[b][i] \in Nat
        BY <1>7
      <3>2. \A j \in 1..Len(grants[b]) :
              grants[b][j] <= nowUs /\ (Len(grants[b]) - j + 1) * emissionUS <= Paid(b) - grants[b][j]
        BY DEF BucketOK, GrantsArePaid
      <3> HIDE DEF n, e
      <3>3. QED BY <3>1, <3>2 DEF n, e
    <2>2. Paid(b) \in Int
      BY <1>1 DEF Paid, BucketOK, KeyOK
    <2>3. n - i + 1 \in Int /\ (n + 1) - i + 1 = (n - i + 1) + 1 /\ e \in Int
      <3>1. n \in Nat /\ e \in Int
        BY <1>1, <1>7
      <3> HIDE DEF n, e
      <3>2. QED BY <3>1
    <2>4. (n - i + 1) * e \in Int /\ ((n + 1) - i + 1) * e = (n - i + 1) * e + e
      <3> DEFINE k == n - i + 1
      <3> HIDE DEF k, e
      <3>1. k \in Int /\ e \in Int => k * e \in Int /\ (k + 1) * e = k * e + e
        OBVIOUS
      <3>2. QED BY <2>3, <3>1 DEF k
    <2>5. \A w, z \in Int : w <= Paid(b) - grants[b][i] /\ z = w + e => z <= t - grants[b][i]
      <3>1. grants[b][i] \in Nat
        BY <2>1
      <3>2. QED BY <1>1, <2>2, <3>1
    <2> DEFINE before == (n - i + 1) * e
               after == ((n + 1) - i + 1) * e
    <2>6. before \in Int /\ after = before + e /\ before <= Paid(b) - grants[b][i] /\ e \in Int
      BY <2>1, <2>3, <2>4
    <2> HIDE DEF before, after
    <2>7. after <= t - grants[b][i]
      BY <2>5, <2>6
    <2>8. QED BY <2>1, <2>7 DEF after
  <1>9. GrantsArePaid(b)'
    <2> SUFFICES ASSUME NEW i \in 1..(n + 1)
                 PROVE  /\ grants'[b][i] <= nowUs
                        /\ ((n + 1) - i + 1) * e <= t - grants'[b][i]
      BY <1>4, <1>5, <1>7 DEF GrantsArePaid, Paid, emissionUS
    <2>1. CASE i \in 1..n
      BY <1>7, <1>8, <2>1
    <2>2. CASE i = n + 1
      <3>1. (n + 1) - i + 1 = 1
        BY <1>7, <2>2
      <3>2. QED BY <1>1, <1>7, <2>2, <3>1
    <2>3. i \in 1..n \/ i = n + 1
      BY <1>7
    <2>4. QED BY <2>1, <2>2, <2>3
  <1>10. QuotaOf(b)'
    <2> SUFFICES ASSUME NEW i \in 1..(n + 1), NEW j \in 1..(n + 1), i <= j
                 PROVE  (j - i + 1) * e <= (grants'[b][j] - grants'[b][i]) + toleranceUS
      BY <1>7 DEF QuotaOf
    <2>1. CASE j \in 1..n
      <3>1. i \in 1..n
        BY <1>7, <2>1
      <3>2. QED BY <1>7, <2>1, <3>1 DEF BucketOK, QuotaOf
    <2>2. CASE j = n + 1
      <3>1. ((n + 1) - i + 1) * e <= t - grants'[b][i] /\ grants'[b][i] \in Nat
        <4>1. CASE i \in 1..n
          BY <1>7, <1>8, <4>1
        <4>2. CASE i = n + 1
          <5>1. (n + 1) - i + 1 = 1
            BY <1>7, <4>2
          <5>2. QED BY <1>1, <1>7, <4>2, <5>1
        <4>3. i \in 1..n \/ i = n + 1
          BY <1>7
        <4>4. QED BY <4>1, <4>2, <4>3
      <3>2. ((n + 1) - i + 1) * e \in Int
        BY <1>1, <1>7
      <3>3. \A w \in Int : w <= t - grants'[b][i] => w <= (nowUs - grants'[b][i]) + toleranceUS
        BY <1>1, <1>3, <3>1
      <3>4. QED BY <1>7, <2>2, <3>1, <3>2, <3>3
    <2>3. j \in 1..n \/ j = n + 1
      BY <1>7
    <2>4. QED BY <2>1, <2>2, <2>3
  <1>11. ToldOK(b)'
    <2>1. (nowUs - (t - toleranceUS)) \div e \in Nat
      <3>1. nowUs - (t - toleranceUS) \in Nat
        BY <1>1, <1>3
      <3>2. QED BY <1>1, <3>1, DivFacts
    <2>2. /\ told'[b].allowed = TRUE /\ told'[b].at = nowUs
          /\ told'[b].remaining = (nowUs - (t - toleranceUS)) \div e
      BY <1>4
    <2>3. nowUs <= t /\ t <= nowUs + toleranceUS
      BY <1>1, <1>3
    <2>4. QED BY <1>1, <1>2, <1>4, <1>5, <2>1, <2>2, <2>3 DEF ToldOK
  <1>12. QED BY <1>6, <1>9, <1>10, <1>11 DEF BucketOK

\* A rejected request: the key is live and its TAT ahead, and the answer says how
\* long until it is near enough.
LEMMA RejectKeepsBucket ==
  ASSUME RateTyped, NEW b \in Buckets, BucketOK(b), Reject(b)
  PROVE  BucketOK(b)'
  <1>1. /\ emissionUS \in Nat \ {0} /\ toleranceUS \in Nat /\ toleranceUS >= emissionUS
        /\ NewTat(b) \in Nat /\ nowUs \in Nat
    BY NewTatFacts, QuotaConstants DEF BucketOK
  <1>2. nowUs - (NewTat(b) - toleranceUS) < 0
    BY DEF Reject, Diff
  <1>3. /\ store[b] # Gone /\ NewTat(b) = store[b].tat + emissionUS /\ store[b].tat \in Nat
    BY <1>1, <1>2, NewTatFacts DEF BucketOK, KeyOK
  <1>4. /\ store' = store /\ grants' = grants /\ nowUs' = nowUs
        /\ told'[b] = [at |-> nowUs, allowed |-> FALSE,
                       retryAfter |-> -(nowUs - (NewTat(b) - toleranceUS)), remaining |-> 0]
    BY DEF Reject, Tell, RateTyped, Diff
  <1>5. KeyOK(b)' /\ GrantsArePaid(b)' /\ QuotaOf(b)'
    BY <1>4 DEF BucketOK, KeyOK, GrantsArePaid, Paid, QuotaOf
  <1>6. ToldOK(b)'
    <2>1. /\ told'[b].allowed = FALSE /\ told'[b].at = nowUs /\ told'[b].remaining = 0
          /\ told'[b].retryAfter = -(nowUs - (NewTat(b) - toleranceUS))
      BY <1>4
    <2>2. told'[b].retryAfter \in Nat /\ nowUs + told'[b].retryAfter = NewTat(b) - toleranceUS
      BY <1>1, <1>2, <2>1
    <2>3. QED BY <1>1, <1>3, <1>4, <2>1, <2>2 DEF ToldOK
  <1>7. QED BY <1>5, <1>6 DEF BucketOK

\* Redis removes an expired key: everything granted is paid for.
LEMMA ExpireKeepsBucket ==
  ASSUME RateTyped, NEW b \in Buckets, BucketOK(b), Expire(b)
  PROVE  BucketOK(b)'
  <1>1. /\ emissionUS \in Nat \ {0} /\ toleranceUS \in Nat /\ toleranceUS >= emissionUS /\ nowUs \in Nat
    BY NewTatFacts, QuotaConstants DEF BucketOK
  <1>2. /\ store[b] # Gone /\ nowUs \div UsPerMs > store[b].expireMs
        /\ store'[b] = Gone /\ grants' = grants /\ nowUs' = nowUs /\ told' = told
    BY DEF Expire, RateTyped
  <1>3. store[b].tat < nowUs /\ store[b].tat \in Nat /\ store[b].expireMs \in Nat
    BY <1>2, ExpiredKeysArePaid DEF BucketOK, KeyOK
  <1>4. KeyOK(b)' /\ QuotaOf(b)'
    BY <1>2 DEF BucketOK, KeyOK, QuotaOf
  <1>5. GrantsArePaid(b)'
    <2> SUFFICES ASSUME NEW i \in 1..Len(grants[b])
                 PROVE  (Len(grants[b]) - i + 1) * emissionUS <= nowUs - grants[b][i]
      BY <1>2 DEF BucketOK, GrantsArePaid, Paid
    <2>1. /\ grants[b][i] \in Nat /\ Len(grants[b]) \in Nat
          /\ (Len(grants[b]) - i + 1) * emissionUS <= store[b].tat - grants[b][i]
      <3>1. grants[b] \in Seq(Nat)
        BY DEF BucketOK, GrantsArePaid
      <3>2. (Len(grants[b]) - i + 1) * emissionUS <= Paid(b) - grants[b][i]
        BY DEF BucketOK, GrantsArePaid
      <3>3. QED BY <1>2, <3>1, <3>2 DEF Paid
    <2>2. (Len(grants[b]) - i + 1) * emissionUS \in Int
      BY <1>1, <2>1
    <2> DEFINE owes == (Len(grants[b]) - i + 1) * emissionUS
    <2>3. owes \in Int /\ owes <= store[b].tat - grants[b][i]
      BY <2>1, <2>2
    <2> HIDE DEF owes
    <2>4. owes <= nowUs - grants[b][i]
      <3> DEFINE g == grants[b][i]
                 a == store[b].tat
      <3>1. owes \in Int /\ owes <= a - g /\ a < nowUs /\ a \in Int /\ g \in Int /\ nowUs \in Int
        BY <1>1, <1>3, <2>1, <2>3
      <3> HIDE DEF g, a
      <3>2. QED BY <3>1 DEF g
    <2>5. QED BY <2>4 DEF owes
  <1>6. ToldOK(b)'
    <2>2. CASE told[b] = Unasked
      BY <1>2, <2>2 DEF ToldOK
    <2>3. CASE told[b] # Unasked /\ told[b].allowed = TRUE
      <3>1. told[b].at # nowUs
        <4>1. nowUs \div UsPerMs \in Nat
          BY <1>1, QuotaConstants, DivFacts
        <4>2. QED BY <1>2, <1>3, <2>3, <4>1 DEF BucketOK, ToldOK
      <3>2. QED BY <1>2, <2>3, <3>1 DEF BucketOK, ToldOK
    <2>4. CASE told[b] # Unasked /\ told[b].allowed # TRUE
      BY <1>1, <1>2, <1>3, <2>4 DEF BucketOK, ToldOK
    <2>5. QED BY <2>2, <2>3, <2>4
  <1>7. QED BY <1>4, <1>5, <1>6 DEF BucketOK

\* Time passes.
LEMMA ElapseKeepsBucket ==
  ASSUME RateTyped, NEW b \in Buckets, BucketOK(b), Elapse
  PROVE  BucketOK(b)'
  <1>1. nowUs \in Nat /\ nowUs' = nowUs + 1 /\ UNCHANGED <<store, grants, told>> /\ emissionUS \in Nat
    BY NewTatFacts, QuotaConstants DEF BucketOK, Elapse
  <1>2. KeyOK(b)' /\ QuotaOf(b)'
    BY <1>1 DEF BucketOK, KeyOK, QuotaOf
  <1>3. GrantsArePaid(b)'
    <2> SUFFICES ASSUME NEW i \in 1..Len(grants[b])
                 PROVE  /\ grants[b][i] <= nowUs + 1
                        /\ (Len(grants[b]) - i + 1) * emissionUS <=
                             (IF store[b] = Gone THEN nowUs + 1 ELSE store[b].tat) - grants[b][i]
      BY <1>1 DEF BucketOK, GrantsArePaid, Paid
    <2>1. /\ grants[b][i] \in Nat /\ Len(grants[b]) \in Nat /\ grants[b][i] <= nowUs
          /\ (Len(grants[b]) - i + 1) * emissionUS <= Paid(b) - grants[b][i]
      BY DEF BucketOK, GrantsArePaid
    <2>2. Len(grants[b]) - i + 1 \in Int /\ emissionUS \in Int
      BY <1>1, <2>1
    <2>3. \A m, n \in Int : m * n \in Int
      OBVIOUS
    <2> DEFINE took == (Len(grants[b]) - i + 1) * emissionUS
               covers == IF store[b] = Gone THEN nowUs + 1 ELSE store[b].tat
    <2>4. took \in Int /\ took <= Paid(b) - grants[b][i]
      BY <2>1, <2>2, <2>3
    <2>5. Paid(b) \in Int /\ covers \in Int /\ Paid(b) <= covers
      BY <1>1 DEF Paid, BucketOK, KeyOK
    <2>6. took <= covers - grants[b][i]
      <3> HIDE DEF took, covers
      <3> QED BY <2>1, <2>4, <2>5
    <2>7. QED BY <1>1, <2>1, <2>6
  <1>4. ToldOK(b)'
    BY <1>1 DEF BucketOK, ToldOK
  <1>5. QED BY <1>2, <1>3, <1>4 DEF BucketOK

\* A limiter nobody has asked yet.
LEMMA InitQInv == RateInit => QInv
  <1> SUFFICES ASSUME RateInit PROVE QInv
    OBVIOUS
  <1>1. RateTyped
    BY QuotaAssumption DEF RateInit, RateTyped
  <1>2. ASSUME NEW b \in Buckets PROVE BucketOK(b)
    <2>1. store[b] = Gone /\ grants[b] = <<>> /\ told[b] = Unasked
      BY DEF RateInit
    <2>2. QED BY <2>1 DEF BucketOK, KeyOK, GrantsArePaid, QuotaOf, ToldOK
  <1>3. QED BY <1>1, <1>2 DEF QInv

\* Every step preserves the invariant.
LEMMA NextQInv == QInv /\ [RateNext]_rateVars => QInv'
  <1> SUFFICES ASSUME QInv, [RateNext]_rateVars PROVE QInv'
    OBVIOUS
  <1>1. RateTyped'
    <2>1. CASE Elapse \/ UNCHANGED rateVars
      BY <2>1, QuotaAssumption DEF QInv, RateTyped, Elapse, rateVars
    <2>2. CASE \E b \in Buckets : Expire(b) \/ Allow(b)
      BY <2>2 DEF QInv, RateTyped, Expire, Allow, Grant, Reject, Tell
    <2>3. QED BY <2>1, <2>2 DEF RateNext
  <1>2. ASSUME NEW c \in Buckets PROVE BucketOK(c)'
    <2>1. RateTyped /\ BucketOK(c)
      BY DEF QInv
    <2>2. CASE Elapse
      BY <2>1, <2>2, ElapseKeepsBucket
    <2>3. CASE \E b \in Buckets : Expire(b) \/ Allow(b)
      <3>1. PICK b \in Buckets : Expire(b) \/ Allow(b)
        BY <2>3
      <3>2. CASE b = c
        BY <2>1, <3>1, <3>2, ExpireKeepsBucket, GrantKeepsBucket, RejectKeepsBucket DEF Allow
      <3>3. CASE b # c
        <4>1. nowUs' = nowUs /\ store'[c] = store[c] /\ grants'[c] = grants[c] /\ told'[c] = told[c]
          BY <2>1, <3>1, <3>3 DEF Expire, Allow, Grant, Reject, Tell, RateTyped
        <4>2. QED BY <2>1, <4>1, OtherBuckets
      <3>4. QED BY <3>2, <3>3
    <2>4. CASE UNCHANGED rateVars
      BY <2>1, <2>4, OtherBuckets DEF rateVars
    <2>5. QED BY <2>2, <2>3, <2>4 DEF RateNext
  <1>3. QED BY <1>1, <1>2 DEF QInv

\* The invariant holds throughout.
LEMMA SpecQInv == RateSpec => []QInv
  BY InitQInv, NextQInv, PTL DEF RateSpec

\* The invariant includes the types.
LEMMA QInvTypes == QInv => RateTypeOK
  BY DEF QInv, RateTyped, BucketOK, KeyOK, ToldOK, Unasked, RateTypeOK

\* Every reachable state of the limiter is well typed.
THEOREM RateTypeCorrect == RateSpec => []RateTypeOK
  BY QInvTypes, SpecQInv, PTL

\* The invariant bounds every stretch of grants.
LEMMA QInvQuota == QInv => QuotaHolds
  BY DEF QInv, BucketOK, QuotaOf, QuotaHolds

\* gcraScript, for every quota and every arrival pattern: no stretch of time sees
\* more than the tolerance and one request per interval, whatever Redis expires.
THEOREM QuotaIsNeverExceeded == RateSpec => []QuotaHolds
  BY QInvQuota, SpecQInv, PTL

\* After a grant, the next decision of the same instant.
LEMMA GrantPredicts ==
  ASSUME RateTyped, NEW b \in Buckets, BucketOK(b), Allow(b),
         told[b] # Unasked, told[b].allowed = TRUE, told[b].at = nowUs
  PROVE  /\ Diff(b) >= 0 <=> told[b].remaining >= 1
         /\ Diff(b) >= 0 => Diff(b) \div emissionUS = told[b].remaining - 1
  <1> DEFINE a == nowUs - (store[b].tat - toleranceUS)
  <1>1. /\ emissionUS \in Nat \ {0} /\ toleranceUS \in Nat /\ nowUs \in Nat
    BY NewTatFacts, QuotaConstants DEF BucketOK
  <1>2. /\ store[b] # Gone /\ nowUs \div UsPerMs <= store[b].expireMs
        /\ nowUs <= store[b].tat /\ store[b].tat <= nowUs + toleranceUS
        /\ told[b].remaining = a \div emissionUS
    BY DEF BucketOK, ToldOK
  <1>3. store[b].tat \in Nat /\ a \in Nat
    BY <1>1, <1>2 DEF BucketOK, KeyOK
  <1>4. Diff(b) = a - emissionUS
    <2>1. NewTat(b) = store[b].tat + emissionUS
      BY <1>2, NewTatFacts DEF BucketOK
    <2>2. QED BY <1>1, <1>3, <2>1 DEF Diff
  <1> HIDE DEF a
  <1>5. QED BY <1>1, <1>2, <1>3, <1>4, DivMinus

\* After a rejection, the next decision at any instant.
LEMMA RejectionPredicts ==
  ASSUME RateTyped, NEW b \in Buckets, BucketOK(b), told[b] # Unasked, told[b].allowed = FALSE
  PROVE  Diff(b) >= 0 <=> nowUs >= told[b].at + told[b].retryAfter
  <1> DEFINE again == told[b].at + told[b].retryAfter
  <1>1. /\ emissionUS \in Nat \ {0} /\ toleranceUS \in Nat /\ toleranceUS >= emissionUS /\ nowUs \in Nat
        /\ NewTat(b) \in Nat
    BY NewTatFacts, QuotaConstants DEF BucketOK
  <1>2. /\ again \in Nat
        /\ IF store[b] = Gone THEN nowUs >= again ELSE again = store[b].tat + emissionUS - toleranceUS
    BY DEF BucketOK, ToldOK
  <1> HIDE DEF again
  <1>3. store[b] # Gone => store[b].tat \in Nat
    BY DEF BucketOK, KeyOK
  <1>4. \/ NewTat(b) = nowUs + emissionUS /\ (store[b] # Gone => store[b].tat <= nowUs)
        \/ store[b] # Gone /\ NewTat(b) = store[b].tat + emissionUS /\ store[b].tat > nowUs
    <2>1. NewTat(b) >= Paid(b) + emissionUS
      BY NewTatFacts DEF BucketOK
    <2>2. QED BY <1>1, <1>3, <2>1, NewTatFacts DEF BucketOK, Paid
  <1>5. Diff(b) = nowUs - (NewTat(b) - toleranceUS)
    BY DEF Diff
  <1>6. QED BY <1>1, <1>2, <1>3, <1>4, <1>5 DEF again

\* What every answer says of the next is exact: RetryAfter is the first instant
\* that succeeds and Remaining the number of requests that still do, for every
\* quota, although both are computed from truncated intervals.
THEOREM AnswersAreExact == RateSpec => AnswersPredictTheNext
  <1> DEFINE P(b) ==
        LET was == told[b]
            is == told'[b]
        IN /\ is # was /\ was # Unasked
           => IF was.allowed
                THEN is.at = was.at =>
                       /\ is.allowed <=> was.remaining >= 1
                       /\ is.allowed => is.remaining = was.remaining - 1
                ELSE is.allowed <=> is.at >= was.at + was.retryAfter
  <1>1. QInv /\ [RateNext]_rateVars => \A b \in Buckets : P(b)
    <2> SUFFICES ASSUME QInv, [RateNext]_rateVars, NEW b \in Buckets,
                        told'[b] # told[b], told[b] # Unasked
                 PROVE  P(b)
      OBVIOUS
    <2>1. RateTyped /\ BucketOK(b)
      BY DEF QInv
    <2>2. Allow(b)
      BY <2>1 DEF RateNext, rateVars, Elapse, Expire, Allow, Grant, Reject, Tell, RateTyped
    <2>3. nowUs \in Nat /\ Diff(b) \in Int
      BY <2>1, NewTatFacts, QuotaConstants DEF BucketOK, Diff
    <2>4. /\ told'[b].at = nowUs
          /\ Diff(b) >= 0 => told'[b].allowed = TRUE /\ told'[b].remaining = Diff(b) \div emissionUS
          /\ ~(Diff(b) >= 0) => told'[b].allowed = FALSE
      BY <2>1, <2>2, <2>3 DEF Allow, Grant, Reject, Tell, RateTyped
    <2>5. told[b].allowed = TRUE \/ told[b].allowed = FALSE
      BY <2>1 DEF BucketOK, ToldOK
    <2>6. CASE told[b].allowed = TRUE
      <3> SUFFICES ASSUME told'[b].at = told[b].at
                   PROVE  /\ told'[b].allowed <=> told[b].remaining >= 1
                          /\ told'[b].allowed => told'[b].remaining = told[b].remaining - 1
        BY <2>6
      <3>1. /\ Diff(b) >= 0 <=> told[b].remaining >= 1
            /\ Diff(b) >= 0 => Diff(b) \div emissionUS = told[b].remaining - 1
        BY <2>1, <2>2, <2>4, <2>6, GrantPredicts
      <3>2. QED BY <2>4, <3>1
    <2>7. CASE told[b].allowed = FALSE
      <3>1. Diff(b) >= 0 <=> nowUs >= told[b].at + told[b].retryAfter
        BY <2>1, <2>7, RejectionPredicts
      <3>2. QED BY <2>4, <2>7, <3>1
    <2>8. QED BY <2>5, <2>6, <2>7
  <1>2. QED BY <1>1, SpecQInv, PTL DEF RateSpec, AnswersPredictTheNext

\* Where the microsecond divides the emission interval nothing is truncated, and
\* the burst is the documented one: at most Burst requests at any instant, however
\* the keys expire. (Otherwise the tolerance keeps fractions the interval lost.)
THEOREM WholeIntervalsKeepTheBurst ==
  ASSUME EmissionInterval % NsPerUs = 0
  PROVE  RateSpec => []AtMostBurstAtOnce
  <1>1. /\ NsPerUs \in Nat \ {0} /\ Burst \in Nat \ {0} /\ Period \in Nat /\ Limit \in Nat \ {0}
    BY QuotaAssumption
  <1>2. EmissionInterval \in Nat
    BY <1>1, DivFacts DEF EmissionInterval
  <1>3. EmissionInterval = NsPerUs * emissionUS /\ emissionUS \in Nat \ {0}
    BY <1>1, <1>2, ModFacts, QuotaConstants DEF emissionUS
  <1>4. toleranceUS = emissionUS * Burst
    <2> DEFINE x == EmissionInterval * Burst
               q == emissionUS * Burst
    <2>1. q \in Nat /\ x = NsPerUs * q /\ x \in Nat
      BY <1>1, <1>2, <1>3
    <2> HIDE DEF x, q
    <2>2. x \div NsPerUs = q
      BY <1>1, <2>1, DivUnique
    <2>3. QED BY <2>2 DEF toleranceUS, DelayTolerance, x, q
  <1>5. QInv => AtMostBurstAtOnce
    <2> SUFFICES ASSUME QInv, NEW b \in Buckets, NEW i \in 1..Len(grants[b]), NEW j \in 1..Len(grants[b]),
                        i <= j, grants[b][i] = grants[b][j]
                 PROVE  j - i + 1 <= Burst
      BY DEF AtMostBurstAtOnce
    <2>1. grants[b] \in Seq(Nat)
      BY DEF QInv, BucketOK, GrantsArePaid
    <2>2. grants[b][i] \in Nat /\ grants[b][j] \in Nat /\ i \in Nat /\ j \in Nat
      BY <2>1
    <2>3. (j - i + 1) * emissionUS <= (grants[b][j] - grants[b][i]) + toleranceUS
      BY DEF QInv, BucketOK, QuotaOf
    <2> DEFINE k == j - i + 1
    <2>4. k \in Int /\ k * emissionUS <= emissionUS * Burst
      BY <1>1, <1>3, <1>4, <2>2, <2>3
    <2> HIDE DEF k
    <2>5. emissionUS * k < emissionUS * (Burst + 1)
      BY <1>1, <1>3, <2>4
    <2>6. k < Burst + 1
      BY <1>1, <1>3, <2>4, <2>5, MulCancel
    <2>7. QED BY <1>1, <2>4, <2>6 DEF k
  <1>6. QED BY <1>5, SpecQInv, PTL

-----------------------------------------------------------------------------
(* Money *)

\* The bounds of the machine's integers and of what an amount can hold.
LEMMA MoneyConstants ==
  /\ HalfRange \in Nat \ {0} /\ NanosPerUnit \in Nat /\ NanosPerUnit >= 2 /\ NanosPerUnit < HalfRange
  /\ MaxInt = HalfRange - 1 /\ MinInt = -HalfRange
  /\ maxUnits \in Nat /\ NanosPerUnit * maxUnits <= HalfRange - NanosPerUnit
  /\ 2 * maxUnits <= HalfRange - NanosPerUnit
  /\ Largest = maxUnits * NanosPerUnit + NanosPerUnit - 1 /\ Largest \in Nat /\ Largest < HalfRange
  <1>1. /\ HalfRange \in Nat \ {0} /\ NanosPerUnit \in Nat /\ NanosPerUnit >= 2 /\ NanosPerUnit < HalfRange
    BY MoneyAssumption
  <1>2. MaxInt = HalfRange - 1 /\ MinInt = -HalfRange
    BY DEF MaxInt, MinInt
  <1>3. maxUnits \in Nat /\ NanosPerUnit * maxUnits <= HalfRange - NanosPerUnit
    <2>1. MaxInt - (NanosPerUnit - 1) = HalfRange - NanosPerUnit
      BY <1>1, <1>2
    <2>2. HalfRange - NanosPerUnit \in Nat
      BY <1>1
    <2>3. QED BY <1>1, <2>1, <2>2, DivFacts DEF maxUnits
  <1>4. 2 * maxUnits <= NanosPerUnit * maxUnits
    BY <1>1, <1>3
  <1>5. /\ Largest = maxUnits * NanosPerUnit + NanosPerUnit - 1 /\ Largest \in Nat /\ Largest < HalfRange
    <2>1. Largest = maxUnits * NanosPerUnit + NanosPerUnit - 1
      BY DEF Largest
    <2>2. maxUnits * NanosPerUnit \in Nat /\ maxUnits * NanosPerUnit = NanosPerUnit * maxUnits
      BY <1>1, <1>3
    <2>3. QED BY <1>1, <1>3, <2>1, <2>2
  <1>6. QED BY <1>1, <1>2, <1>3, <1>4, <1>5

\* Wraparound: the result is a machine integer, and differs from x by a multiple
\* of the range.
LEMMA WrapFacts ==
  ASSUME NEW x \in Int
  PROVE  /\ Wrap(x) \in -HalfRange..(HalfRange - 1)
         /\ \E k \in Int : x = Wrap(x) + 2 * HalfRange * k
  <1> DEFINE n == 2 * HalfRange
             y == x + HalfRange
  <1>1. HalfRange \in Nat \ {0} /\ n \in Nat \ {0} /\ y \in Int
    BY MoneyConstants
  <1>2. Wrap(x) = (y % n) - HalfRange
    <2>1. x - MinInt = y /\ MinInt = -HalfRange
      BY <1>1, MoneyConstants
    <2>2. \A z \in Int : z + -HalfRange = z - HalfRange
      BY <1>1
    <2>3. y % n \in Int
      BY <1>1, ModFacts
    <2>4. QED BY <2>1, <2>2, <2>3 DEF Wrap
  <1> HIDE DEF n
  <1>3. y % n \in 0..(n - 1) /\ y = n * (y \div n) + (y % n) /\ y \div n \in Int
    BY <1>1, ModFacts
  <1>4. x = Wrap(x) + n * (y \div n)
    BY <1>1, <1>2, <1>3
  <1>5. QED BY <1>1, <1>2, <1>3, <1>4 DEF n

\* What it does to a machine integer, and to a value less than a range away.
LEMMA WrapNear ==
  ASSUME NEW x \in Int
  PROVE  /\ -HalfRange <= x /\ x < HalfRange => Wrap(x) = x
         /\ HalfRange <= x /\ x < 3 * HalfRange => Wrap(x) = x - 2 * HalfRange
         /\ -(3 * HalfRange) <= x /\ x < -HalfRange => Wrap(x) = x + 2 * HalfRange
  <1>1. PICK k \in Int : x = Wrap(x) + 2 * HalfRange * k
    BY WrapFacts
  <1>2. Wrap(x) \in -HalfRange..(HalfRange - 1) /\ HalfRange \in Nat \ {0}
    BY WrapFacts, MoneyConstants
  <1> DEFINE h == HalfRange
             w == Wrap(x)
  <1>3. w \in Int /\ -h <= w /\ w < h /\ h \in Nat \ {0} /\ x = w + 2 * h * k
    BY <1>1, <1>2
  <1> HIDE DEF h, w
  <1>4. CASE k = 0
    BY <1>3, <1>4 DEF h, w
  <1>5. CASE k = 1
    BY <1>3, <1>5 DEF h, w
  <1>6. CASE k = -1
    BY <1>3, <1>6 DEF h, w
  <1>7. CASE k >= 2
    <2>1. x >= w + 4 * h
      BY <1>3, <1>7
    <2>2. QED BY <1>3, <2>1 DEF h, w
  <1>8. CASE k <= -2
    <2>1. x <= w - 4 * h
      BY <1>3, <1>8
    <2>2. QED BY <1>3, <2>1 DEF h, w
  <1>9. QED BY <1>4, <1>5, <1>6, <1>7, <1>8

\* Truncated division of a machine integer by a positive number: the remainder is
\* smaller than the divisor and has the sign of the dividend, as has the quotient.
LEMMA QuotFacts ==
  ASSUME NEW a \in Int, -HalfRange <= a, a < HalfRange, NEW b \in Nat \ {0}
  PROVE  /\ Quot(a, b) \in Int
         /\ a >= 0 => /\ Quot(a, b) >= 0 /\ Quot(a, b) * b <= a /\ a - Quot(a, b) * b < b
         /\ a <= 0 => /\ Quot(a, b) <= 0 /\ Quot(a, b) * b >= a /\ a - Quot(a, b) * b > -b
  <1> DEFINE x == IF a < 0 THEN -a ELSE a
             q == x \div b
  <1>1. HalfRange \in Nat \ {0} /\ x \in Nat
    BY MoneyConstants
  <1>2. q \in Nat /\ b * q <= x /\ x < b * q + b
    BY <1>1, DivFacts
  <1>3. ~(b < 0) /\ b >= 1
    OBVIOUS
  <1>4. Quot(a, b) = Wrap(IF a < 0 THEN -q ELSE q)
    <2>1. (IF b < 0 THEN -b ELSE b) = b
      BY <1>3
    <2>2. CASE a < 0
      BY <1>3, <2>1, <2>2 DEF Quot
    <2>3. CASE ~(a < 0)
      BY <1>3, <2>1, <2>3 DEF Quot
    <2>4. QED BY <2>2, <2>3
  <1> HIDE DEF q
  <1>5. q <= x
    BY <1>1, <1>2, <1>3
  <1>6. CASE a < 0
    <2>1. x = -a /\ -q \in Int /\ -HalfRange <= -q /\ -q < HalfRange
      BY <1>1, <1>2, <1>5, <1>6
    <2>2. Quot(a, b) = -q
      BY <1>4, <1>6, <2>1, WrapNear
    <2>3. QED BY <1>1, <1>2, <1>6, <2>1, <2>2
  <1>7. CASE ~(a < 0)
    <2>1. x = a /\ q \in Int /\ -HalfRange <= q /\ q < HalfRange
      BY <1>1, <1>2, <1>5, <1>7
    <2>2. Quot(a, b) = q
      BY <1>4, <1>7, <2>1, WrapNear
    <2>3. QED BY <1>1, <1>2, <1>7, <2>1, <2>2
  <1>8. QED BY <1>6, <1>7

Amounts == [cur : Currencies, units : Int, nanos : Int]

\* What an operation on amounts may answer, when total is its true result.
Outcome(result, cur, total) ==
  \/ result = Mismatch
  \/ result = Overflow /\ ~Representable(total)
  \/ /\ result \in Amounts /\ ValidateMoney(result) /\ Nanos(result) = total
     /\ result.cur = cur

\* The nanos of a valid amount are those that can be represented, and totalNanos
\* computes them.
LEMMA ValidAmounts ==
  ASSUME NEW m \in Amounts, ValidateMoney(m)
  PROVE  /\ Nanos(m) \in Int /\ Representable(Nanos(m)) /\ totalNanos(m) = Nanos(m)
         /\ -HalfRange < Nanos(m) /\ Nanos(m) < HalfRange
  <1> DEFINE u == m.units
             n == m.nanos
             N == NanosPerUnit
  <1>1. u \in Int /\ n \in Int /\ n > -N /\ n < N /\ u <= maxUnits /\ u >= -maxUnits
    BY DEF Amounts, ValidateMoney, InRange
  <1>2. /\ HalfRange \in Nat \ {0} /\ N \in Nat /\ N >= 2 /\ maxUnits \in Nat
        /\ N * maxUnits <= HalfRange - N
        /\ Largest = maxUnits * N + N - 1 /\ Largest \in Nat /\ Largest < HalfRange
    BY MoneyConstants
  <1>3. Nanos(m) = u * N + n /\ totalNanos(m) = Wrap(Wrap(u * N) + n)
    BY DEF Nanos, totalNanos
  <1> HIDE DEF u, n, N
  <1>4. u * N \in Int /\ u * N <= maxUnits * N /\ u * N >= -(maxUnits * N) /\ maxUnits * N \in Nat
        /\ maxUnits * N <= HalfRange - N
    BY <1>1, <1>2
  <1>5. Wrap(u * N) = u * N
    BY <1>2, <1>4, WrapNear
  <1>6. /\ u * N + n \in Int /\ u * N + n <= Largest /\ u * N + n >= -Largest
    BY <1>1, <1>2, <1>4
  <1>7. -HalfRange < u * N + n /\ u * N + n < HalfRange
    BY <1>2, <1>6
  <1>8. Wrap(u * N + n) = u * N + n
    BY <1>2, <1>6, <1>7, WrapNear
  <1>9. QED BY <1>2, <1>3, <1>5, <1>6, <1>7, <1>8 DEF Representable

\* fromTotalNanos with its range check.
LEMMA FromTotal ==
  ASSUME NEW c \in Currencies, NEW s \in Int, -HalfRange <= s, s < HalfRange
  PROVE  /\ Outcome(Ranged(fromTotalNanos(c, s)), c, s)
         /\ Ranged(fromTotalNanos(c, s)) # Mismatch
  <1> DEFINE N == NanosPerUnit
             q == Quot(s, N)
             r == s - N * q
  <1>1. /\ HalfRange \in Nat \ {0} /\ N \in Nat \ {0} /\ N >= 2 /\ maxUnits \in Nat
        /\ Largest = maxUnits * N + N - 1 /\ Largest \in Nat
    BY MoneyConstants
  <1>2. /\ q \in Int
        /\ s >= 0 => q >= 0 /\ q * N <= s /\ s - q * N < N
        /\ s <= 0 => q <= 0 /\ q * N >= s /\ s - q * N > -N
    BY <1>1, QuotFacts
  <1>3. fromTotalNanos(c, s) = [cur |-> c, units |-> q, nanos |-> r]
    BY DEF fromTotalNanos, Amount, Rem
  <1> HIDE DEF q, N
  <1>4. r \in Int /\ r = s - q * N /\ q * N + r = s
    BY <1>1, <1>2
  <1> HIDE DEF r
  <1>5. CASE InRange(q)
    <2> DEFINE m == [cur |-> c, units |-> q, nanos |-> r]
    <2>1. Ranged(fromTotalNanos(c, s)) = m
      BY <1>3, <1>5 DEF Ranged
    <2>2. m \in Amounts /\ m.units = q /\ m.nanos = r /\ m.cur = c
      BY <1>2, <1>4 DEF Amounts
    <2>3. m # Mismatch
      BY DEF Mismatch
    <2> HIDE DEF m
    <2>4. r > -N /\ r < N /\ ~(q > 0 /\ r < 0) /\ ~(q < 0 /\ r > 0)
      BY <1>1, <1>2, <1>4
    <2>5. ValidateMoney(m)
      BY <1>5, <2>2, <2>4 DEF ValidateMoney, N
    <2>6. Nanos(m) = s
      BY <1>4, <2>2 DEF Nanos, N
    <2>7. QED BY <2>1, <2>2, <2>3, <2>5, <2>6 DEF Outcome
  <1>6. CASE ~InRange(q)
    <2>1. Ranged(fromTotalNanos(c, s)) = Overflow
      BY <1>3, <1>6 DEF Ranged
    <2>2. q >= maxUnits + 1 \/ q <= -(maxUnits + 1)
      BY <1>1, <1>2, <1>6 DEF InRange
    <2>3. q >= maxUnits + 1 => s > Largest
      <3> SUFFICES ASSUME q >= maxUnits + 1 PROVE s > Largest
        OBVIOUS
      <3>1. s >= 0
        BY <1>1, <1>2
      <3>2. q * N >= (maxUnits + 1) * N
        BY <1>1, <1>2
      <3>3. QED BY <1>1, <1>2, <3>1, <3>2
    <2>4. q <= -(maxUnits + 1) => s < -Largest
      <3> SUFFICES ASSUME q <= -(maxUnits + 1) PROVE s < -Largest
        OBVIOUS
      <3>1. s <= 0
        BY <1>1, <1>2
      <3>2. q * N <= -(maxUnits + 1) * N
        BY <1>1, <1>2
      <3>3. QED BY <1>1, <1>2, <3>1, <3>2
    <2>5. ~Representable(s)
      BY <1>1, <2>2, <2>3, <2>4 DEF Representable
    <2>6. Overflow # Mismatch
      BY DEF Overflow, Mismatch
    <2>7. QED BY <2>1, <2>5, <2>6 DEF Outcome
  <1>7. QED BY <1>5, <1>6

\* Add and Sub (combine) of any two valid amounts: the wraparound check on the
\* sum catches every sum that does not fit, and refuses none that does.
THEOREM AddAndSubAreExact ==
  ASSUME NEW m \in Amounts, ValidateMoney(m), NEW o \in Amounts, ValidateMoney(o), NEW negate \in BOOLEAN
  PROVE  Outcome(combine(m, o, negate), m.cur, IF negate THEN Nanos(m) - Nanos(o) ELSE Nanos(m) + Nanos(o))
  <1> DEFINE a == totalNanos(m)
             b == IF negate THEN Wrap(-totalNanos(o)) ELSE totalNanos(o)
             sum == Wrap(a + b)
             total == IF negate THEN Nanos(m) - Nanos(o) ELSE Nanos(m) + Nanos(o)
             wrapped == (b > 0 /\ sum < a) \/ (b < 0 /\ sum > a)
  <1>1. /\ HalfRange \in Nat \ {0} /\ Largest \in Nat /\ Largest < HalfRange
    BY MoneyConstants
  <1>2. /\ a \in Int /\ -HalfRange < a /\ a < HalfRange
        /\ b \in Int /\ -HalfRange < b /\ b < HalfRange /\ total = a + b
    <2>1. /\ Nanos(m) \in Int /\ totalNanos(m) = Nanos(m) /\ -HalfRange < Nanos(m) /\ Nanos(m) < HalfRange
          /\ Nanos(o) \in Int /\ totalNanos(o) = Nanos(o) /\ -HalfRange < Nanos(o) /\ Nanos(o) < HalfRange
      BY ValidAmounts
    <2>2. -Nanos(o) \in Int /\ Wrap(-Nanos(o)) = -Nanos(o)
      BY <1>1, <2>1, WrapNear
    <2>3. CASE negate
      BY <1>1, <2>1, <2>2, <2>3
    <2>4. CASE ~negate
      BY <1>1, <2>1, <2>4
    <2>5. QED BY <2>3, <2>4
  <1>3. InRange(m.units) /\ InRange(o.units) /\ m.cur \in Currencies
    BY DEF ValidateMoney, Amounts
  <1>4. combine(m, o, negate) = IF m.cur # o.cur THEN Mismatch
                                ELSE IF wrapped THEN Overflow ELSE Ranged(fromTotalNanos(m.cur, sum))
    BY <1>3 DEF combine
  <1> HIDE DEF a, b, total
  <1>5. CASE m.cur # o.cur
    BY <1>4, <1>5 DEF Outcome, total
  <1>6. CASE m.cur = o.cur /\ -HalfRange <= a + b /\ a + b < HalfRange
    <2>1. a + b \in Int /\ sum = a + b
      BY <1>2, <1>6, WrapNear
    <2>2. ~wrapped
      BY <1>2, <2>1
    <2>3. Outcome(Ranged(fromTotalNanos(m.cur, a + b)), m.cur, a + b)
      BY <1>3, <1>6, <2>1, FromTotal
    <2>4. combine(m, o, negate) = Ranged(fromTotalNanos(m.cur, a + b))
      BY <1>4, <1>6, <2>1, <2>2
    <2>5. QED BY <1>2, <2>3, <2>4 DEF total
  <1>7. CASE m.cur = o.cur /\ ~(-HalfRange <= a + b /\ a + b < HalfRange)
    <2>1. a + b \in Int /\ (a + b >= HalfRange \/ a + b < -HalfRange)
      BY <1>1, <1>2, <1>7
    <2>2. wrapped
      <3>1. CASE a + b >= HalfRange
        <4>1. sum = (a + b) - 2 * HalfRange
          BY <1>1, <1>2, <2>1, <3>1, WrapNear
        <4>2. b > 0 /\ sum < a
          BY <1>1, <1>2, <3>1, <4>1
        <4>3. QED BY <4>2
      <3>2. CASE a + b < -HalfRange
        <4>1. sum = (a + b) + 2 * HalfRange
          BY <1>1, <1>2, <2>1, <3>2, WrapNear
        <4>2. b < 0 /\ sum > a
          BY <1>1, <1>2, <3>2, <4>1
        <4>3. QED BY <4>2
      <3>3. QED BY <2>1, <3>1, <3>2
    <2>3. ~Representable(total)
      BY <1>1, <1>2, <2>1 DEF Representable
    <2>4. combine(m, o, negate) = Overflow
      BY <1>4, <1>7, <2>2
    <2>5. QED BY <2>3, <2>4 DEF Outcome, total
  <1>8. QED BY <1>5, <1>6, <1>7

\* Truncated division with signs.
LEMMA QuotSigned ==
  ASSUME NEW w \in Int, NEW n \in Int, n # 0
  PROVE  \E q \in Nat :
           /\ Quot(w, n) = Wrap(IF (w < 0) = (n < 0) THEN q ELSE -q)
           /\ q * (IF n < 0 THEN -n ELSE n) <= IF w < 0 THEN -w ELSE w
           /\ (IF w < 0 THEN -w ELSE w) < q * (IF n < 0 THEN -n ELSE n) + (IF n < 0 THEN -n ELSE n)
  <1> DEFINE x == IF w < 0 THEN -w ELSE w
             y == IF n < 0 THEN -n ELSE n
             q == x \div y
  <1>1. x \in Nat /\ y \in Nat \ {0}
    OBVIOUS
  <1>2. Quot(w, n) = Wrap(IF (w < 0) = (n < 0) THEN q ELSE -q)
    BY DEF Quot
  <1> HIDE DEF x, y
  <1>3. q \in Nat /\ y * q <= x /\ x < y * q + y
    BY <1>1, DivFacts
  <1>4. y * q = q * y
    BY <1>1, <1>3
  <1> HIDE DEF q
  <1>5. QED BY <1>2, <1>3, <1>4 DEF x, y

\* The check of Mul is exact: dividing the wrapped product gives the factor back
\* if and only if nothing was lost.
LEMMA DivisionDetectsWraparound ==
  ASSUME NEW t \in Int, -HalfRange < t, t < HalfRange, NEW n \in Int, n # 0
  PROVE  /\ -HalfRange < t * n /\ t * n < HalfRange => Quot(Wrap(t * n), n) = t
         /\ Quot(Wrap(t * n), n) = t => Wrap(t * n) = t * n
  <1> DEFINE h == HalfRange
             p == t * n
             w == Wrap(p)
             x == IF w < 0 THEN -w ELSE w
             y == IF n < 0 THEN -n ELSE n
  <1>1. /\ h \in Nat \ {0} /\ p \in Int /\ w \in Int /\ -h <= w /\ w < h
        /\ x \in Nat /\ y \in Nat \ {0} /\ x <= h
    <2>1. h \in Nat \ {0} /\ p \in Int
      BY MoneyConstants
    <2>2. w \in -h..(h - 1)
      BY <2>1, WrapFacts
    <2> HIDE DEF h, p, w
    <2>3. w \in Int /\ -h <= w /\ w < h
      BY <2>1, <2>2
    <2>4. QED BY <2>1, <2>3
  <1>2. PICK q \in Nat : /\ Quot(w, n) = Wrap(IF (w < 0) = (n < 0) THEN q ELSE -q)
                         /\ q * y <= x /\ x < q * y + y
    BY <1>1, QuotSigned
  <1>3. ASSUME -h < p, p < h PROVE Quot(w, n) = t
    <2>1. w = p
      BY <1>1, <1>3, WrapNear
    <2>2. x = (IF t < 0 THEN -t ELSE t) * y
      <3>1. CASE t >= 0 /\ n > 0
        BY <2>1, <3>1
      <3>2. CASE t >= 0 /\ n < 0
        BY <2>1, <3>2
      <3>3. CASE t < 0 /\ n > 0
        BY <2>1, <3>3
      <3>4. CASE t < 0 /\ n < 0
        BY <2>1, <3>4
      <3>5. QED BY <3>1, <3>2, <3>3, <3>4
    <2>3. q = IF t < 0 THEN -t ELSE t
      <3> DEFINE z == IF t < 0 THEN -t ELSE t
      <3>1. z \in Nat /\ q * y <= z * y /\ z * y < q * y + y
        BY <1>2, <2>2
      <3> HIDE DEF z, y
      <3>2. y * q < y * (z + 1) /\ y * z < y * (q + 1)
        BY <1>1, <3>1
      <3>3. q < z + 1 /\ z < q + 1
        BY <1>1, <3>1, <3>2, MulCancel
      <3>4. QED BY <3>1, <3>3 DEF z
    <2>4. t # 0 => ((w < 0) = (n < 0) <=> t > 0)
      <3>1. CASE t > 0 /\ n > 0
        BY <2>1, <3>1
      <3>2. CASE t > 0 /\ n < 0
        BY <2>1, <3>2
      <3>3. CASE t < 0 /\ n > 0
        BY <2>1, <3>3
      <3>4. CASE t < 0 /\ n < 0
        BY <2>1, <3>4
      <3>5. QED BY <3>1, <3>2, <3>3, <3>4
    <2>5. (IF (w < 0) = (n < 0) THEN q ELSE -q) = t
      BY <2>3, <2>4
    <2>6. QED BY <1>1, <1>2, <2>5, WrapNear
  <1>4. ASSUME Quot(w, n) = t PROVE w = p
    <2>1. q <= h
      <3>1. q <= q * y
        BY <1>1
      <3>2. QED BY <1>1, <1>2, <3>1
    <2>2. /\ (w < 0) = (n < 0) => q = t
          /\ (w < 0) # (n < 0) => q = -t
      <3>1. CASE (w < 0) = (n < 0)
        <4>1. Wrap(q) = t
          BY <1>2, <1>4, <3>1
        <4>2. q = h => Wrap(q) = q - 2 * h
          BY <1>1, WrapNear
        <4>3. q < h => Wrap(q) = q
          BY <1>1, WrapNear
        <4>4. QED BY <1>1, <2>1, <3>1, <4>1, <4>2, <4>3
      <3>2. CASE (w < 0) # (n < 0)
        <4>1. Wrap(-q) = t /\ -q \in Int
          BY <1>2, <1>4, <3>2
        <4>2. Wrap(-q) = -q
          BY <1>1, <2>1, <4>1, WrapNear
        <4>3. QED BY <3>2, <4>1, <4>2
      <3>3. QED BY <3>1, <3>2
    <2>3. -h <= p /\ p <= h
      <3>1. q * y <= h
        BY <1>1, <1>2
      <3>2. (q = t \/ q = -t) /\ (y = n \/ y = -n)
        BY <2>2
      <3>3. p = q * y \/ p = -(q * y)
        BY <3>2
      <3>4. q * y \in Nat
        BY <1>1
      <3>5. QED BY <1>1, <3>1, <3>3, <3>4
    <2>4. CASE p < h
      BY <1>1, <2>3, <2>4, WrapNear
    <2>5. CASE p = h
      <3>1. w = h - 2 * h
        BY <1>1, <2>5, WrapNear
      <3>2. w < 0
        BY <1>1, <3>1
      <3>3. n > 0 => t > 0
        BY <1>1, <2>5
      <3>4. n < 0 => t < 0
        BY <1>1, <2>5
      <3>5. QED BY <2>2, <3>2, <3>3, <3>4
    <2>6. QED BY <1>1, <2>3, <2>4, <2>5
  <1>5. QED BY <1>3, <1>4

\* Mul, of any valid amount by any factor, negative ones included: the line total
\* is the true product, or the product does not fit.
THEOREM MulIsExact ==
  ASSUME NEW m \in Amounts, ValidateMoney(m), NEW n \in Int
  PROVE  Outcome(Mul(m, n), m.cur, Nanos(m) * n) /\ Mul(m, n) # Mismatch
  <1> DEFINE t == Nanos(m)
             product == Wrap(t * n)
  <1>1. /\ t \in Int /\ totalNanos(m) = t /\ -HalfRange < t /\ t < HalfRange /\ t * n \in Int
        /\ InRange(m.units) /\ m.cur \in Currencies
    BY ValidAmounts DEF Amounts, ValidateMoney
  <1>2. Mul(m, n) = IF n = 0 THEN Zero(m.cur)
                    ELSE IF Quot(product, n) # t THEN Overflow ELSE Ranged(fromTotalNanos(m.cur, product))
    BY <1>1 DEF Mul
  <1>3. HalfRange \in Nat \ {0} /\ Largest \in Nat /\ Largest < HalfRange /\ maxUnits \in Nat
        /\ NanosPerUnit \in Nat /\ NanosPerUnit >= 2
    BY MoneyConstants
  <1> HIDE DEF t
  <1>4. CASE n = 0
    <2> DEFINE z == Zero(m.cur)
    <2>1. z = [cur |-> m.cur, units |-> 0, nanos |-> 0]
      BY DEF Zero, Amount
    <2>2. z \in Amounts /\ z.units = 0 /\ z.nanos = 0 /\ z.cur = m.cur /\ z # Mismatch
      BY <1>1, <2>1 DEF Amounts, Mismatch
    <2> HIDE DEF z
    <2>3. ValidateMoney(z) /\ Nanos(z) = 0
      BY <1>3, <2>2 DEF ValidateMoney, Nanos, InRange
    <2>4. t * n = 0 /\ Mul(m, n) = z
      BY <1>1, <1>2, <1>4 DEF z
    <2>5. QED BY <2>2, <2>3, <2>4 DEF Outcome, t
  <1>5. CASE n # 0 /\ Quot(product, n) # t
    <2>1. ~(-HalfRange < t * n /\ t * n < HalfRange)
      BY <1>1, <1>5, DivisionDetectsWraparound
    <2>2. ~Representable(t * n)
      BY <1>1, <1>3, <2>1 DEF Representable
    <2>3. Mul(m, n) = Overflow /\ Overflow # Mismatch
      BY <1>2, <1>5 DEF Overflow, Mismatch
    <2>4. QED BY <2>2, <2>3 DEF Outcome, t
  <1>6. CASE n # 0 /\ Quot(product, n) = t
    <2>1. product = t * n
      BY <1>1, <1>6, DivisionDetectsWraparound
    <2>2. -HalfRange <= product /\ product < HalfRange
      <3>1. product \in -HalfRange..(HalfRange - 1)
        BY <1>1, WrapFacts
      <3> HIDE DEF product
      <3>2. QED BY <1>3, <3>1
    <2>3. /\ Outcome(Ranged(fromTotalNanos(m.cur, t * n)), m.cur, t * n)
          /\ Ranged(fromTotalNanos(m.cur, t * n)) # Mismatch
      BY <1>1, <2>1, <2>2, FromTotal
    <2>4. Mul(m, n) = Ranged(fromTotalNanos(m.cur, t * n))
      BY <1>2, <1>6, <2>1
    <2>5. QED BY <2>3, <2>4 DEF t
  <1>7. QED BY <1>4, <1>5, <1>6

\* A split with agreeing signs whose units are out of range stands for a total
\* that no amount can hold.
LEMMA OutOfRange ==
  ASSUME NEW u \in Int, NEW n \in Int, n > -NanosPerUnit, n < NanosPerUnit,
         ~(u > 0 /\ n < 0), ~(u < 0 /\ n > 0), ~InRange(u)
  PROVE  ~Representable(u * NanosPerUnit + n)
  <1> DEFINE N == NanosPerUnit
  <1>1. /\ N \in Nat /\ N >= 2 /\ maxUnits \in Nat
        /\ Largest = maxUnits * N + N - 1 /\ Largest \in Nat
    BY MoneyConstants
  <1> HIDE DEF N
  <1>2. u >= maxUnits + 1 \/ u <= -(maxUnits + 1)
    BY <1>1 DEF InRange
  <1>3. CASE u >= maxUnits + 1
    <2>1. u * N >= (maxUnits + 1) * N /\ n >= 0
      BY <1>1, <1>3
    <2>2. u * N + n > Largest
      BY <1>1, <2>1
    <2>3. QED BY <1>1, <2>2 DEF Representable, N
  <1>4. CASE u <= -(maxUnits + 1)
    <2>1. u * N <= -(maxUnits + 1) * N /\ n <= 0
      BY <1>1, <1>4
    <2>2. u * N + n < -Largest
      BY <1>1, <2>1
    <2>3. QED BY <1>1, <2>2 DEF Representable, N
  <1>5. QED BY <1>2, <1>3, <1>4

\* The constructor NewMoney, for any units and any int32 of nanos: where
\* normalized wraps around, its validation still refuses, and nothing that fits
\* is refused.
THEOREM NewMoneyIsExact ==
  ASSUME NEW c \in Currencies, NEW u \in Int, -HalfRange <= u, u < HalfRange,
         NEW n \in Int, -MaxNanos <= n, n <= MaxNanos
  PROVE  Outcome(NewMoney(c, u, n), c, u * NanosPerUnit + n)
  <1> DEFINE N == NanosPerUnit
             H == HalfRange
             q == Quot(n, N)
             r == n - N * q
             w == u + q
             units == Wrap(w)
             total == u * N + n
             a == IF units > 0 /\ r < 0 THEN units - 1 ELSE IF units < 0 /\ r > 0 THEN units + 1 ELSE units
             b == IF units > 0 /\ r < 0 THEN r + N ELSE IF units < 0 /\ r > 0 THEN r - N ELSE r
             m == [cur |-> c, units |-> a, nanos |-> b]
  <1>1. /\ H \in Nat \ {0} /\ N \in Nat \ {0} /\ N >= 2 /\ maxUnits \in Nat
        /\ 2 * maxUnits <= H - N /\ Largest \in Nat /\ Largest < H /\ MaxNanos \in Nat /\ MaxNanos < H
    BY MoneyConstants, MoneyAssumption
  <1>2. /\ q \in Int
        /\ n >= 0 => q >= 0 /\ q * N <= n /\ n - q * N < N
        /\ n <= 0 => q <= 0 /\ q * N >= n /\ n - q * N > -N
    BY <1>1, QuotFacts
  <1>3. normalized(c, u, n) = m
    <2>1. r = Rem(n, N)
      BY DEF Rem
    <2>2. units \in Int
      <3>1. w \in Int
        BY <1>2
      <3> HIDE DEF w
      <3>2. units \in -H..(H - 1)
        BY <3>1, WrapFacts
      <3> HIDE DEF units
      <3>3. QED BY <1>1, <3>2
    <2> HIDE DEF q, r
    <2>3. normalized(c, u, n) =
            CASE units > 0 /\ r < 0 -> Amount(c, units - 1, r + N)
              [] units < 0 /\ r > 0 -> Amount(c, units + 1, r - N)
              [] OTHER -> Amount(c, units, r)
      BY <2>1 DEF normalized, q
    <2> HIDE DEF units, N
    <2>4. CASE units > 0 /\ r < 0
      BY <2>2, <2>3, <2>4 DEF Amount
    <2>5. CASE units < 0 /\ r > 0 /\ ~(units > 0 /\ r < 0)
      BY <2>2, <2>3, <2>5 DEF Amount
    <2>6. CASE ~(units > 0 /\ r < 0) /\ ~(units < 0 /\ r > 0)
      BY <2>3, <2>6 DEF Amount
    <2>7. QED BY <2>4, <2>5, <2>6
  <1>4. NewMoney(c, u, n) = IF ValidateMoney(m) THEN m ELSE Overflow
    BY <1>3 DEF NewMoney
  <1> HIDE DEF q, N
  <1>5. r \in Int /\ r > -N /\ r < N /\ (n >= 0 => r >= 0) /\ (n <= 0 => r <= 0) /\ r = n - q * N /\ w \in Int
        /\ total \in Int
    BY <1>1, <1>2
  <1>6. total = w * N + r
    BY <1>1, <1>2, <1>5
  <1>7. 2 * q <= H - 1 /\ 2 * q >= -(H - 1)
    <2>1. CASE n >= 0
      <3>1. q >= 0 /\ 2 * q <= q * N
        BY <1>1, <1>2, <2>1
      <3>2. QED BY <1>1, <1>2, <2>1, <3>1
    <2>2. CASE n <= 0
      <3>1. q <= 0 /\ 2 * q >= q * N
        BY <1>1, <1>2, <2>2
      <3>2. QED BY <1>1, <1>2, <2>2, <3>1
    <2>3. QED BY <2>1, <2>2
  <1>8. \A k \in Int : units = k => a \in Int /\ b \in Int
    BY <1>1, <1>5
  <1>9. m.cur = c /\ m.units = a /\ m.nanos = b
    OBVIOUS
  <1>10. CASE -H <= w /\ w < H
    <2>1. units = w
      BY <1>5, <1>10, WrapNear
    <2> HIDE DEF r, w, units, total
    <2>2. a \in Int /\ b \in Int /\ b > -N /\ b < N /\ ~(a > 0 /\ b < 0) /\ ~(a < 0 /\ b > 0)
      BY <1>1, <1>5, <2>1
    <2>3. a * N + b = total
      BY <1>1, <1>5, <1>6, <2>1
    <2>4. m \in Amounts
      BY <2>2 DEF Amounts
    <2> HIDE DEF a, b, m
    <2>5. CASE InRange(a)
      <3>1. ValidateMoney(m)
        BY <1>9, <2>2, <2>5 DEF ValidateMoney, N
      <3>2. Nanos(m) = total
        BY <1>9, <2>3 DEF Nanos, N
      <3>3. QED BY <1>4, <1>9, <2>4, <3>1, <3>2 DEF Outcome, total, N
    <2>6. CASE ~InRange(a)
      <3>1. ~Representable(total)
        BY <2>2, <2>3, <2>6, OutOfRange DEF N
      <3>2. ~ValidateMoney(m)
        BY <1>9, <2>6 DEF ValidateMoney
      <3>3. QED BY <1>4, <3>1, <3>2 DEF Outcome, total, N
    <2>7. QED BY <2>5, <2>6
  <1>11. ASSUME ~InRange(a), ~Representable(total)
         PROVE  Outcome(NewMoney(c, u, n), c, u * NanosPerUnit + n)
    <2>1. ~ValidateMoney(m)
      BY <1>9, <1>11 DEF ValidateMoney
    <2>2. QED BY <1>4, <1>11, <2>1 DEF Outcome, N
  <1>12. CASE w >= H
    <2>1. units = w - 2 * H
      <3>1. w < 3 * HalfRange
        BY <1>1, <1>2, <1>7
      <3> HIDE DEF w
      <3>2. QED BY <1>5, <1>12, <3>1, WrapNear
    <2>2. q > 0 /\ r >= 0
      <3>1. q > 0
        BY <1>1, <1>2, <1>12
      <3>2. n >= 0
        BY <1>2, <3>1
      <3> HIDE DEF r
      <3>3. QED BY <1>5, <3>1, <3>2
    <2>3. units < 0 /\ 2 * units + 2 < -(2 * maxUnits) /\ units \in Int
      BY <1>1, <1>2, <1>7, <2>1
    <2>4. a \in Int /\ 2 * a < -(2 * maxUnits)
      <3> HIDE DEF w, units, r
      <3>1. QED BY <1>1, <1>5, <2>3
    <2>5. ~InRange(a)
      BY <1>1, <2>4 DEF InRange
    <2>6. w * N >= H
      BY <1>1, <1>5, <1>12
    <2> HIDE DEF total, w, r
    <2>7. total > Largest
      BY <1>1, <1>5, <1>6, <2>2, <2>6
    <2>8. ~Representable(total)
      BY <1>1, <1>5, <2>7 DEF Representable
    <2>9. QED BY <1>11, <2>5, <2>8
  <1>13. CASE w < -H
    <2>1. units = w + 2 * H
      <3>1. w >= -(3 * HalfRange)
        BY <1>1, <1>2, <1>7
      <3> HIDE DEF w
      <3>2. QED BY <1>5, <1>13, <3>1, WrapNear
    <2>2. q < 0 /\ r <= 0
      <3>1. q < 0
        BY <1>1, <1>2, <1>13
      <3>2. n <= 0
        BY <1>2, <3>1
      <3> HIDE DEF r
      <3>3. QED BY <1>5, <3>1, <3>2
    <2>3. units > 0 /\ 2 * units - 2 > 2 * maxUnits /\ units \in Int
      BY <1>1, <1>2, <1>7, <2>1
    <2>4. a \in Int /\ 2 * a > 2 * maxUnits
      <3> HIDE DEF w, units, r
      <3>1. QED BY <1>1, <1>5, <2>3
    <2>5. ~InRange(a)
      BY <1>1, <2>4 DEF InRange
    <2>6. w * N <= -H
      BY <1>1, <1>5, <1>13
    <2> HIDE DEF total, w, r
    <2>7. total < -Largest
      BY <1>1, <1>5, <1>6, <2>2, <2>6
    <2>8. ~Representable(total)
      BY <1>1, <1>5, <2>7 DEF Representable
    <2>9. QED BY <1>11, <2>5, <2>8
  <1>14. QED BY <1>1, <1>5, <1>10, <1>12, <1>13

\* Neg of a valid amount never fails.
LEMMA Negates ==
  ASSUME NEW m \in Amounts, ValidateMoney(m)
  PROVE  /\ Neg(m) \in Amounts /\ ValidateMoney(Neg(m)) /\ Nanos(Neg(m)) = -Nanos(m)
  <1> DEFINE u == m.units
             n == m.nanos
             N == NanosPerUnit
             o == Neg(m)
  <1>1. /\ HalfRange \in Nat \ {0} /\ N \in Nat /\ N >= 2 /\ maxUnits \in Nat /\ 2 * maxUnits <= HalfRange - N
    BY MoneyConstants
  <1>2. /\ u \in Int /\ n \in Int /\ n > -N /\ n < N /\ u <= maxUnits /\ u >= -maxUnits
        /\ ~(u > 0 /\ n < 0) /\ ~(u < 0 /\ n > 0) /\ m.cur \in Currencies
    BY DEF Amounts, ValidateMoney, InRange
  <1>3. o = [cur |-> m.cur, units |-> Wrap(-u), nanos |-> -n] /\ Nanos(m) = u * N + n
    BY DEF Neg, Amount, Nanos
  <1> HIDE DEF u, n, N, o
  <1>4. -u \in Int /\ -HalfRange <= -u /\ -u < HalfRange
    BY <1>1, <1>2
  <1>5. Wrap(-u) = -u
    BY <1>1, <1>4, WrapNear
  <1>6. o \in Amounts /\ o.units = -u /\ o.nanos = -n
    BY <1>2, <1>3, <1>5 DEF Amounts
  <1>7. ValidateMoney(o)
    BY <1>1, <1>2, <1>6 DEF ValidateMoney, InRange, N
  <1>8. Nanos(o) = -Nanos(m)
    <2>1. Nanos(o) = (-u) * N + (-n)
      BY <1>6 DEF Nanos, N
    <2>2. QED BY <1>1, <1>2, <1>3, <2>1
  <1>9. QED BY <1>6, <1>7, <1>8 DEF o

\* The amount in hand is valid and exact, and nothing representable was refused.
MInv ==
  /\ amount \in Amounts /\ ValidateMoney(amount)
  /\ exact \in Int /\ Nanos(amount) = exact /\ refused = FALSE

\* What makes a refusal right: the result cannot be represented, or the
\* currencies differ.
LEMMA ResultsDiffer ==
  /\ \A m \in Amounts : Ok(m)
  /\ ~Ok(Overflow) /\ ~Ok(Mismatch) /\ Overflow # Mismatch
  BY DEF Ok, Overflow, Mismatch, Amounts

\* A single operation with the right outcome keeps the invariant.
LEMMA SettlesOne ==
  ASSUME MInv, NEW result, NEW c, NEW total \in Int, Outcome(result, c, total), Settle(result, <<total>>)
  PROVE  MInv'
  <1>1. <<total>>[Len(<<total>>)] = total /\ 1 \in DOMAIN <<total>> /\ <<total>>[1] = total
    OBVIOUS
  <1>2. CASE result \in Amounts /\ ValidateMoney(result) /\ Nanos(result) = total
    <2>1. amount' = result /\ exact' = total /\ refused' = refused
      BY <1>1, <1>2, ResultsDiffer DEF Settle
    <2>2. ValidateMoney(amount)' /\ Nanos(amount)' = total
      BY <1>2, <2>1 DEF ValidateMoney, Nanos
    <2>3. QED BY <1>2, <2>1, <2>2 DEF MInv
  <1>3. CASE (result = Overflow /\ ~Representable(total)) \/ result = Mismatch
    <2>1. ~Ok(result)
      BY <1>3, ResultsDiffer
    <2>2. amount' = amount /\ exact' = exact
          /\ refused' = (result = Overflow /\ \A i \in DOMAIN <<total>> : Representable(<<total>>[i]))
      BY <2>1 DEF Settle
    <2>3. refused' = FALSE
      BY <1>1, <1>3, <2>2, ResultsDiffer
    <2>4. QED BY <2>2, <2>3 DEF MInv, ValidateMoney, Nanos
  <1>4. QED BY <1>2, <1>3 DEF Outcome

\* The same for a line: the product, then the sum.
LEMMA SettlesLine ==
  ASSUME MInv, NEW price \in Amounts, ValidateMoney(price), NEW quantity \in Int, AddLine(price, quantity)
  PROVE  MInv'
  <1> DEFINE line == Mul(price, quantity)
             p == Nanos(price) * quantity
             s == exact + p
             result == IF Ok(line) THEN combine(amount, line, FALSE) ELSE line
             trues == <<p, s>>
  <1>1. p \in Int /\ s \in Int
    BY ValidAmounts DEF MInv
  <1>2. Outcome(line, price.cur, p) /\ line # Mismatch
    BY MulIsExact
  <1>3. Settle(result, trues)
    BY DEF AddLine
  <1> HIDE DEF line, p, s
  <1>4. trues[Len(trues)] = s /\ DOMAIN trues = {1, 2} /\ trues[1] = p /\ trues[2] = s
    OBVIOUS
  <1>5. ASSUME result = Overflow, ~Representable(p) \/ ~Representable(s) PROVE MInv'
    <2>1. amount' = amount /\ exact' = exact
          /\ refused' = (result = Overflow /\ \A i \in DOMAIN trues : Representable(trues[i]))
      BY <1>3, <1>5, ResultsDiffer DEF Settle
    <2>2. refused' = FALSE
      BY <1>4, <1>5, <2>1
    <2>3. QED BY <2>1, <2>2 DEF MInv, ValidateMoney, Nanos
  <1>6. CASE line = Overflow /\ ~Representable(p)
    BY <1>5, <1>6, ResultsDiffer
  <1>7. CASE line \in Amounts /\ ValidateMoney(line) /\ Nanos(line) = p
    <2>1. result = combine(amount, line, FALSE)
      BY <1>7, ResultsDiffer
    <2>2. Outcome(result, amount.cur, s)
      BY <1>7, <2>1, AddAndSubAreExact DEF MInv, s
    <2> HIDE DEF result
    <2>3. CASE result \in Amounts /\ ValidateMoney(result) /\ Nanos(result) = s
      <3>1. amount' = result /\ exact' = s /\ refused' = refused
        BY <1>3, <1>4, <2>3, ResultsDiffer DEF Settle
      <3>2. ValidateMoney(amount)' /\ Nanos(amount)' = s
        BY <2>3, <3>1 DEF ValidateMoney, Nanos
      <3>3. QED BY <1>1, <2>3, <3>1, <3>2 DEF MInv
    <2>4. CASE result = Overflow /\ ~Representable(s)
      BY <1>5, <2>4
    <2>5. CASE result = Mismatch
      <3>1. amount' = amount /\ exact' = exact
            /\ refused' = (result = Overflow /\ \A i \in DOMAIN trues : Representable(trues[i]))
        BY <1>3, <2>5, ResultsDiffer DEF Settle
      <3>2. refused' = FALSE
        BY <2>5, <3>1, ResultsDiffer
      <3>3. QED BY <3>1, <3>2 DEF MInv, ValidateMoney, Nanos
    <2>6. QED BY <2>2, <2>3, <2>4, <2>5 DEF Outcome
  <1>8. QED BY <1>2, <1>6, <1>7 DEF Outcome

\* The prices of the model are valid amounts.
LEMMA PricesAreValid ==
  ASSUME NEW m \in Prices
  PROVE  m \in Amounts /\ ValidateMoney(m)
  <1>1. maxUnits \in Nat /\ maxUnits \div 2 \in Int /\ NanosPerUnit \in Nat
    <2>1. maxUnits \in Nat /\ NanosPerUnit \in Nat
      BY MoneyConstants
    <2>2. QED BY <2>1
  <1>2. PICK c \in Currencies, u \in {0, 1, maxUnits \div 2, maxUnits - 1, maxUnits},
             n \in 0..NanosPerUnit - 1 :
          m = Amount(c, u, n)
    BY DEF Prices
  <1>3. u \in Int /\ n \in Int
    BY <1>1
  <1>4. QED BY <1>2, <1>3 DEF Amount, Amounts, Prices

\* Every operation keeps it.
LEMMA MInvStep ==
  ASSUME MInv, MoneyNext
  PROVE  MInv'
  <1> USE DEF MInv
  <1>1. ASSUME NEW c \in Currencies,
               NEW u \in {MinInt, -maxUnits - 1, -maxUnits, -1, 0, 1, maxUnits, maxUnits + 1, MaxInt},
               NEW n \in -MaxNanos..MaxNanos, MakeMoney(c, u, n)
        PROVE  MInv'
    <2>1. /\ HalfRange \in Nat \ {0} /\ MaxInt = HalfRange - 1 /\ MinInt = -HalfRange
          /\ maxUnits \in Nat /\ NanosPerUnit \in Nat /\ NanosPerUnit >= 2 /\ NanosPerUnit < HalfRange
          /\ 2 * maxUnits <= HalfRange - NanosPerUnit /\ MaxNanos \in Nat
      BY MoneyConstants, MoneyAssumption
    <2>2. u \in Int /\ -HalfRange <= u /\ u < HalfRange /\ n \in Int /\ -MaxNanos <= n /\ n <= MaxNanos
      BY <2>1
    <2>3. Outcome(NewMoney(c, u, n), c, u * NanosPerUnit + n)
      BY <2>2, NewMoneyIsExact
    <2>4. u * NanosPerUnit + n \in Int
      BY <2>1, <2>2
    <2>5. QED BY <1>1, <2>3, <2>4, SettlesOne DEF MakeMoney
  <1>2. ASSUME NEW m \in Prices, AddTo(m)
        PROVE  MInv'
    <2>1. m \in Amounts /\ ValidateMoney(m)
      BY PricesAreValid
    <2>2. Outcome(combine(amount, m, FALSE), amount.cur, exact + Nanos(m))
      BY <2>1, AddAndSubAreExact
    <2>3. exact + Nanos(m) \in Int
      BY <2>1, ValidAmounts
    <2>4. QED BY <1>2, <2>2, <2>3, SettlesOne DEF AddTo
  <1>3. ASSUME NEW m \in Prices, SubtractFrom(m)
        PROVE  MInv'
    <2>1. m \in Amounts /\ ValidateMoney(m)
      BY PricesAreValid
    <2>2. Outcome(combine(amount, m, TRUE), amount.cur, exact - Nanos(m))
      BY <2>1, AddAndSubAreExact
    <2>3. exact - Nanos(m) \in Int
      BY <2>1, ValidAmounts
    <2>4. QED BY <1>3, <2>2, <2>3, SettlesOne DEF SubtractFrom
  <1>4. ASSUME NEW m \in Prices, NEW q \in -1..MaxQuantity, AddLine(m, q)
        PROVE  MInv'
    <2>1. q \in Int
      BY MoneyAssumption
    <2>2. QED BY <1>4, <2>1, PricesAreValid, SettlesLine
  <1>5. ASSUME Negate
        PROVE  MInv'
    <2>1. Outcome(Neg(amount), Neg(amount).cur, -exact)
      BY Negates DEF Outcome
    <2>2. -exact \in Int
      OBVIOUS
    <2>3. QED BY <1>5, <2>1, <2>2, SettlesOne DEF Negate
  <1>6. QED BY <1>1, <1>2, <1>3, <1>4, <1>5 DEF MoneyNext

LEMMA InitMInv == MoneyInit => MInv
  <1> SUFFICES ASSUME MoneyInit PROVE MInv
    OBVIOUS
  <1> DEFINE c == CHOOSE c \in Currencies : TRUE
  <1>1. c \in Currencies
    BY MoneyAssumption
  <1>2. amount = [cur |-> c, units |-> 0, nanos |-> 0] /\ exact = 0 /\ refused = FALSE
    BY DEF MoneyInit, Zero, Amount
  <1> HIDE DEF c
  <1>3. amount \in Amounts /\ amount.units = 0 /\ amount.nanos = 0
    BY <1>1, <1>2 DEF Amounts
  <1>4. /\ NanosPerUnit \in Nat /\ NanosPerUnit >= 2 /\ maxUnits \in Nat
    BY MoneyConstants
  <1>5. ValidateMoney(amount) /\ Nanos(amount) = 0
    BY <1>3, <1>4 DEF ValidateMoney, Nanos, InRange
  <1>6. QED BY <1>2, <1>3, <1>5 DEF MInv

LEMMA NextMInv == MInv /\ [MoneyNext]_moneyVars => MInv'
  <1>1. ASSUME MInv, UNCHANGED moneyVars PROVE MInv'
    BY <1>1 DEF MInv, moneyVars, ValidateMoney, Nanos
  <1>2. QED BY <1>1, MInvStep

\* The invariant holds throughout.
LEMMA SpecMInv == MoneySpec => []MInv
  BY InitMInv, NextMInv, PTL DEF MoneySpec

\* The invariant includes the types.
LEMMA MInvTypes == MInv => MoneyTypeOK
  BY DEF MInv, MoneyTypeOK, Amounts

\* The amount in hand always passes Validate, and its currency is a known one.
THEOREM MoneyTypeCorrect == MoneySpec => []MoneyTypeOK
  BY MInvTypes, SpecMInv, PTL

\* No sequence of constructor calls, sums, differences, line totals and negations
\* loses a nano unnoticed or refuses a total it could have kept, whatever the
\* width of the integers.
THEOREM MoneyIsExact == MoneySpec => []AmountsAreExact
  <1>1. MInv => AmountsAreExact
    BY DEF MInv, AmountsAreExact
  <1>2. QED BY <1>1, SpecMInv, PTL

-----------------------------------------------------------------------------
(* Listings *)

\* The state is typed; an order in its transaction is still pending.
OrderRows ==
  [state : {"absent", "open", "stored"}, at : Nat, tenant : ListTenants \union {""},
   status : {"PENDING", "CANCELLED"}]
ListTyped ==
  /\ wall \in Nat /\ wall <= MaxTime
  /\ rows \in [OrderIds -> OrderRows]
  /\ \A o \in OrderIds : rows[o].at <= wall /\ (rows[o].state = "open" => rows[o].status = "PENDING")
  /\ seen \in Seq(OrderIds) /\ owed \subseteq OrderIds

\* What was returned is committed, and of the listing's tenant.
SeenIsStored ==
  \A i \in 1..Len(seen) : rows[seen[i]].state = "stored" /\ rows[seen[i]].tenant = listing.filter.tenant

\* It was returned in the order of the sort key.
SeenIsSorted == \A i, j \in 1..Len(seen) : i < j => Precedes(seen[i], seen[j])

\* Between two pages the token is the key of the last order returned, and what is
\* owed still matches and lies beyond it.
Resumes ==
  \/ listing.stage = "off" /\ listing.token = NoToken /\ seen = <<>> /\ owed = {}
  \/ /\ listing.stage = "paging" /\ listing.filter \in Filters /\ Len(seen) > 0
     /\ listing.token = EncodePageToken(listing.filter, seen[Len(seen)])
     /\ owed \subseteq MatchesAfter(listing.filter, listing.token)
  \/ listing.stage = "done" /\ owed = {}

\* The inductive strengthening of ListingsAreExact.
LInv == ListTyped /\ SeenIsStored /\ SeenIsSorted /\ Resumes

\* A row that is not there.
LEMMA NoRowTyped == NoRow \in OrderRows /\ NoRow.at = 0 /\ NoRow.state = "absent"
  BY DEF NoRow, OrderRows

\* Committed orders keep their key and tenant, and what was seen is committed.
LEMMA SeenStays ==
  ASSUME LInv, ListTyped', seen' = seen, listing' = listing,
         \A o \in OrderIds : rows[o].state = "stored" =>
           rows'[o].state = "stored" /\ rows'[o].at = rows[o].at /\ rows'[o].tenant = rows[o].tenant
  PROVE  /\ SeenIsStored' /\ SeenIsSorted'
         /\ \A f : Len(seen) > 0 => EncodePageToken(f, seen[Len(seen)])' = EncodePageToken(f, seen[Len(seen)])
  <1>0. seen \in Seq(OrderIds)
    BY DEF LInv, ListTyped
  <1>1. \A i \in 1..Len(seen) : seen[i] \in OrderIds
    BY <1>0
  <1>2. \A i \in 1..Len(seen) : /\ rows'[seen[i]].state = "stored" /\ rows'[seen[i]].at = rows[seen[i]].at
                               /\ rows'[seen[i]].tenant = rows[seen[i]].tenant
    BY <1>1 DEF LInv, SeenIsStored
  <1>3. SeenIsStored'
    BY <1>2 DEF LInv, SeenIsStored
  <1>4. SeenIsSorted'
    BY <1>2 DEF LInv, SeenIsSorted, Precedes
  <1>5. Len(seen) > 0 => Len(seen) \in 1..Len(seen)
    BY <1>0, LenProperties
  <1>6. QED BY <1>2, <1>3, <1>4, <1>5 DEF EncodePageToken

\* An owed order that still matches stays owed: its key does not move.
LEMMA OwedStays ==
  ASSUME NEW o \in OrderIds, NEW f, NEW token, o \in MatchesAfter(f, token), rows'[o] = rows[o]
  PROVE  o \in MatchesAfter(f, token)'
  BY DEF MatchesAfter, Matches, Beyond

\* The wall clock, and the steps of Create and Cancel.
LEMMA WritersKeep ==
  ASSUME LInv,
         \/ WallTicks
         \/ \E o \in OrderIds : StoreOrder(o) \/ CancelOrder(o) \/ (\E t \in ListTenants : Stamp(o, t))
  PROVE  LInv'
  <1> USE DEF LInv
  <1>1. CASE WallTicks
    <2>1. /\ wall < MaxTime /\ wall' = wall + 1
          /\ rows' = rows /\ listing' = listing /\ seen' = seen /\ owed' = owed
      BY <1>1 DEF WallTicks
    <2>2. ListTyped'
      <3>1. wall' \in Nat /\ wall' <= MaxTime /\ wall <= wall' /\ wall \in Nat
        BY <2>1, ListingAssumption DEF ListTyped
      <3>2. \A o \in OrderIds : rows[o].at \in Nat
        BY DEF ListTyped, OrderRows
      <3>3. QED BY <2>1, <3>1, <3>2 DEF ListTyped
    <2>3. SeenIsStored' /\ SeenIsSorted' /\ Resumes'
      BY <2>1 DEF SeenIsStored, SeenIsSorted, Resumes, Precedes, EncodePageToken, MatchesAfter, Matches,
                  Beyond
    <2>4. QED BY <2>2, <2>3
  <1>2. ASSUME NEW o \in OrderIds, NEW t \in ListTenants, Stamp(o, t)
        PROVE  LInv'
    <2>1. /\ rows[o].state = "absent" /\ wall' = wall /\ listing' = listing /\ seen' = seen /\ owed' = owed
          /\ rows' = [rows EXCEPT ![o] = [state |-> "open", at |-> wall, tenant |-> t, status |-> "PENDING"]]
      BY <1>2 DEF Stamp
    <2>2. ListTyped'
      <3>1. wall \in Nat /\ rows' \in [OrderIds -> OrderRows]
        BY <2>1 DEF ListTyped, OrderRows
      <3>2. \A p \in OrderIds : /\ rows'[p].at <= wall
                                /\ rows'[p].state = "open" => rows'[p].status = "PENDING"
        BY <2>1, <3>1 DEF ListTyped
      <3>3. QED BY <2>1, <3>1, <3>2 DEF ListTyped
    <2>3. \A p \in OrderIds : rows[p].state = "stored" => rows'[p] = rows[p]
      BY <2>1 DEF ListTyped, OrderRows
    <2>4. /\ SeenIsStored' /\ SeenIsSorted'
          /\ \A f : Len(seen) > 0 =>
               EncodePageToken(f, seen[Len(seen)])' = EncodePageToken(f, seen[Len(seen)])
      BY <2>1, <2>2, <2>3, SeenStays
    <2>5. \A f, token : owed \subseteq MatchesAfter(f, token) => owed \subseteq MatchesAfter(f, token)'
      BY <2>3, OwedStays DEF MatchesAfter, Matches, ListTyped
    <2>6. Resumes'
      BY <2>1, <2>4, <2>5 DEF Resumes
    <2>7. QED BY <2>2, <2>4, <2>6
  <1>3. ASSUME NEW o \in OrderIds, StoreOrder(o)
        PROVE  LInv'
    <2>1. /\ rows[o].state = "open" /\ wall' = wall /\ listing' = listing /\ seen' = seen
          /\ rows' = [rows EXCEPT ![o].state = "stored"] \/ rows' = [rows EXCEPT ![o] = NoRow]
          /\ owed' = owed \/ (/\ rows' = [rows EXCEPT ![o].state = "stored"] /\ owed' = owed \union {o}
                              /\ listing.stage = "paging" /\ rows[o].tenant = listing.filter.tenant
                              /\ Beyond(o, listing.token))
      BY <1>3 DEF StoreOrder
    <2>2. ListTyped'
      <3>1. rows' \in [OrderIds -> OrderRows]
        <4>1. CASE rows' = [rows EXCEPT ![o].state = "stored"]
          <5>1. [rows[o] EXCEPT !.state = "stored"] \in OrderRows
            BY DEF ListTyped, OrderRows
          <5>2. QED BY <4>1, <5>1 DEF ListTyped
        <4>2. CASE rows' = [rows EXCEPT ![o] = NoRow]
          BY <2>1, <4>2, NoRowTyped DEF ListTyped
        <4>3. QED BY <2>1, <4>1, <4>2
      <3>2. \A p \in OrderIds : /\ rows'[p].at <= wall
                                /\ rows'[p].state = "open" => rows'[p].status = "PENDING"
        <4>1. CASE rows' = [rows EXCEPT ![o].state = "stored"]
          BY <2>1, <4>1 DEF ListTyped, OrderRows
        <4>2. CASE rows' = [rows EXCEPT ![o] = NoRow]
          BY <2>1, <4>2, NoRowTyped DEF ListTyped
        <4>3. QED BY <2>1, <4>1, <4>2
      <3>3. QED BY <2>1, <3>1, <3>2 DEF ListTyped
    <2>3. \A p \in OrderIds : rows[p].state = "stored" => rows'[p] = rows[p]
      BY <2>1 DEF ListTyped, OrderRows
    <2>4. /\ SeenIsStored' /\ SeenIsSorted'
          /\ \A f : Len(seen) > 0 =>
               EncodePageToken(f, seen[Len(seen)])' = EncodePageToken(f, seen[Len(seen)])
      BY <2>1, <2>2, <2>3, SeenStays
    <2>5. \A f, token : owed \subseteq MatchesAfter(f, token) => owed \subseteq MatchesAfter(f, token)'
      BY <2>3, OwedStays DEF MatchesAfter, Matches, ListTyped
    <2>6. CASE owed' = owed
      <3>1. Resumes'
        BY <2>1, <2>4, <2>5, <2>6 DEF Resumes
      <3>2. QED BY <2>2, <2>4, <3>1
    <2>7. CASE /\ rows' = [rows EXCEPT ![o].state = "stored"] /\ owed' = owed \union {o}
               /\ listing.stage = "paging" /\ rows[o].tenant = listing.filter.tenant
               /\ Beyond(o, listing.token)
      <3>1. /\ rows'[o].state = "stored" /\ rows'[o].tenant = rows[o].tenant /\ rows'[o].at = rows[o].at
            /\ rows'[o].status = "PENDING"
        BY <2>1, <2>7 DEF ListTyped, OrderRows
      <3>2. listing.filter.status = "UNSPECIFIED" \/ listing.filter.status = "PENDING"
        BY <2>7 DEF Resumes, Filters
      <3>3. o \in MatchesAfter(listing.filter, listing.token)'
        BY <2>1, <2>7, <3>1, <3>2 DEF MatchesAfter, Matches, Beyond
      <3>4. Resumes'
        BY <2>1, <2>4, <2>5, <2>7, <3>3 DEF Resumes
      <3>5. QED BY <2>2, <2>4, <3>4
    <2>8. QED BY <2>1, <2>6, <2>7
  <1>4. ASSUME NEW o \in OrderIds, CancelOrder(o)
        PROVE  LInv'
    <2>1. /\ rows[o].state = "stored" /\ wall' = wall /\ listing' = listing /\ seen' = seen
          /\ rows' = [rows EXCEPT ![o].status = "CANCELLED"]
          /\ owed' = IF listing.filter.status = "PENDING" THEN owed \ {o} ELSE owed
      BY <1>4 DEF CancelOrder
    <2>2. ListTyped'
      <3>1. rows' \in [OrderIds -> OrderRows]
        BY <2>1 DEF ListTyped, OrderRows
      <3>2. \A p \in OrderIds : /\ rows'[p].at <= wall
                                /\ rows'[p].state = "open" => rows'[p].status = "PENDING"
        BY <2>1 DEF ListTyped, OrderRows
      <3>3. QED BY <2>1, <3>1, <3>2 DEF ListTyped
    <2>3. \A p \in OrderIds : /\ rows'[p].state = rows[p].state /\ rows'[p].at = rows[p].at
                              /\ rows'[p].tenant = rows[p].tenant
                              /\ p # o => rows'[p] = rows[p]
      BY <2>1 DEF ListTyped, OrderRows
    <2>4. /\ SeenIsStored' /\ SeenIsSorted'
          /\ \A f : Len(seen) > 0 =>
               EncodePageToken(f, seen[Len(seen)])' = EncodePageToken(f, seen[Len(seen)])
      BY <2>1, <2>2, <2>3, SeenStays
    <2>5. ASSUME listing.stage = "paging", NEW p \in owed'
          PROVE  p \in MatchesAfter(listing.filter, listing.token)'
      <3>1. p \in OrderIds /\ p \in MatchesAfter(listing.filter, listing.token)
        BY <2>1, <2>5 DEF Resumes, MatchesAfter
      <3>2. CASE p # o
        BY <2>1, <2>3, <3>1, <3>2 DEF MatchesAfter, Matches, Beyond
      <3>3. CASE p = o
        <4>1. listing.filter.status = "UNSPECIFIED"
          BY <2>1, <2>5, <3>3 DEF Resumes, Filters
        <4>2. QED BY <2>1, <2>3, <3>1, <4>1 DEF MatchesAfter, Matches, Beyond
      <3>4. QED BY <3>2, <3>3
    <2>6. Resumes'
      BY <2>1, <2>4, <2>5 DEF Resumes
    <2>7. QED BY <2>2, <2>4, <2>6
  <1>5. QED BY <1>1, <1>2, <1>3, <1>4

\* What the sorted matches are, and the page that List cuts from them.
LEMMA PageFacts ==
  ASSUME ListTyped, NEW f, NEW token, NEW n \in PageSizes,
         NEW found \in Sortings(MatchesAfter(f, token))
  PROVE  LET S == MatchesAfter(f, token)
             size == ClampPageSize(n)
             m == IF Len(found) > size THEN size ELSE Len(found)
             p == Page(f, found, n)
         IN /\ found \in Seq(S) /\ Len(found) \in Nat /\ size \in Nat \ {0} /\ m \in Nat
            /\ \A i \in 1..Len(found) : found[i] \in S
            /\ \A o \in S : \E i \in 1..Len(found) : found[i] = o
            /\ \A i, j \in 1..Len(found) : i < j => Precedes(found[i], found[j])
            /\ p.orders \in Seq(S) /\ Len(p.orders) = m /\ \A i \in 1..m : p.orders[i] = found[i]
            /\ Len(found) > size => p.next = EncodePageToken(f, found[m]) /\ m = size
            /\ ~(Len(found) > size) => p.next = NoToken /\ m = Len(found)
            /\ p.next = NoToken <=> ~(Len(found) > size)
  <1> DEFINE S == MatchesAfter(f, token)
             k == Cardinality(S)
             size == ClampPageSize(n)
             m == IF Len(found) > size THEN size ELSE Len(found)
             page == SubSeq(found, 1, m)
             p == Page(f, found, n)
  <1>1. k \in Nat
    <2>1. S \subseteq OrderIds
      BY DEF MatchesAfter
    <2>2. QED BY <2>1, ListingAssumption, FS_Subset, FS_CardinalityType
  <1>2. /\ found \in [1..k -> S] /\ Range(found) = S
        /\ \A i, j \in 1..k : i < j => Precedes(found[i], found[j])
    BY DEF Sortings
  <1>3. size \in Nat \ {0}
    <2>1. n \in Nat /\ DefaultPageSize \in Nat /\ DefaultPageSize >= 1
          /\ MaxPageSize \in Nat /\ MaxPageSize >= 1
      BY ListingAssumption
    <2>2. QED BY <2>1 DEF ClampPageSize
  <1>4. S \subseteq OrderIds
    BY DEF MatchesAfter
  <1> HIDE DEF S, k, size
  <1>5. found \in Seq(S) /\ Len(found) = k
    BY <1>1, <1>2
  <1>6. \A o \in S : \E i \in 1..k : found[i] = o
    BY <1>2 DEF Range
  <1>7. m \in Nat /\ m <= Len(found)
    BY <1>1, <1>3, <1>5
  <1> HIDE DEF m
  <1>8. page \in Seq(S) /\ Len(page) = m /\ \A i \in 1..m : page[i] = found[i]
    BY <1>1, <1>5, <1>7
  <1>9. p = [orders |-> page, next |-> IF Len(found) > size THEN EncodePageToken(f, page[size]) ELSE NoToken]
    BY DEF Page, m, size
  <1> HIDE DEF page
  <1>10. /\ p.orders = page
         /\ p.next = IF Len(found) > size THEN EncodePageToken(f, page[size]) ELSE NoToken
    BY <1>9
  <1>11. ASSUME Len(found) > size
         PROVE  p.next = EncodePageToken(f, found[m]) /\ m = size /\ p.next # NoToken
    <2>1. m = size /\ size \in 1..m /\ m \in 1..k
      BY <1>1, <1>3, <1>5, <1>11 DEF m
    <2>2. found[m] \in OrderIds /\ found[m] # 0
      BY <1>2, <1>4, <2>1, ListingAssumption
    <2>3. p.next = EncodePageToken(f, found[m])
      BY <1>8, <1>10, <1>11, <2>1
    <2>4. EncodePageToken(f, found[m]).id = found[m] /\ NoToken.id = 0
      BY DEF EncodePageToken, NoToken
    <2>5. QED BY <2>1, <2>2, <2>3, <2>4
  <1>12. ASSUME ~(Len(found) > size) PROVE p.next = NoToken /\ m = Len(found)
    BY <1>10, <1>12 DEF m
  <1> HIDE DEF p
  <1>13. QED
    BY <1>1, <1>2, <1>3, <1>5, <1>6, <1>7, <1>8, <1>10, <1>11, <1>12 DEF S, k, size, m, p

\* The order of the sort key is transitive.
LEMMA PrecedesTransitive ==
  ASSUME ListTyped, NEW o \in OrderIds, NEW p \in OrderIds, NEW q \in OrderIds, Precedes(o, p), Precedes(p, q)
  PROVE  Precedes(o, q)
  <1>1. rows[o].at \in Nat /\ rows[p].at \in Nat /\ rows[q].at \in Nat /\ o \in Nat /\ p \in Nat /\ q \in Nat
    BY ListingAssumption DEF ListTyped, OrderRows
  <1>2. QED BY <1>1 DEF Precedes

\* A page: it follows what was seen, and what it leaves out is owed beyond its token.
LEMMA ListKeeps ==
  ASSUME LInv, NEW f \in Filters, NEW n \in PageSizes, List(f, n)
  PROVE  LInv'
  <1> DEFINE token == listing.token
             S == MatchesAfter(f, token)
  <1>1. PICK found \in Sortings(S) :
          LET page == Page(f, found, n)
              before == IF listing.stage = "off" THEN MatchesAfter(f, NoToken) ELSE owed
          IN /\ seen' = seen \o page.orders
             /\ owed' = before \ Range(page.orders)
             /\ listing' = Listing(IF page.next = NoToken THEN "done" ELSE "paging", f, page.next)
    BY DEF List
  <1> DEFINE size == ClampPageSize(n)
             m == IF Len(found) > size THEN size ELSE Len(found)
             p == Page(f, found, n).orders
             next == Page(f, found, n).next
  <1>2. /\ found \in Seq(S) /\ Len(found) \in Nat /\ size \in Nat \ {0} /\ m \in Nat
        /\ \A i \in 1..Len(found) : found[i] \in S
        /\ \A o \in S : \E i \in 1..Len(found) : found[i] = o
        /\ \A i, j \in 1..Len(found) : i < j => Precedes(found[i], found[j])
        /\ p \in Seq(S) /\ Len(p) = m /\ \A i \in 1..m : p[i] = found[i]
        /\ Len(found) > size => next = EncodePageToken(f, found[m]) /\ m = size
        /\ ~(Len(found) > size) => next = NoToken /\ m = Len(found)
        /\ next = NoToken <=> ~(Len(found) > size)
    BY PageFacts DEF LInv
  <1>3. /\ listing.stage # "done" /\ DecodePageToken(f, token) /\ wall' = wall /\ rows' = rows
    BY DEF List
  <1>4. \A o \in S : /\ o \in OrderIds /\ rows[o].state = "stored" /\ rows[o].tenant = f.tenant
                     /\ Matches(o, f) /\ Beyond(o, token)
    BY DEF MatchesAfter, Matches
  <1>5. seen' = seen \o p /\ listing'.filter = f /\ listing'.token = next
        /\ listing'.stage = IF next = NoToken THEN "done" ELSE "paging"
    BY <1>1 DEF Listing
  <1>6. owed' = (IF listing.stage = "off" THEN MatchesAfter(f, NoToken) ELSE owed) \ Range(p)
    BY <1>1
  <1> HIDE DEF p, next, size, m, S
  <1> DEFINE Follows == /\ owed' \subseteq S \ Range(p)
                        /\ \A i \in 1..Len(seen) : /\ rows[seen[i]].tenant = f.tenant
                                                    /\ \A o \in S : Precedes(seen[i], o)
  <1>8. Follows
    <2>1. CASE listing.stage = "off"
      <3>1. token = NoToken /\ seen = <<>>
        BY <2>1 DEF LInv, Resumes
      <3>2. owed' = S \ Range(p)
        BY <1>6, <2>1, <3>1 DEF S
      <3>3. Len(seen) = 0
        BY <3>1
      <3>4. QED BY <3>2, <3>3
    <2>2. CASE listing.stage = "paging"
      <3> DEFINE last == seen[Len(seen)]
      <3>1. seen \in Seq(OrderIds) /\ Len(seen) > 0 /\ token = EncodePageToken(listing.filter, last)
        BY <2>2 DEF LInv, ListTyped, Resumes
      <3>2. Len(seen) \in 1..Len(seen) /\ last \in OrderIds
        BY <3>1
      <3>3. token.at = rows[last].at /\ token.id = last /\ token.hash = listing.filter
        BY <3>1 DEF EncodePageToken
      <3>4. f = listing.filter
        <4>1. NoToken.id = 0 /\ last # 0
          BY <3>2, ListingAssumption DEF NoToken
        <4>2. QED BY <1>3, <3>3, <4>1 DEF DecodePageToken
      <3>5. owed' \subseteq S \ Range(p)
        BY <1>6, <2>2, <3>4 DEF LInv, Resumes, S
      <3>6. \A o \in S : Precedes(last, o)
        <4> SUFFICES ASSUME NEW o \in S PROVE Precedes(last, o)
          OBVIOUS
        <4>1. o \in OrderIds /\ Beyond(o, token)
          BY <1>4
        <4>2. rows[o].at \in Nat /\ rows[last].at \in Nat /\ o \in Nat /\ last \in Nat
          BY <3>2, <4>1, ListingAssumption DEF LInv, ListTyped, OrderRows
        <4>3. QED BY <3>3, <4>1, <4>2 DEF Beyond, Precedes
      <3> HIDE DEF last
      <3>7. ASSUME NEW i \in 1..Len(seen)
            PROVE  rows[seen[i]].tenant = f.tenant /\ \A o \in S : Precedes(seen[i], o)
        <4>1. rows[seen[i]].tenant = f.tenant
          BY <3>4 DEF LInv, SeenIsStored
        <4>2. CASE i = Len(seen)
          BY <3>6, <4>1, <4>2 DEF last
        <4>3. CASE i < Len(seen)
          <5>1. Precedes(seen[i], last)
            BY <3>2, <4>3 DEF LInv, SeenIsSorted, last
          <5>2. seen[i] \in OrderIds
            BY <3>1
          <5>3. QED BY <1>4, <3>2, <3>6, <4>1, <5>1, <5>2, PrecedesTransitive DEF LInv
        <4>4. QED BY <3>1, <4>2, <4>3
      <3>8. QED BY <3>5, <3>7
    <2>3. QED BY <1>3, <2>1, <2>2 DEF LInv, Resumes
  <1>9. /\ seen \in Seq(OrderIds) /\ p \in Seq(OrderIds) /\ seen' \in Seq(OrderIds)
        /\ Len(seen) \in Nat /\ Len(seen') = Len(seen) + m
        /\ \A i \in 1..Len(seen) : seen'[i] = seen[i]
        /\ \A i \in 1..m : seen'[Len(seen) + i] = found[i]
    <2>1. seen \in Seq(OrderIds) /\ p \in Seq(OrderIds)
      BY <1>2, <1>4 DEF LInv, ListTyped
    <2>2. /\ seen' \in Seq(OrderIds) /\ Len(seen') = Len(seen) + Len(p)
          /\ \A i \in 1..Len(seen) + Len(p) : seen'[i] = IF i <= Len(seen) THEN seen[i] ELSE p[i - Len(seen)]
      BY <1>5, <2>1, ConcatProperties
    <2> DEFINE a == Len(seen)
               s == seen'
    <2>3. a \in Nat /\ m \in Nat /\ Len(s) = a + m
          /\ \A i \in 1..a + m : s[i] = IF i <= a THEN seen[i] ELSE p[i - a]
      BY <1>2, <2>1, <2>2, LenProperties
    <2> HIDE DEF a, s
    <2>4. \A i \in 1..a : s[i] = seen[i]
      BY <2>3
    <2>5. ASSUME NEW i \in 1..m PROVE s[a + i] = found[i]
      <3>1. a + i \in 1..a + m /\ ~(a + i <= a) /\ (a + i) - a = i
        BY <2>3
      <3>2. QED BY <1>2, <2>3, <3>1
    <2>6. QED BY <2>1, <2>2, <2>3, <2>4, <2>5 DEF a, s
  <1>10. m <= Len(found) /\ (Len(found) > size => m > 0)
    BY <1>2 DEF m
  <1>11. \A i \in 1..Len(seen') :
           \/ i \in 1..Len(seen) /\ seen'[i] = seen[i]
           \/ \E k \in 1..m : i = Len(seen) + k /\ seen'[i] = found[k] /\ k \in 1..Len(found)
    <2>0. \A i \in 1..Len(seen') : i <= Len(seen) => i \in 1..Len(seen)
      BY <1>9
    <2> SUFFICES ASSUME NEW i \in 1..Len(seen'), ~(i <= Len(seen))
                 PROVE  \E k \in 1..m : i = Len(seen) + k /\ seen'[i] = found[k] /\ k \in 1..Len(found)
      BY <1>9, <2>0
    <2>1. i - Len(seen) \in 1..m /\ i = Len(seen) + (i - Len(seen)) /\ i - Len(seen) \in 1..Len(found)
      <3> DEFINE a == Len(seen)
                 b == Len(seen')
                 c == Len(found)
      <3>1. a \in Nat /\ m \in Nat /\ c \in Nat /\ b = a + m /\ m <= c /\ i \in 1..b /\ ~(i <= a)
        BY <1>2, <1>9, <1>10
      <3> HIDE DEF a, b, c
      <3>2. i - a \in 1..m /\ i = a + (i - a) /\ i - a \in 1..c
        BY <3>1
      <3>3. QED BY <3>2 DEF a, c
    <2>2. seen'[i] = found[i - Len(seen)]
      BY <1>9, <2>1
    <2>3. QED BY <2>1, <2>2
  <1>12. owed' \subseteq S
    BY <1>8
  <1>13. ListTyped'
    BY <1>3, <1>4, <1>9, <1>12 DEF LInv, ListTyped
  <1>14. SeenIsStored'
    <2> SUFFICES ASSUME NEW i \in 1..Len(seen')
                 PROVE  rows[seen'[i]].state = "stored" /\ rows[seen'[i]].tenant = f.tenant
      BY <1>3, <1>5 DEF SeenIsStored
    <2>1. CASE i \in 1..Len(seen) /\ seen'[i] = seen[i]
      BY <1>8, <2>1 DEF LInv, SeenIsStored
    <2>2. CASE \E k \in 1..Len(found) : seen'[i] = found[k]
      BY <1>2, <1>4, <2>2
    <2>3. QED BY <1>11, <2>1, <2>2
  <1>15. SeenIsSorted'
    <2> SUFFICES ASSUME NEW i \in 1..Len(seen'), NEW j \in 1..Len(seen'), i < j
                 PROVE  Precedes(seen'[i], seen'[j])
      BY <1>3 DEF SeenIsSorted, Precedes
    <2>1. CASE j \in 1..Len(seen) /\ seen'[j] = seen[j]
      <3>1. i \in 1..Len(seen) /\ seen'[i] = seen[i]
        BY <1>9, <2>1
      <3>2. QED BY <2>1, <3>1 DEF LInv, SeenIsSorted
    <2>2. ASSUME NEW k \in 1..m, j = Len(seen) + k, seen'[j] = found[k], k \in 1..Len(found)
          PROVE  Precedes(seen'[i], seen'[j])
      <3>1. found[k] \in S
        BY <1>2, <2>2
      <3>2. CASE i \in 1..Len(seen) /\ seen'[i] = seen[i]
        BY <1>8, <2>2, <3>1, <3>2
      <3>3. ASSUME NEW l \in 1..m, i = Len(seen) + l, seen'[i] = found[l], l \in 1..Len(found)
            PROVE  Precedes(seen'[i], seen'[j])
        <4>1. l < k
          BY <1>2, <1>9, <2>2, <3>3
        <4>2. QED BY <1>2, <2>2, <3>3, <4>1
      <3>4. QED BY <1>11, <3>2, <3>3
    <2>3. QED BY <1>11, <2>1, <2>2
  <1>16. CASE Len(found) > size
    <2>1. next = EncodePageToken(f, found[m]) /\ next # NoToken /\ m \in 1..m /\ m \in 1..Len(found)
      BY <1>2, <1>10, <1>16
    <2>2. Len(seen') > 0 /\ seen'[Len(seen')] = found[m]
      <3>1. Len(seen) + m > 0
        BY <1>2, <1>9, <2>1
      <3>2. seen'[Len(seen) + m] = found[m]
        BY <1>9, <2>1
      <3>3. QED BY <1>9, <3>1, <3>2
    <2>3. listing'.token = EncodePageToken(f, seen[Len(seen)])'
      BY <1>3, <1>5, <2>1, <2>2 DEF EncodePageToken
    <2>4. ASSUME NEW o \in owed' PROVE o \in MatchesAfter(f, next)
      <3>1. o \in S /\ o \notin Range(p) /\ o \in OrderIds /\ Matches(o, f)
        BY <1>4, <1>8
      <3>2. PICK i \in 1..Len(found) : found[i] = o
        BY <1>2, <3>1
      <3>3. DOMAIN p = 1..m
        BY <1>2
      <3>4. ~(i <= m)
        <4>1. ASSUME i <= m PROVE FALSE
          <5>1. i \in 1..m
            BY <1>2, <3>2, <4>1
          <5>2. i \in DOMAIN p /\ p[i] = o
            BY <1>2, <3>2, <3>3, <5>1
          <5>3. QED BY <3>1, <5>2 DEF Range
        <4>2. QED BY <4>1
      <3>5. m < i
        BY <1>2, <3>4
      <3>6. Precedes(found[m], o)
        BY <1>2, <2>1, <3>2, <3>5
      <3>7. found[m] \in OrderIds /\ next.at = rows[found[m]].at /\ next.id = found[m]
        BY <1>2, <1>4, <2>1 DEF EncodePageToken
      <3>8. rows[o].at \in Nat /\ rows[found[m]].at \in Nat /\ o \in Nat /\ found[m] \in Nat
        BY <3>1, <3>7, ListingAssumption DEF LInv, ListTyped, OrderRows
      <3>9. Beyond(o, next)
        BY <3>6, <3>7, <3>8 DEF Beyond, Precedes
      <3>10. QED BY <3>1, <3>9 DEF MatchesAfter
    <2>5. owed' \subseteq MatchesAfter(listing.filter, listing.token)'
      <3>1. \A o \in MatchesAfter(f, next) : o \in MatchesAfter(listing.filter, listing.token)'
        BY <1>3, <1>5 DEF MatchesAfter, Matches, Beyond
      <3>2. QED BY <2>4, <3>1
    <2>6. Resumes'
      <3>1. listing'.stage = "paging" /\ listing'.filter = f
        BY <1>5, <2>1
      <3>2. listing'.token = EncodePageToken(listing.filter, seen[Len(seen)])'
        BY <1>5, <2>3 DEF EncodePageToken
      <3>3. QED BY <2>2, <2>5, <3>1, <3>2 DEF Resumes
    <2>7. QED BY <1>13, <1>14, <1>15, <2>6 DEF LInv
  <1>17. CASE ~(Len(found) > size)
    <2>1. m = Len(found) /\ listing'.stage = "done"
      BY <1>2, <1>5, <1>17
    <2>2. S \subseteq Range(p)
      <3> SUFFICES ASSUME NEW o \in S PROVE o \in Range(p)
        OBVIOUS
      <3>1. PICK i \in 1..Len(found) : found[i] = o
        BY <1>2
      <3>2. DOMAIN p = 1..m /\ i \in 1..m
        BY <1>2, <2>1
      <3>3. p[i] = o
        BY <1>2, <3>1, <3>2
      <3>4. QED BY <3>2, <3>3 DEF Range
    <2>3. owed' = {}
      BY <1>8, <2>2
    <2>4. QED BY <1>13, <1>14, <1>15, <2>1, <2>3 DEF LInv, Resumes
  <1>18. QED BY <1>16, <1>17

LEMMA InitLInv == ListingInit => LInv
  <1> SUFFICES ASSUME ListingInit PROVE LInv
    OBVIOUS
  <1>1. ListTyped
    BY NoRowTyped, ListingAssumption DEF ListingInit, ListTyped
  <1>2. Len(seen) = 0
    BY DEF ListingInit
  <1>3. SeenIsStored /\ SeenIsSorted
    BY <1>2 DEF SeenIsStored, SeenIsSorted
  <1>4. Resumes
    BY DEF ListingInit, Resumes, NoListing, Listing
  <1>5. QED BY <1>1, <1>3, <1>4 DEF LInv

LEMMA NextLInv == LInv /\ [ListingNext]_listVars => LInv'
  <1>1. ASSUME LInv, UNCHANGED listVars PROVE LInv'
    BY <1>1 DEF LInv, listVars, ListTyped, SeenIsStored, SeenIsSorted, Resumes, Precedes, EncodePageToken,
       MatchesAfter, Matches, Beyond
  <1>2. ASSUME LInv, ListingNext PROVE LInv'
    BY <1>2, WritersKeep, ListKeeps DEF ListingNext
  <1>3. QED BY <1>1, <1>2

\* The invariant holds throughout.
LEMMA SpecLInv == ListingSpec => []LInv
  BY InitLInv, NextLInv, PTL DEF ListingSpec

\* The invariant includes the types.
LEMMA LInvTypes == LInv => ListingTypeOK
  <1> SUFFICES ASSUME LInv PROVE ListingTypeOK
    OBVIOUS
  <1>1. wall \in 0..MaxTime /\ MaxTime \in Nat /\ wall \in Nat
    BY ListingAssumption DEF LInv, ListTyped
  <1>2. \A o \in OrderIds : /\ rows[o].state \in {"absent", "open", "stored"}
                             /\ rows[o].at \in 0..wall
                             /\ rows[o].status \in {"PENDING", "CANCELLED"}
    <2> SUFFICES ASSUME NEW o \in OrderIds
                 PROVE  /\ rows[o].state \in {"absent", "open", "stored"}
                        /\ rows[o].at \in 0..wall /\ rows[o].status \in {"PENDING", "CANCELLED"}
      OBVIOUS
    <2>1. rows[o] \in OrderRows /\ rows[o].at <= wall
      BY DEF LInv, ListTyped
    <2>2. /\ rows[o].at \in Nat /\ rows[o].state \in {"absent", "open", "stored"}
          /\ rows[o].status \in {"PENDING", "CANCELLED"}
      BY <2>1 DEF OrderRows
    <2>3. QED BY <1>1, <2>1, <2>2
  <1>3. listing.stage \in {"off", "paging", "done"}
    BY DEF LInv, Resumes
  <1>4. QED BY <1>1, <1>2, <1>3 DEF ListingTypeOK, LInv, ListTyped

\* Rows, cursor and listing are always well formed.
THEOREM ListingTypeCorrect == ListingSpec => []ListingTypeOK
  BY LInvTypes, SpecLInv, PTL

\* The invariant says what a finished listing has returned.
LEMMA LInvExact == LInv => ListingsAreExact
  <1> SUFFICES ASSUME LInv PROVE ListingsAreExact
    OBVIOUS
  <1>1. DOMAIN seen = 1..Len(seen)
    BY DEF LInv, ListTyped
  <1>2. listing.stage = "done" => owed = {}
    BY DEF LInv, Resumes
  <1>3. QED BY <1>1, <1>2 DEF ListingsAreExact, LInv, SeenIsStored, SeenIsSorted

\* For any orders, page sizes and interleaving of creates and cancels with the
\* pages, a listing returns nothing twice, nothing of another tenant, everything
\* in key order, and misses nothing it owes.
THEOREM PagingIsExact == ListingSpec => []ListingsAreExact
  BY LInvExact, SpecLInv, PTL
=============================================================================
