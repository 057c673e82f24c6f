--------------------------- MODULE PlatformProofs ---------------------------
(***************************************************************************)
(* Proofs about the key cache (any number of callers and keys, every       *)
(* setting of the three intervals) and about event retention (every        *)
(* setting that config.Validate accepts), and the safety of the platform   *)
(* that MCPlatform assembles from its nine parts.                          *)
(***************************************************************************)
EXTENDS MCPlatform, ProcessProofs, RequestProofs, AlgorithmProofs

-----------------------------------------------------------------------------
(* The key cache *)

Past(t) == t # Never => t <= clock

\* The cache's timestamps are not ahead of the clock.
StampsArePast == Past(lastAttempt) /\ Past(fetchedAt)

\* A caller inside a network call holds the lock it was made under, and a fetch
\* is younger than the client's timeout.
LocksHeld ==
  \A c \in Callers :
    /\ stage[c] = "discovering" => discoveryMu = c /\ verifier = "discovery"
    /\ stage[c] = "fetching" =>
         /\ refreshMu = c
         /\ lastAttempt # Never
         /\ clock - lastAttempt <= ClientTimeout

\* Nobody has come past keySet before the cache exists.
ColdUntilReady ==
  verifier # "ready" =>
    /\ keys = {} /\ answer = Waiting
    /\ \A c \in Callers : stage[c] \in Resting \union {"keySet", "discovering"}

Known(k) == k \in published \/ revokedAt[k] # Never

\* A revoked key is never published again, and none is published ahead of time.
PublishedAreValid == \A k \in published : revokedAt[k] = Never /\ publishedAt[k] <= clock

\* Cached keys were published once; a revoked one was fetched at most a timeout
\* after its revocation.
KeysAreExplained ==
  \A k \in keys :
    /\ Known(k)
    /\ fetchedAt # Never
    /\ revokedAt[k] # Never => fetchedAt <= revokedAt[k] + ClientTimeout

\* What the cache lacks was published at most a timeout before the last fetch that
\* succeeded.
MissingAreYoung ==
  fetchedAt # Never => \A k \in published \ keys : publishedAt[k] + ClientTimeout >= fetchedAt

\* A document under way was built after lastAttempt: it lacks a cached key only if
\* that was revoked, and a published one only if that came later.
AnswerIsRecent ==
  /\ answer # Waiting => refreshMu # NoCaller /\ lastAttempt # Never
  /\ \A ks \in SUBSET Kids : answer = Document(ks) =>
       /\ \A k \in ks : Known(k) /\ (revokedAt[k] # Never => revokedAt[k] >= lastAttempt)
       /\ \A k \in keys \ ks : revokedAt[k] # Never
       /\ \A k \in published \ ks : publishedAt[k] >= lastAttempt

\* Between fetches: the last attempt failed, or it brought what was published at
\* its time.
AttemptIsExplained ==
  refreshMu = NoCaller /\ lastAttempt # Never =>
    \/ lastFailure # Never /\ lastFailure >= lastAttempt
    \/ /\ \A k \in keys : revokedAt[k] # Never => revokedAt[k] >= lastAttempt
       /\ \A k \in published \ keys : publishedAt[k] >= lastAttempt

\* Why a caller looks a second time: a fetch has just ended, or none may start.
SecondLook ==
  \A c \in Callers : stage[c] = "relook" =>
    \/ fetchedAt = clock
    \/ lastFailure = clock
    \/ RateLimited /\ refreshMu = NoCaller

KInv ==
  /\ KeysTypeOK
  /\ StampsArePast /\ LocksHeld /\ ColdUntilReady
  /\ PublishedAreValid /\ KeysAreExplained /\ MissingAreYoung
  /\ AnswerIsRecent /\ AttemptIsExplained /\ SecondLook

-----------------------------------------------------------------------------
(* Facts the steps rest on *)

\* KeyTimes, as the steps cite it.
LEMMA TimesAreNumbers ==
  /\ MinRefresh \in Nat /\ MaxKeyAge \in Nat /\ ClientTimeout \in Nat /\ MaxClock \in Nat
  /\ NoCaller \notin Callers /\ NoKid \notin Kids /\ FirstKids \subseteq Kids
  BY KeyTimes DEF KeyTimes

\* The answers are different things.
LEMMA AnswersDiffer ==
  /\ Waiting # Failed
  /\ \A ks : Waiting # Document(ks) /\ Failed # Document(ks)
  /\ \A ks, js : Document(ks) = Document(js) => ks = js
  /\ \A ks : Document(ks).keys = ks
  BY DEF Waiting, Failed, Document

\* A fresh verifier satisfies the invariant.
LEMMA InitKInv == KeysInit => KInv
  BY TimesAreNumbers, AnswersDiffer
     DEF KeysInit, KInv, KeysTypeOK, Instants, Never, Stages, Resting, StampsArePast, Past, LocksHeld,
         ColdUntilReady, PublishedAreValid, KeysAreExplained, MissingAreYoung, AnswerIsRecent,
         AttemptIsExplained, SecondLook, Known

\* The issuer's steps.
LEMMA IssuerKInv ==
  ASSUME KInv, NEW k \in Kids, Rotate(k) \/ Revoke(k)
  PROVE  KInv'
  <1> USE TimesAreNumbers DEF KInv, Rotate, Revoke, discoveryVars, cacheVars, callerVars
  <1>1. KeysTypeOK'
    BY DEF KeysTypeOK, Instants, Never
  <1>2. StampsArePast' /\ LocksHeld' /\ ColdUntilReady' /\ SecondLook'
    BY DEF StampsArePast, Past, LocksHeld, ColdUntilReady, SecondLook, RateLimited, Within, Never
  <1>3. PublishedAreValid' /\ KeysAreExplained' /\ MissingAreYoung'
    BY DEF PublishedAreValid, KeysAreExplained, MissingAreYoung, Known, KeysTypeOK, Instants, Never,
           StampsArePast, Past
  <1>4. AnswerIsRecent'
    <2>1. (answer # Waiting => refreshMu # NoCaller /\ lastAttempt # Never)'
      BY DEF AnswerIsRecent, Waiting, Never
    <2>2. ASSUME NEW ks \in SUBSET Kids, answer = Document(ks)
          PROVE  /\ \A j \in ks : Known(j)' /\ (revokedAt'[j] # Never => revokedAt'[j] >= lastAttempt)
                 /\ \A j \in keys \ ks : revokedAt'[j] # Never
                 /\ \A j \in published' \ ks : publishedAt'[j] >= lastAttempt
      <3>1. \A j \in ks : Known(j) /\ (revokedAt[j] # Never => revokedAt[j] >= lastAttempt)
        BY <2>2 DEF AnswerIsRecent
      <3>2. \A j \in keys \ ks : revokedAt[j] # Never
        BY <2>2 DEF AnswerIsRecent
      <3>3. lastAttempt # Never /\ \A j \in published \ ks : publishedAt[j] >= lastAttempt
        BY <2>2, AnswersDiffer DEF AnswerIsRecent
      <3>4. QED
        BY <3>1, <3>2, <3>3 DEF Known, KeysTypeOK, Instants, Never, StampsArePast, Past
    <2>3. QED BY <2>1, <2>2 DEF AnswerIsRecent, Never
  <1>5. AttemptIsExplained'
    BY DEF AttemptIsExplained, KeysTypeOK, Instants, Never, StampsArePast, Past
  <1>6. QED BY <1>1, <1>2, <1>3, <1>4, <1>5

\* Time passes only where no instantaneous stage is pending, and a fetch in
\* flight stays within its timeout.
LEMMA TickKInv ==
  ASSUME KInv, Tick
  PROVE  KInv'
  <1> USE TimesAreNumbers DEF KInv, Tick, issuerVars, discoveryVars, cacheVars, callerVars
  <1>1. KeysTypeOK'
    BY DEF KeysTypeOK, Instants, Never
  <1>2. StampsArePast' /\ LocksHeld' /\ ColdUntilReady'
    BY DEF StampsArePast, Past, LocksHeld, ColdUntilReady, KeysTypeOK, Instants, Never
  <1>3. PublishedAreValid' /\ KeysAreExplained' /\ MissingAreYoung' /\ AttemptIsExplained'
    BY DEF PublishedAreValid, KeysAreExplained, MissingAreYoung, AttemptIsExplained, Known, Never,
           KeysTypeOK, Instants
  <1>4. AnswerIsRecent'
    BY DEF AnswerIsRecent, Known, Never, Waiting, Document
  <1>5. SecondLook'
    BY DEF SecondLook, Instantaneous
  <1>6. QED BY <1>1, <1>2, <1>3, <1>4, <1>5

\* Steps that leave the cache alone and move one caller, or none, to a stage of
\* no consequence.
LEMMA QuietKInv ==
  ASSUME KInv, UNCHANGED <<clock, issuerVars, cacheVars>>,
         KeysTypeOK', LocksHeld', ColdUntilReady', SecondLook'
  PROVE  KInv'
  <1> USE DEF KInv, issuerVars, cacheVars
  <1>1. /\ StampsArePast' /\ PublishedAreValid' /\ KeysAreExplained' /\ MissingAreYoung'
        /\ AttemptIsExplained'
    BY DEF PublishedAreValid, StampsArePast, Past, KeysAreExplained, MissingAreYoung,
           AttemptIsExplained, Known, Never
  <1>2. AnswerIsRecent'
    BY DEF AnswerIsRecent, Known, Never, Waiting, Document
  <1>3. QED BY <1>1, <1>2

\* Construction leaves the cache cold.
LEMMA BuildKInv ==
  ASSUME KInv, NEW mode \in {"discovery", "jwksURL"}, NewOIDCVerifier(mode)
  PROVE  KInv'
  <1> USE TimesAreNumbers DEF KInv, NewOIDCVerifier, issuerVars, cacheVars, callerVars
  <1>1. KeysTypeOK'
    BY DEF KeysTypeOK, Instants, Never
  <1>2. LocksHeld' /\ ColdUntilReady' /\ SecondLook'
    BY DEF LocksHeld, ColdUntilReady, SecondLook, RateLimited, Within, Never, Resting, Waiting
  <1>3. QED BY <1>1, <1>2, QuietKInv

\* A new verification starts before the cache, or past keySet once it exists.
LEMMA VerifyKInv ==
  ASSUME KInv, NEW c \in Callers, NEW k \in Kids, Verify(c, k)
  PROVE  KInv'
  <1> USE TimesAreNumbers DEF KInv, Verify, issuerVars, discoveryVars, cacheVars
  <1>1. KeysTypeOK'
    BY DEF KeysTypeOK, Instants, Never, Stages
  <1>2. LocksHeld' /\ ColdUntilReady' /\ SecondLook'
    BY DEF LocksHeld, ColdUntilReady, SecondLook, RateLimited, Within, Never, Resting, Waiting,
           KeysTypeOK
  <1>3. QED BY <1>1, <1>2, QuietKInv

\* keySet and the end of discovery.
LEMMA KeySetKInv ==
  ASSUME KInv, NEW c \in Callers, KeySet(c) \/ DiscoverDone(c)
  PROVE  KInv'
  <1> USE TimesAreNumbers DEF KInv, KeySet, DiscoverDone, At, issuerVars, discoveryVars, cacheVars
  <1>1. KeysTypeOK'
    BY DEF KeysTypeOK, Instants, Never, Stages, Resting
  <1>2. LocksHeld' /\ ColdUntilReady' /\ SecondLook'
    BY DEF LocksHeld, ColdUntilReady, SecondLook, RateLimited, Within, Never, Resting, Waiting,
           KeysTypeOK
  <1>3. QED BY <1>1, <1>2, QuietKInv

\* The two looks at the cache change no cache state.
LEMMA LookKInv ==
  ASSUME KInv, NEW c \in Callers, KeyFor(c) \/ Relook(c)
  PROVE  KInv'
  <1> USE TimesAreNumbers DEF KInv, KeyFor, Relook, At, issuerVars, discoveryVars, cacheVars
  <1>1. KeysTypeOK'
    BY DEF KeysTypeOK, Instants, Never, Stages, Resting
  <1>2. LocksHeld' /\ ColdUntilReady' /\ SecondLook'
    BY DEF LocksHeld, ColdUntilReady, SecondLook, RateLimited, Within, Never, Resting, Waiting,
           KeysTypeOK
  <1>3. QED BY <1>1, <1>2, QuietKInv

\* refresh: the rate limit, or the lock and the stamp of a new attempt.
LEMMA RefreshKInv ==
  ASSUME KInv, NEW c \in Callers, Refresh(c)
  PROVE  KInv'
  <1> USE TimesAreNumbers DEF KInv, Refresh, At, issuerVars, discoveryVars
  <1>1. KeysTypeOK'
    BY DEF KeysTypeOK, Instants, Never, Stages, Resting
  <1>2. /\ StampsArePast' /\ ColdUntilReady'
        /\ PublishedAreValid' /\ KeysAreExplained' /\ MissingAreYoung'
    BY DEF PublishedAreValid, StampsArePast, Past, ColdUntilReady, KeysAreExplained, MissingAreYoung,
           Known, Never, Resting, Waiting, KeysTypeOK
  <1>3. LocksHeld'
    BY DEF LocksHeld, KeysTypeOK, Instants, Never
  <1>4. answer = Waiting
    BY DEF AnswerIsRecent
  <1>5. AnswerIsRecent'
    BY <1>4, AnswersDiffer DEF AnswerIsRecent, Waiting, Document
  <1>6. AttemptIsExplained'
    BY DEF AttemptIsExplained, KeysTypeOK, Never
  <1>7. SecondLook'
    BY DEF SecondLook, RateLimited, Within, Never, KeysTypeOK
  <1>8. QED BY <1>1, <1>2, <1>3, <1>5, <1>6, <1>7

\* The answer is built while the fetch that asked for it is in flight.
LEMMA AnswerKInv ==
  ASSUME KInv, IssuerAnswers
  PROVE  KInv'
  <1> USE TimesAreNumbers DEF KInv, IssuerAnswers, issuerVars, discoveryVars, callerVars
  <1>1. KeysTypeOK'
    BY DEF KeysTypeOK, Instants, Never
  <1>2. /\ StampsArePast' /\ LocksHeld' /\ PublishedAreValid'
        /\ KeysAreExplained' /\ MissingAreYoung' /\ AttemptIsExplained' /\ SecondLook'
    BY DEF PublishedAreValid, StampsArePast, Past, LocksHeld, KeysAreExplained, MissingAreYoung,
           AttemptIsExplained, SecondLook, Known, RateLimited, Within, Never
  <1>3. PICK c \in Callers : stage[c] = "fetching"
    OBVIOUS
  <1>4. refreshMu # NoCaller /\ lastAttempt # Never
    BY <1>3 DEF LocksHeld
  <1>5. ColdUntilReady'
    BY <1>3 DEF ColdUntilReady, Resting
  <1>6. AnswerIsRecent'
    <2>1. ASSUME NEW ks \in SUBSET Kids, answer' = Document(ks)
          PROVE  ks = published
      BY <2>1, AnswersDiffer
    <2>2. \A k \in published : Known(k)'
      BY DEF Known
    <2>3. QED
      BY <1>4, <2>1, <2>2 DEF AnswerIsRecent, PublishedAreValid, KeysAreExplained, Known, Never
  <1>7. QED BY <1>1, <1>2, <1>5, <1>6

\* The end of a fetch: the lock is released, the failure or the keys recorded.
LEMMA FetchDoneKInv ==
  ASSUME KInv, NEW c \in Callers, FetchDone(c)
  PROVE  KInv'
  <1> USE TimesAreNumbers DEF KInv, FetchDone, At, issuerVars, discoveryVars
  <1>1. KeysTypeOK'
    <2>1. keys' \subseteq Kids
      BY AnswersDiffer DEF KeysTypeOK
    <2>2. QED BY <2>1 DEF KeysTypeOK, Instants, Never, Stages, Resting
  <1>2. verifier = "ready"
    BY DEF ColdUntilReady, Resting
  <1>3. ColdUntilReady'
    BY <1>2 DEF ColdUntilReady
  <1>4. StampsArePast'
    BY DEF StampsArePast, Past, KeysTypeOK, Never
  <1>5. LocksHeld'
    BY DEF LocksHeld, KeysTypeOK, Never
  <1>6. refreshMu = c /\ lastAttempt # Never /\ clock - lastAttempt <= ClientTimeout
    BY DEF LocksHeld
  <1>7. AnswerIsRecent'
    BY AnswersDiffer DEF AnswerIsRecent
  <1>8. SecondLook'
    BY DEF SecondLook, KeysTypeOK, LocksHeld
  <1>9. PublishedAreValid'
    BY DEF PublishedAreValid, Never
  <1>10. CASE answer \in {Failed, Document({})}
    <2>1. KeysAreExplained' /\ MissingAreYoung'
      BY <1>10 DEF KeysAreExplained, MissingAreYoung, Known, Never
    <2>2. AttemptIsExplained'
      BY <1>10, <1>6 DEF AttemptIsExplained, StampsArePast, Past, KeysTypeOK, Never
    <2>3. QED BY <1>1, <1>3, <1>4, <1>5, <1>7, <1>8, <1>9, <2>1, <2>2
  <1>11. CASE answer \notin {Failed, Document({})}
    <2>1. PICK ks \in SUBSET Kids : answer = Document(ks)
      BY <1>11 DEF KeysTypeOK
    <2>2. keys' = ks /\ fetchedAt' = clock
      BY <1>11, <2>1, AnswersDiffer
    <2>3. \A k \in ks : Known(k) /\ (revokedAt[k] # Never => revokedAt[k] >= lastAttempt)
      BY <2>1 DEF AnswerIsRecent
    <2>4. \A k \in published \ ks : publishedAt[k] >= lastAttempt
      BY <2>1 DEF AnswerIsRecent
    <2>5. KeysAreExplained' /\ MissingAreYoung'
      BY <1>6, <2>2, <2>3, <2>4
         DEF KeysAreExplained, MissingAreYoung, Known, KeysTypeOK, Instants, Never
    <2>6. AttemptIsExplained'
      BY <2>2, <2>3, <2>4 DEF AttemptIsExplained, Never
    <2>7. QED BY <1>1, <1>3, <1>4, <1>5, <1>7, <1>8, <1>9, <2>5, <2>6
  <1>12. QED BY <1>10, <1>11

\* Every step preserves the invariant.
LEMMA NextKInv == KInv /\ [KeysNext]_keysVars => KInv'
  <1> SUFFICES ASSUME KInv, [KeysNext]_keysVars PROVE KInv'
    OBVIOUS
  <1>1. CASE KeysNext
    BY <1>1, TickKInv, IssuerKInv, BuildKInv, VerifyKInv, KeySetKInv, LookKInv, RefreshKInv, AnswerKInv,
       FetchDoneKInv DEF KeysNext, KeysProgress
  <1>2. CASE UNCHANGED keysVars
    <2>1. KeysTypeOK' /\ LocksHeld' /\ ColdUntilReady' /\ SecondLook'
      BY <1>2 DEF KInv, keysVars, issuerVars, discoveryVars, cacheVars, callerVars, KeysTypeOK,
                  LocksHeld,
                  ColdUntilReady, SecondLook, RateLimited, Within, Never, Instants, Waiting,
                  Failed, Document
    <2>2. QED BY <1>2, <2>1, QuietKInv DEF keysVars
  <1>3. QED BY <1>1, <1>2

\* The invariant holds throughout.
LEMMA SpecKInv == KeysSpec => []KInv
  BY InitKInv, NextKInv, PTL DEF KeysSpec

-----------------------------------------------------------------------------
(* The theorems *)

\* Every reachable state is well typed.
THEOREM KeysTypeCorrect == KeysSpec => []KeysTypeOK
  BY SpecKInv, PTL DEF KInv

\* The rate limit bounds what it delays: however many tokens miss the cache, a
\* published key is refused only for as long as refresh may be kept from asking.
THEOREM RotationsAreNoticed == KeysSpec => RotationIsNoticed
  <1> DEFINE Excused(c) ==
        \/ clock - publishedAt[kidOf[c]] < Later(MinRefresh, ClientTimeout + 1)
        \/ lastFailure # Never /\ clock - lastFailure <= MinRefresh
  <1> DEFINE Noticed == \A c \in Callers :
        /\ Becomes(c, "denied")
        /\ verifier = "ready" /\ kidOf[c] \in published
        => Excused(c)
  <1>1. ASSUME KInv, [KeysNext]_keysVars
        PROVE  [Noticed]_keysVars
    <2> SUFFICES ASSUME KeysNext, NEW c \in Callers, Becomes(c, "denied"),
                        verifier = "ready", kidOf[c] \in published
                 PROVE  Excused(c)
      BY <1>1
    <2>1. \/ Relook(c) \/ KeySet(c) \/ DiscoverDone(c)
      BY <1>1 DEF KInv, KeysTypeOK, KeysNext, KeysProgress, Becomes, Tick, Rotate, Revoke,
                  NewOIDCVerifier,
                  Verify, KeySet, DiscoverDone, KeyFor, Refresh, IssuerAnswers, FetchDone, Relook,
                  At, callerVars
    <2>2. ~KeySet(c) /\ ~DiscoverDone(c)
      BY <1>1 DEF KeySet, DiscoverDone, At, Becomes, KInv, KeysTypeOK, LocksHeld
    <2>3. stage[c] = "relook" /\ kidOf[c] \notin keys
      BY <1>1, <2>1, <2>2 DEF Relook, At, Becomes, KInv, KeysTypeOK
    <2> DEFINE p == publishedAt[kidOf[c]]
    <2>4. /\ p \in Nat /\ clock \in Nat /\ clock <= MaxClock
          /\ lastFailure \in Nat /\ lastAttempt \in Nat /\ fetchedAt \in Nat
          /\ fetchedAt # Never => p + ClientTimeout >= fetchedAt
      BY <1>1, <2>3, TimesAreNumbers DEF KInv, KeysTypeOK, Instants, Never, MissingAreYoung
    <2>5. \/ fetchedAt = clock
          \/ lastFailure = clock
          \/ RateLimited /\ refreshMu = NoCaller
      BY <1>1, <2>3 DEF KInv, SecondLook
    <2>6. CASE fetchedAt = clock
      BY <2>4, <2>6, TimesAreNumbers DEF Later, Never
    <2>7. CASE lastFailure = clock
      BY <2>4, <2>7, TimesAreNumbers DEF Never
    <2>8. CASE RateLimited /\ refreshMu = NoCaller
      <3>1. lastAttempt # Never /\ clock - lastAttempt < MinRefresh
        BY <2>8 DEF RateLimited, Within
      <3>2. \/ lastFailure # Never /\ lastFailure >= lastAttempt
            \/ p >= lastAttempt
        BY <1>1, <2>3, <2>8, <3>1 DEF KInv, AttemptIsExplained
      <3>3. QED BY <2>4, <3>1, <3>2, TimesAreNumbers DEF Later
    <2>9. QED BY <2>5, <2>6, <2>7, <2>8
  <1>2. QED BY <1>1, SpecKInv, PTL DEF KeysSpec, RotationIsNoticed

\* keyFor's middle case: a key is dropped only after the issuer withdrew it, and
\* no token is refused for want of a key the cache holds.
THEOREM OutagesRefuseNoHeldKey == KeysSpec => HeldKeySurvivesOutage
  <1> DEFINE Kept == /\ \A k \in keys \ keys' : revokedAt[k] # Never
                     /\ \A c \in Callers : Becomes(c, "denied") => kidOf[c] \notin keys
  <1>1. ASSUME KInv, [KeysNext]_keysVars
        PROVE  [Kept]_keysVars
    <2> SUFFICES ASSUME KeysNext PROVE Kept
      BY <1>1
    <2>1. ASSUME NEW k \in keys \ keys'
          PROVE  revokedAt[k] # Never
      <3>1. PICK c \in Callers : FetchDone(c)
        BY <2>1 DEF KeysNext, KeysProgress, Tick, Rotate, Revoke, NewOIDCVerifier, Verify, KeySet,
                    DiscoverDone,
                    KeyFor, Refresh, IssuerAnswers, Relook, cacheVars
      <3>2. PICK ks \in SUBSET Kids : answer = Document(ks) /\ keys' = ks
        BY <1>1, <2>1, <3>1, AnswersDiffer DEF FetchDone, KInv, KeysTypeOK
      <3>3. QED BY <1>1, <2>1, <3>2 DEF KInv, AnswerIsRecent
    <2>2. ASSUME NEW c \in Callers, Becomes(c, "denied")
          PROVE  kidOf[c] \notin keys
      <3>1. \/ Relook(c) \/ KeySet(c) \/ DiscoverDone(c)
        BY <1>1, <2>2 DEF KInv, KeysTypeOK, KeysNext, KeysProgress, Becomes, Tick, Rotate, Revoke,
                          NewOIDCVerifier,
                  Verify, KeySet, DiscoverDone, KeyFor, Refresh, IssuerAnswers, FetchDone, Relook,
                  At, callerVars
      <3>2. CASE Relook(c)
        BY <1>1, <2>2, <3>2 DEF Relook, At, Becomes, KInv, KeysTypeOK
      <3>3. CASE KeySet(c) \/ DiscoverDone(c)
        <4>1. verifier # "ready"
          BY <1>1, <2>2, <3>3 DEF KeySet, DiscoverDone, At, Becomes, KInv, KeysTypeOK, LocksHeld
        <4>2. QED BY <1>1, <4>1 DEF KInv, ColdUntilReady
      <3>4. QED BY <3>1, <3>2, <3>3
    <2>3. QED BY <2>1, <2>2
  <1>2. QED BY <1>1, SpecKInv, PTL DEF KeysSpec, HeldKeySurvivesOutage

\* maxAge bounds a revocation: a withdrawn key verifies tokens only until the
\* cached set is stale and may be refetched, or while the issuer is unreachable.
THEOREM RevokedKeysAgeOut == KeysSpec => RevocationTakesEffect
  <1> DEFINE Excused(c) ==
        \/ clock - revokedAt[kidOf[c]] < Later(MaxKeyAge + ClientTimeout, MinRefresh)
        \/ lastFailure # Never /\ clock - lastFailure <= MinRefresh
  <1> DEFINE Bounded == \A c \in Callers :
        /\ Becomes(c, "accepted")
        /\ revokedAt[kidOf[c]] # Never
        /\ MaxKeyAge > 0
        => Excused(c)
  <1>1. ASSUME KInv, [KeysNext]_keysVars
        PROVE  [Bounded]_keysVars
    <2> SUFFICES ASSUME KeysNext, NEW c \in Callers, Becomes(c, "accepted"),
                        revokedAt[kidOf[c]] # Never, MaxKeyAge > 0
                 PROVE  Excused(c)
      BY <1>1
    <2>1. KeyFor(c) \/ Relook(c)
      BY <1>1 DEF KInv, KeysTypeOK, KeysNext, KeysProgress, Becomes, Tick, Rotate, Revoke,
                  NewOIDCVerifier,
                  Verify, KeySet, DiscoverDone, KeyFor, Refresh, IssuerAnswers, FetchDone, Relook,
                  At, callerVars
    <2>2. kidOf[c] \in keys /\ (stage[c] = "keyFor" => Fresh) /\ stage[c] \in {"keyFor", "relook"}
      BY <1>1, <2>1 DEF KeyFor, Relook, At, Becomes, KInv, KeysTypeOK
    <2> DEFINE r == revokedAt[kidOf[c]]
    <2>3. /\ r \in Nat /\ r <= MaxClock
          /\ fetchedAt \in Nat /\ fetchedAt <= clock /\ fetchedAt <= r + ClientTimeout
          /\ clock \in Nat /\ clock <= MaxClock
          /\ lastFailure \in Nat /\ lastAttempt \in Nat
          /\ fetchedAt # Never
      BY <1>1, <2>2, TimesAreNumbers
         DEF KInv, KeysTypeOK, Instants, Never, KeysAreExplained, StampsArePast, Past
    <2>4. CASE stage[c] = "keyFor"
      <3>1. clock - fetchedAt < MaxKeyAge
        BY <2>2, <2>4, TimesAreNumbers DEF Fresh, Within
      <3>2. QED BY <2>3, <3>1, TimesAreNumbers DEF Later
    <2>5. CASE stage[c] = "relook"
      <3>1. \/ fetchedAt = clock
            \/ lastFailure = clock
            \/ RateLimited /\ refreshMu = NoCaller
        BY <1>1, <2>5 DEF KInv, SecondLook
      <3>2. CASE fetchedAt = clock
        BY <2>3, <3>2, TimesAreNumbers DEF Later
      <3>3. CASE lastFailure = clock
        BY <2>3, <3>3, TimesAreNumbers DEF Never
      <3>4. CASE RateLimited /\ refreshMu = NoCaller
        <4>1. lastAttempt # Never /\ clock - lastAttempt < MinRefresh
          BY <3>4 DEF RateLimited, Within
        <4>2. \/ lastFailure # Never /\ lastFailure >= lastAttempt
              \/ r >= lastAttempt
          BY <1>1, <2>2, <3>4, <4>1 DEF KInv, AttemptIsExplained
        <4>3. QED BY <2>3, <4>1, <4>2, TimesAreNumbers DEF Later
      <3>5. QED BY <3>1, <3>2, <3>3, <3>4
    <2>6. QED BY <2>2, <2>4, <2>5
  <1>2. QED BY <1>1, SpecKInv, PTL DEF KeysSpec, RevocationTakesEffect

-----------------------------------------------------------------------------
(* Event retention *)

\* A copy is stored between the first and the last, and expires with age.
CopiesAreYoung ==
  \A s \in copies : firstStored <= s /\ s <= lastStored /\ now - s <= StreamMaxAge

\* The row is first stored before anything else happens to it.
StoredFirst ==
  /\ firstStored = NotYet <=> lastStored = NotYet
  /\ firstStored <= lastStored /\ lastStored <= now
  /\ firstStored = NotYet => copies = {} /\ processedAt = NotYet /\ counted = 0
  /\ processedAt # NotYet => firstStored <= processedAt

\* An event that was counted and has lost its row was counted long ago.
ForgottenOnlyWhenOld ==
  counted > 0 /\ processedAt = NotYet => firstStored + ProcessedEvents < now

\* Two copies are a duplicate window apart.
CopiesAreSpread ==
  lastStored = firstStored \/ lastStored - firstStored >= DuplicateWindow

\* TwiceOnlyAfterALateCopy is not inductive: HandleCopy needs the ages of the copy
\* and of the missing row, which the other parts carry.
AgeInv ==
  /\ RetentionTypeOK
  /\ CopiesAreYoung
  /\ StoredFirst
  /\ ForgottenOnlyWhenOld
  /\ CopiesAreSpread
  /\ TwiceOnlyAfterALateCopy

LEMMA InitAgeInv == RetentionInit => AgeInv
  <1> SUFFICES ASSUME RetentionInit PROVE AgeInv
      OBVIOUS
  <1> USE WindowAssumption, RetentionAssumption, HorizonAssumption
          DEF validateNATS, ValidateRetention, WindowAssumption, RetentionAssumption,
              HorizonAssumption, RetentionInit, NotYet, Times
  <1>1. RetentionTypeOK
    <2>1. marked \in BOOLEAN /\ acknowledged \in BOOLEAN
      BY Zenon
    <2>2. now \in Times /\ copies \subseteq Times /\ counted \in Nat
      OBVIOUS
    <2>3. NotYet \in Times \cup {NotYet}
      BY Zenon
    <2> QED BY <2>1, <2>2, <2>3, Zenon DEF RetentionTypeOK
  <1>2. CopiesAreYoung
    BY DEF CopiesAreYoung
  <1>3. StoredFirst /\ ForgottenOnlyWhenOld
    BY DEF StoredFirst, ForgottenOnlyWhenOld
  <1>4. CopiesAreSpread /\ TwiceOnlyAfterALateCopy
    BY DEF CopiesAreSpread, TwiceOnlyAfterALateCopy
  <1> QED BY <1>1, <1>2, <1>3, <1>4 DEF AgeInv

LEMMA NextAgeInv == AgeInv /\ [RetentionNext]_retentionVars => AgeInv'
  <1> SUFFICES ASSUME AgeInv, [RetentionNext]_retentionVars PROVE AgeInv'
      OBVIOUS
  <1> USE WindowAssumption, RetentionAssumption, HorizonAssumption
          DEF validateNATS, ValidateRetention, WindowAssumption, RetentionAssumption,
              HorizonAssumption, AgeInv, RetentionTypeOK,
              CopiesAreYoung, StoredFirst, ForgottenOnlyWhenOld,
              CopiesAreSpread, TwiceOnlyAfterALateCopy, NotYet, Times
  <1>1. CASE TimePasses
    <2>0. copies' \subseteq copies
      <3> HIDE DEF AgeInv
      <3> QED BY <1>1 DEF TimePasses
    <2>1. RetentionTypeOK'
      <3>1. now + 1 \in Times
        BY <1>1 DEF TimePasses
      <3>2. copies' \subseteq Times
        BY <2>0, Zenon
      <3> QED BY <1>1, <3>1, <3>2 DEF TimePasses
    <2>2. CopiesAreYoung'
      BY <1>1 DEF TimePasses
    <2>3. StoredFirst'
      <3>1. copies = {} => copies' = {}
        BY <2>0, Zenon
      <3> QED BY <1>1, <3>1 DEF TimePasses
    <2>4. ForgottenOnlyWhenOld'
      BY <1>1 DEF TimePasses
    <2>5. CopiesAreSpread' /\ TwiceOnlyAfterALateCopy'
      BY <1>1 DEF TimePasses
    <2> QED BY <2>1, <2>2, <2>3, <2>4, <2>5 DEF AgeInv
  <1>2. CASE Publish
    <2>1. CASE IsDuplicate
      BY <1>2, <2>1 DEF Publish
    <2>2. CASE ~IsDuplicate
      <3>1. /\ copies' = copies \cup {now}
            /\ firstStored' = IF firstStored = NotYet THEN now ELSE firstStored
            /\ lastStored' = now
            /\ UNCHANGED <<now, marked, processedAt, counted>>
            /\ acknowledged' = TRUE
        BY <1>2, <2>2 DEF Publish
      <3>2. firstStored = NotYet \/ now - lastStored >= DuplicateWindow
        BY <2>2 DEF IsDuplicate
      <3>3. RetentionTypeOK'
        BY <3>1
      <3>4. CopiesAreYoung' /\ StoredFirst'
        BY <3>1, <3>2
      <3>5. ForgottenOnlyWhenOld' /\ CopiesAreSpread' /\ TwiceOnlyAfterALateCopy'
        BY <3>1, <3>2
      <3> QED BY <3>3, <3>4, <3>5
    <2> QED BY <2>1, <2>2
  <1>3. CASE Mark
    BY <1>3 DEF Mark
  <1>4. CASE MarkFail
    BY <1>4 DEF MarkFail
  <1>5. ASSUME NEW s \in copies, HandleCopy(s) PROVE AgeInv'
    <2>1. CASE processedAt = NotYet
      BY <1>5, <2>1 DEF HandleCopy
    <2>2. CASE processedAt # NotYet
      BY <1>5, <2>2 DEF HandleCopy
    <2> QED BY <2>1, <2>2
  <1>6. CASE Prune
    BY <1>6 DEF Prune
  <1>7. CASE UNCHANGED retentionVars
    BY <1>7 DEF retentionVars
  <1> QED BY <1>1, <1>2, <1>3, <1>4, <1>5, <1>6, <1>7 DEF RetentionNext

\* The invariant holds throughout.
LEMMA SpecAgeInv == RetentionSpec => []AgeInv
  BY InitAgeInv, NextAgeInv, PTL DEF RetentionSpec

\* Every reachable state is well typed.
THEOREM RetentionTypeCorrect == RetentionSpec => []RetentionTypeOK
  BY SpecAgeInv, PTL DEF AgeInv

\* orderproj counts an event twice only if the stream stored a copy of it later
\* than cmd/prune's retention of the deduplication row covers.
THEOREM RetentionCoversOutages == RetentionSpec => []TwiceOnlyAfterALateCopy
  BY SpecAgeInv, PTL DEF AgeInv

\* Inside the window there is one copy, too young to outlive its row.
LEMMA AgeInvWindow == AgeInv => OnceWithinTheWindow
  BY WindowAssumption, RetentionAssumption
     DEF validateNATS, ValidateRetention, WindowAssumption, RetentionAssumption, AgeInv,
         RetentionTypeOK, StoredFirst, CopiesAreSpread, TwiceOnlyAfterALateCopy,
         OnceWithinTheWindow, NotYet, Times

\* With any settings that config.Validate accepts, republishing inside the
\* duplicate window never makes orderproj count an event twice, and a later
\* republish does so only if it is later than the retention covers.
THEOREM ValidatedRetentionIsSafe == RetentionSpec => []DoubleCountsAreLate
  <1>1. AgeInv => DoubleCountsAreLate
    BY AgeInvWindow DEF AgeInv, DoubleCountsAreLate
  <1>2. QED BY <1>1, SpecAgeInv, PTL

-----------------------------------------------------------------------------
(* The platform *)

\* Every step is a step of one part and leaves the variables of the others alone.
LEMMA PartsStepAlone ==
  [PlatformNext]_platformVars =>
    /\ [KeysNext]_keysVars /\ [RateNext]_rateVars /\ [RequestsNext]_requestVars
    /\ [UpstreamNext]_upstreamVars /\ [ServerNext]_srvVars /\ [WorkerNext]_wkVars
    /\ [MoneyNext]_moneyVars /\ [ListingNext]_listVars /\ [RetentionNext]_retentionVars
  BY DEF PlatformNext, platformVars, OfKeys, OfRequests, OfServer, OfWorker

\* The invariants of the nine parts.
PlatformInv ==
  /\ KInv /\ QInv /\ RInv /\ UInv
  /\ SInv /\ WInv /\ MInv /\ LInv /\ AgeInv

LEMMA SpecPlatformInv == PlatformSpec => []PlatformInv
  <1>1. PlatformInit => PlatformInv
    BY InitKInv, InitQInv, InitRInv, InitUInv, InitSInv, InitWInv, InitMInv, InitLInv, InitAgeInv
    DEF PlatformInit, PlatformInv
  <1>2. PlatformInv /\ [PlatformNext]_platformVars => PlatformInv'
    BY PartsStepAlone, NextKInv, NextQInv, NextRInv, NextUInv, NextSInv, NextWInv, NextMInv, NextLInv,
       NextAgeInv
    DEF PlatformInv
  <1>3. QED BY <1>1, <1>2, PTL DEF PlatformSpec

\* Every reachable state of every part of the platform is well typed, for finitely
\* many concurrent calls.
THEOREM PlatformTypeCorrect ==
  ASSUME IsFiniteSet(Requests)
  PROVE  PlatformSpec => []PlatformTypeOK
  <1>1. PlatformInv => PlatformTypeOK
    BY QInvTypes, RInvTypes, MInvTypes, LInvTypes
    DEF PlatformInv, PlatformTypeOK, KInv, UInv, UpstreamCounts, SInv, WInv, AgeInv
  <1>2. QED BY <1>1, SpecPlatformInv, PTL

\* Put together, the parts keep what each promises on its own: they share no
\* variable, so none can disturb the invariant another's promise rests on.
THEOREM PlatformIsSafe ==
  PlatformSpec => []( /\ QuotaHolds
                      /\ SlotsMatchCalls /\ OnlyAuthorisedCallsAreHandled /\ AnswersAreMapped
                      /\ UpstreamFaultsStayUpstream
                      /\ ShutdownLosesNoCall /\ ExitReleasesWhatWasBuilt /\ ExitAfterTheLoops
                      /\ AmountsAreExact /\ ListingsAreExact
                      /\ DoubleCountsAreLate )
  <1>1. QInv => QuotaHolds
    BY QInvQuota
  <1>2. RInv => SlotsMatchCalls /\ OnlyAuthorisedCallsAreHandled /\ AnswersAreMapped
    BY RInvAuthorised DEF RInv, SlotsAreCounted
  <1>3. UInv => UpstreamFaultsStayUpstream
    BY UInvContains
  <1>4. SInv => ShutdownLosesNoCall /\ ExitReleasesWhatWasBuilt
    BY SInvReleases DEF SInv
  <1>5. WInv => ExitAfterTheLoops
    BY WInvExits
  <1>6. MInv => AmountsAreExact
    BY DEF MInv, AmountsAreExact
  <1>7. LInv => ListingsAreExact
    BY LInvExact
  <1>8. AgeInv => DoubleCountsAreLate
    BY AgeInvWindow DEF AgeInv, DoubleCountsAreLate
  <1>9. QED
    BY <1>1, <1>2, <1>3, <1>4, <1>5, <1>6, <1>7, <1>8, SpecPlatformInv, PTL DEF PlatformInv
=============================================================================
