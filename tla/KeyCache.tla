------------------------------ MODULE KeyCache -----------------------------
(***************************************************************************)
(* The issuer's public keys as OIDCVerifier holds them: discovery of the   *)
(* key-set URL on first use (oidc.go, keySet) and the cache behind it      *)
(* (jwks.go, keyCache), used by concurrent requests while the issuer       *)
(* rotates, revokes, and is sometimes unreachable.                         *)
(*                                                                         *)
(* Time is a bounded integer clock.  Code that neither waits for a lock    *)
(* nor for the network takes no time (Tick waits for it); a network call   *)
(* takes at most ClientTimeout, which http.Client enforces.                *)
(***************************************************************************)
EXTENDS Naturals, FiniteSets

CONSTANTS
  Callers,        \* requests whose tokens are being verified
  Kids,           \* key ids that tokens name
  FirstKids,      \* the keys the issuer publishes at the start
  NoCaller,       \* not a caller: a mutex nobody holds
  NoKid,          \* not a key id: no token is being verified
  MinRefresh,     \* OIDCOptions.MinRefresh
  MaxKeyAge,      \* OIDCOptions.MaxKeyAge
  ClientTimeout,  \* http.Client.Timeout
  MaxClock        \* bound: the last instant the model looks at

ASSUME KeyTimes ==
  /\ MinRefresh \in Nat /\ MaxKeyAge \in Nat /\ ClientTimeout \in Nat /\ MaxClock \in Nat
  /\ NoCaller \notin Callers /\ NoKid \notin Kids /\ FirstKids \subseteq Kids

VARIABLES
  clock,          \* time.Now()
  published,      \* environment: the keys in the issuer's JWKS document
  publishedAt,    \* environment: when a key in that document entered it
  revokedAt,      \* environment: when it left that document for good
  verifier,       \* how the verifier was built, and "ready" once OIDCVerifier.keys # nil
  discoveryMu,    \* OIDCVerifier.mu, held for writing across discovery
  lastDiscovery,  \* OIDCVerifier.lastDiscovery, until it is of no more use
  refreshMu,      \* keyCache.refreshMu, held across a fetch
  keys,           \* keyCache.keys
  fetchedAt,      \* keyCache.fetchedAt
  lastAttempt,    \* keyCache.lastAttempt
  lastFailure,    \* history: when a fetch last failed
  answer,         \* the issuer's answer to the fetch in flight
  stage,          \* where each caller is
  kidOf           \* the key id its token names, while it is being verified

issuerVars == <<published, publishedAt, revokedAt>>
discoveryVars == <<verifier, discoveryMu, lastDiscovery>>
cacheVars == <<refreshMu, keys, fetchedAt, lastAttempt, lastFailure, answer>>
callerVars == <<stage, kidOf>>
keysVars == <<clock, issuerVars, discoveryVars, cacheVars, callerVars>>

Never == MaxClock + 1           \* the zero time.Time
Instants == 0..Never
Waiting == [state |-> "waiting"]
Failed == [state |-> "failed"]
Document(ks) == [state |-> "document", keys |-> ks]

Resting == {"idle", "accepted", "denied"}
Stages == Resting \union {"keySet", "discovering", "keyFor", "refresh", "fetching", "relook"}

KeysTypeOK ==
  /\ clock \in 0..MaxClock
  /\ published \subseteq Kids
  /\ publishedAt \in [Kids -> Instants] /\ revokedAt \in [Kids -> Instants]
  /\ verifier \in {"none", "discovery", "jwksURL", "ready"}
  /\ discoveryMu \in Callers \union {NoCaller} /\ refreshMu \in Callers \union {NoCaller}
  /\ lastDiscovery \in Instants /\ lastAttempt \in Instants /\ fetchedAt \in Instants
  /\ lastFailure \in Instants
  /\ keys \subseteq Kids
  /\ answer \in {Waiting, Failed} \union {Document(ks) : ks \in SUBSET Kids}
  /\ stage \in [Callers -> Stages]
  /\ kidOf \in [Callers -> Kids \union {NoKid}]

KeysInit ==
  /\ clock = 0
  /\ published = FirstKids
  /\ publishedAt = [k \in Kids |-> IF k \in FirstKids THEN 0 ELSE Never]
  /\ revokedAt = [k \in Kids |-> Never]
  /\ verifier = "none"
  /\ discoveryMu = NoCaller /\ lastDiscovery = Never
  /\ refreshMu = NoCaller /\ keys = {} /\ answer = Waiting
  /\ fetchedAt = Never /\ lastAttempt = Never /\ lastFailure = Never
  /\ stage = [c \in Callers |-> "idle"]
  /\ kidOf = [c \in Callers |-> NoKid]

\* time.Since(t) < d, false for the zero time.
Within(t, d) == t # Never /\ clock - t < d

-----------------------------------------------------------------------------
(* The issuer and time. *)

Rotate(k) ==
  /\ k \notin published /\ revokedAt[k] = Never
  /\ published' = published \union {k}
  /\ publishedAt' = [publishedAt EXCEPT ![k] = clock]
  /\ UNCHANGED <<clock, revokedAt, discoveryVars, cacheVars, callerVars>>

Revoke(k) ==
  /\ k \in published
  /\ published' = published \ {k}
  /\ publishedAt' = [publishedAt EXCEPT ![k] = Never]
  /\ revokedAt' = [revokedAt EXCEPT ![k] = clock]
  /\ UNCHANGED <<clock, discoveryVars, cacheVars, callerVars>>

\* A stage that waits for neither a lock nor the network takes no time.
Instantaneous(c) ==
  \/ stage[c] \in {"relook", "keyFor"}
  \/ stage[c] = "keySet" /\ discoveryMu = NoCaller
  \/ stage[c] = "refresh" /\ refreshMu = NoCaller

Tick ==
  /\ clock < MaxClock
  /\ \A c \in Callers : ~Instantaneous(c)
  /\ \A c \in Callers : stage[c] = "discovering" => clock - lastDiscovery < ClientTimeout
  /\ \A c \in Callers : stage[c] = "fetching" => clock - lastAttempt < ClientTimeout
  /\ clock' = clock + 1
  /\ UNCHANGED <<issuerVars, discoveryVars, cacheVars, callerVars>>

-----------------------------------------------------------------------------
(* Verify: resolve the key set, then the key. *)

At(c, from, to) ==
  /\ stage[c] = from
  /\ stage' = [stage EXCEPT ![c] = to]
  /\ kidOf' = [kidOf EXCEPT ![c] = IF to \in Resting THEN NoKid ELSE @]

NewOIDCVerifier(mode) ==
  /\ verifier = "none"
  /\ verifier' = mode
  /\ UNCHANGED <<clock, issuerVars, discoveryMu, lastDiscovery, cacheVars, callerVars>>

\* The fast path of keySet: a cache that exists is used under the read lock.
Verify(c, k) ==
  /\ verifier # "none"
  /\ stage[c] \in Resting
  /\ stage' = [stage EXCEPT ![c] = IF verifier = "ready" THEN "keyFor" ELSE "keySet"]
  /\ kidOf' = [kidOf EXCEPT ![c] = k]
  /\ UNCHANGED <<clock, issuerVars, discoveryVars, cacheVars>>

\* There was no cache yet: the write lock and a second look.  An explicit URL
\* needs no discovery; a recent failed discovery is not repeated.
KeySet(c) ==
  /\ discoveryMu = NoCaller
  /\ \/ /\ verifier \in {"ready", "jwksURL"}
        /\ verifier' = "ready"
        /\ At(c, "keySet", "keyFor")
        /\ UNCHANGED <<discoveryMu, lastDiscovery>>
     \/ /\ verifier = "discovery" /\ Within(lastDiscovery, MinRefresh)
        /\ At(c, "keySet", "denied")
        /\ UNCHANGED discoveryVars
     \/ /\ verifier = "discovery" /\ ~Within(lastDiscovery, MinRefresh)
        /\ lastDiscovery' = clock
        /\ discoveryMu' = c
        /\ At(c, "keySet", "discovering")
        /\ UNCHANGED verifier
  /\ UNCHANGED <<clock, issuerVars, cacheVars>>

\* discover returns: a document whose issuer and jwks_uri pass, or an error.
\* The caller's own cancellation cannot end it (context.WithoutCancel).
DiscoverDone(c) ==
  /\ \/ /\ At(c, "discovering", "keyFor")
        /\ verifier' = "ready" /\ lastDiscovery' = Never
     \/ /\ At(c, "discovering", "denied")
        /\ UNCHANGED <<verifier, lastDiscovery>>
  /\ discoveryMu' = NoCaller
  /\ UNCHANGED <<clock, issuerVars, cacheVars>>

Fresh == MaxKeyAge = 0 \/ Within(fetchedAt, MaxKeyAge)

\* Mutant: a hit is served whatever its age.
KeyFor_AnyAge(c) ==
  /\ IF kidOf[c] \in keys
       THEN At(c, "keyFor", "accepted")
       ELSE At(c, "keyFor", "refresh")
  /\ UNCHANGED <<clock, issuerVars, discoveryVars, cacheVars>>

KeyFor(c) ==
  /\ IF kidOf[c] \in keys /\ Fresh
       THEN At(c, "keyFor", "accepted")
       ELSE At(c, "keyFor", "refresh")
  /\ UNCHANGED <<clock, issuerVars, discoveryVars, cacheVars>>

RateLimited == MinRefresh > 0 /\ Within(lastAttempt, MinRefresh)

\* Mutant: the attempt is stamped before the rate limit is looked at, so that
\* every miss moves the window on.
Refresh_SlidingWindow(c) ==
  /\ refreshMu = NoCaller
  /\ lastAttempt' = clock
  /\ \/ /\ RateLimited
        /\ At(c, "refresh", "relook")
        /\ UNCHANGED refreshMu
     \/ /\ ~RateLimited
        /\ At(c, "refresh", "fetching")
        /\ refreshMu' = c
  /\ UNCHANGED <<clock, issuerVars, discoveryVars, keys, fetchedAt, lastFailure, answer>>

\* refresh takes refreshMu, looks at lastAttempt and stamps it before the request
\* is sent.
Refresh(c) ==
  /\ refreshMu = NoCaller
  /\ \/ /\ RateLimited
        /\ At(c, "refresh", "relook")
        /\ UNCHANGED <<refreshMu, lastAttempt>>
     \/ /\ ~RateLimited
        /\ At(c, "refresh", "fetching")
        /\ refreshMu' = c
        /\ lastAttempt' = clock
  /\ UNCHANGED <<clock, issuerVars, discoveryVars, keys, fetchedAt, lastFailure, answer>>

\* The issuer builds its answer, or the request fails or times out.
IssuerAnswers ==
  /\ answer = Waiting /\ \E c \in Callers : stage[c] = "fetching"
  /\ answer' \in {Document(published), Failed}
  /\ UNCHANGED <<clock, issuerVars, discoveryVars, refreshMu, keys, fetchedAt, lastAttempt, lastFailure,
                 callerVars>>

\* Mutant: a failed fetch leaves refreshMu locked.
FetchDone_KeepingLock(c) ==
  /\ answer # Waiting
  /\ At(c, "fetching", "relook")
  /\ IF answer \in {Failed, Document({})}
       THEN /\ lastFailure' = clock
            /\ UNCHANGED <<keys, fetchedAt, refreshMu>>
       ELSE /\ keys' = answer.keys
            /\ fetchedAt' = clock
            /\ refreshMu' = NoCaller
            /\ UNCHANGED lastFailure
  /\ answer' = Waiting
  /\ UNCHANGED <<clock, issuerVars, discoveryVars, lastAttempt>>

\* fetch returns to refresh: only a document with a usable key replaces keys.
FetchDone(c) ==
  /\ answer # Waiting
  /\ At(c, "fetching", "relook")
  /\ refreshMu' = NoCaller
  /\ IF answer \in {Failed, Document({})}
       THEN /\ lastFailure' = clock
            /\ UNCHANGED <<keys, fetchedAt>>
       ELSE /\ keys' = answer.keys
            /\ fetchedAt' = clock
            /\ UNCHANGED lastFailure
  /\ answer' = Waiting
  /\ UNCHANGED <<clock, issuerVars, discoveryVars, lastAttempt>>

\* Mutant: the second look wants a fresh key as well.
Relook_FailClosed(c) ==
  /\ At(c, "relook", IF kidOf[c] \in keys /\ Fresh THEN "accepted" ELSE "denied")
  /\ UNCHANGED <<clock, issuerVars, discoveryVars, cacheVars>>

\* The second look ignores age: a held key is served through an outage.
Relook(c) ==
  /\ At(c, "relook", IF kidOf[c] \in keys THEN "accepted" ELSE "denied")
  /\ UNCHANGED <<clock, issuerVars, discoveryVars, cacheVars>>

KeysProgress(c) ==
  \/ KeySet(c)
  \/ DiscoverDone(c)
  \/ KeyFor(c)
  \/ Refresh(c)
  \/ FetchDone(c)
  \/ Relook(c)

KeysNext ==
  \/ Tick
  \/ \E k \in Kids : Rotate(k)
  \/ \E k \in Kids : Revoke(k)
  \/ \E mode \in {"discovery", "jwksURL"} : NewOIDCVerifier(mode)
  \/ \E c \in Callers, k \in Kids : Verify(c, k)
  \/ IssuerAnswers
  \/ \E c \in Callers : KeysProgress(c)

\* Every goroutine keeps running and http.Client ends every request; a Go mutex
\* hands itself over to a waiter, and no caller holds it for ever.
KeysSpec ==
  /\ KeysInit /\ [][KeysNext]_keysVars
  /\ WF_keysVars(IssuerAnswers)
  /\ \A c \in Callers : WF_keysVars(KeysProgress(c))

-----------------------------------------------------------------------------
(* Properties *)

Becomes(c, s) == stage[c] # s /\ stage'[c] = s
Later(s, t) == IF s >= t THEN s ELSE t

\* The rate limit delays a rotation, and no traffic can delay it further: once the
\* key-set URL is known, a token naming a published key is refused only if the key
\* is younger than MinRefresh or than the fetch that missed it, or if a fetch has
\* failed within MinRefresh (keyCache.refresh, keyFor).
RotationIsNoticed ==
  [][\A c \in Callers :
       /\ Becomes(c, "denied")
       /\ verifier = "ready" /\ kidOf[c] \in published
       => \/ clock - publishedAt[kidOf[c]] < Later(MinRefresh, ClientTimeout + 1)
          \/ lastFailure # Never /\ clock - lastFailure <= MinRefresh]_keysVars

\* How long a revoked key can still verify a token: until the cached set is
\* stale and may be refetched, and beyond that only while the issuer could not
\* be reached within the last MinRefresh (keyCache.maxAge, keyFor).
RevocationTakesEffect ==
  [][\A c \in Callers :
       /\ Becomes(c, "accepted")
       /\ revokedAt[kidOf[c]] # Never
       /\ MaxKeyAge > 0
       => \/ clock - revokedAt[kidOf[c]] < Later(MaxKeyAge + ClientTimeout, MinRefresh)
          \/ lastFailure # Never /\ clock - lastFailure <= MinRefresh]_keysVars

\* The cache lets go of a key only when the issuer has withdrawn it, and a token
\* that names a key the cache holds is never refused for want of a key, whatever
\* the issuer's availability (keyFor's middle case).
HeldKeySurvivesOutage ==
  [][/\ \A k \in keys \ keys' : revokedAt[k] # Never
     /\ \A c \in Callers : Becomes(c, "denied") => kidOf[c] \notin keys]_keysVars

\* Every verification ends, although callers queue behind one network call.
VerificationsEnd == \A c \in Callers : []<>(stage[c] \in Resting)
=============================================================================
