----------------------------- MODULE JwksCache -----------------------------
(***************************************************************************)
(* The cache of the identity provider's signing keys: jwksCache, key() and *)
(* fetch() of src/internal/service/jwt.go.                                 *)
(*                                                                         *)
(* Every bearer request and every callback looks up the key that signed a  *)
(* token.  key() decides under the mutex, fetches with the mutex released, *)
(* and takes it again to install the document, so lookups of several       *)
(* requests interleave around the fetch, and the provider rotates its keys *)
(* at any moment.                                                          *)
(*                                                                         *)
(* A document the provider publishes is a version, 1 .. MaxVersion; docs   *)
(* says which kids each version holds.  A key is told apart by its kid and *)
(* the version of the document it came from.  Time is kept as ages that    *)
(* stop growing once no comparison in the code can tell them apart.        *)
(***************************************************************************)
EXTENDS Naturals, FiniteSets

CONSTANTS Callers,     \* concurrent requests, each running one key() at a time
          Kids,        \* the kid values tokens and documents carry
          NoKid,       \* the kid of a token or key without one: ""
          CacheTTL,    \* jwksCacheTTL, in ticks
          MinRefetch,  \* jwksMinRefetch, in ticks
          FetchBound,  \* most ticks a fetch lives: the client's Timeout
          MaxVersion   \* bound: the number of documents the provider publishes

ASSUME TimesAssumption ==
  /\ CacheTTL \in Nat \ {0}
  /\ MinRefetch \in Nat \ {0}
  /\ FetchBound \in Nat
  /\ MaxVersion \in Nat \ {0}
  /\ NoKid \notin Kids

\* The client's timeout is below jwksMinRefetch: 10s against 30s by default,
\* not when OAUTH_HTTP_TIMEOUT is set above 30s.
ShortFetch == FetchBound < MinRefetch

VARIABLES docs,        \* docs[v]: the kids of the provider's v-th document
          version,     \* the document the provider publishes now
          superseded,  \* superseded[v]: age of the rotation that replaced v
          keysVer,     \* c.keys: the version of the cached document, 0: none
          fetchedAge,  \* age of c.fetched, CacheTTL when expired or zero
          attemptAge,  \* age of c.lastAttempt, MinRefetch when past or zero
          pc,          \* "idle", or "fetching": inside key() with mu released
          asked,       \* the kid a fetching caller looks up
          fetchAge,    \* age of the caller's own lastAttempt write
          resp,        \* the version the provider answered with, 0: none yet
          answer       \* what the caller's last key() returned

cacheVars    == <<keysVer, fetchedAge, attemptAge>>
providerVars == <<docs, version, superseded>>
callVars     == <<pc, asked, fetchAge, resp>>
vars == <<docs, version, superseded, keysVer, fetchedAge, attemptAge,
          pc, asked, fetchAge, resp, answer>>

KeyIds   == Kids \union {NoKid}
Versions == 0 .. MaxVersion
Horizon  == CacheTTL + FetchBound    \* past this, a rotation is merely old

Answers == [kind : {"none", "key", "unknown", "error"},
            kid  : KeyIds,
            ver  : Versions]
KeyOf(k, v)  == [kind |-> "key", kid |-> k, ver |-> v]
UnknownOf(k) == [kind |-> "unknown", kid |-> k, ver |-> 0]
ErrorOf(k)   == [kind |-> "error", kid |-> k, ver |-> 0]

TypeOK ==
  /\ docs \in [Versions -> SUBSET KeyIds]
  /\ version \in 1 .. MaxVersion
  /\ superseded \in [Versions -> 0 .. Horizon]
  /\ keysVer \in Versions
  /\ fetchedAge \in 0 .. CacheTTL
  /\ attemptAge \in 0 .. MinRefetch
  /\ pc \in [Callers -> {"idle", "fetching"}]
  /\ asked \in [Callers -> KeyIds]
  /\ fetchAge \in [Callers -> 0 .. FetchBound]
  /\ resp \in [Callers -> Versions]
  /\ answer \in [Callers -> Answers]

----------------------------------------------------------------------------
\* The tests of key(), as it computes them before it unlocks.
\* Mutant: fetched keys are added to the cached ones.
foundEver(k) == \E v \in 0 .. keysVer : k \in docs[v]
found(k)     == k \in docs[keysVer]

freshForever == keysVer # 0                       \* mutant: no TTL
fresh        == fetchedAge < CacheTTL

throttledIfFresh == attemptAge < MinRefetch \/ fresh    \* mutant: a fresh cache throttles
throttled        == attemptAge < MinRefetch

Init ==
  /\ \E d \in SUBSET KeyIds :
       docs = [v \in Versions |-> IF v = 1 THEN d ELSE {}]
  /\ docs[1] # {}
  /\ version = 1
  /\ superseded = [v \in Versions |-> 0]
  /\ keysVer = 0
  /\ fetchedAge = CacheTTL
  /\ attemptAge = MinRefetch
  /\ pc = [c \in Callers |-> "idle"]
  /\ asked = [c \in Callers |-> NoKid]
  /\ fetchAge = [c \in Callers |-> 0]
  /\ resp = [c \in Callers |-> 0]
  /\ answer = [c \in Callers |-> [kind |-> "none", kid |-> NoKid, ver |-> 0]]

\* The cached key is found and fresh.
AnswerFresh(c, k) ==
  /\ pc[c] = "idle"
  /\ found(k) /\ fresh
  /\ answer' = [answer EXCEPT ![c] = KeyOf(k, keysVer)]
  /\ UNCHANGED <<providerVars, cacheVars, callVars>>

\* Mutant: once stale, a cached key is no longer given out.
AnswerThrottledUnknown(c, k) ==
  /\ pc[c] = "idle"
  /\ ~(found(k) /\ fresh)
  /\ throttled
  /\ answer' = [answer EXCEPT ![c] = UnknownOf(k)]
  /\ UNCHANGED <<providerVars, cacheVars, callVars>>

\* An attempt was made less than jwksMinRefetch ago: the stale key or nothing.
AnswerThrottled(c, k) ==
  /\ pc[c] = "idle"
  /\ ~(found(k) /\ fresh)
  /\ throttled
  /\ answer' = [answer EXCEPT ![c] = IF found(k) THEN KeyOf(k, keysVer)
                                                 ELSE UnknownOf(k)]
  /\ UNCHANGED <<providerVars, cacheVars, callVars>>

\* Mutant: the attempt is not recorded before the mutex is released.
StartFetchUnrecorded(c, k) ==
  /\ pc[c] = "idle"
  /\ ~(found(k) /\ fresh)
  /\ ~throttled
  /\ pc' = [pc EXCEPT ![c] = "fetching"]
  /\ asked' = [asked EXCEPT ![c] = k]
  /\ fetchAge' = [fetchAge EXCEPT ![c] = 0]
  /\ UNCHANGED <<providerVars, cacheVars, resp, answer>>

\* Otherwise record the attempt, release the mutex and fetch.
StartFetch(c, k) ==
  /\ pc[c] = "idle"
  /\ ~(found(k) /\ fresh)
  /\ ~throttled
  /\ attemptAge' = 0
  /\ pc' = [pc EXCEPT ![c] = "fetching"]
  /\ asked' = [asked EXCEPT ![c] = k]
  /\ fetchAge' = [fetchAge EXCEPT ![c] = 0]
  /\ UNCHANGED <<providerVars, keysVer, fetchedAge, resp, answer>>

\* The provider answers the request with the document it publishes now.
Serve(c) ==
  /\ pc[c] = "fetching"
  /\ resp[c] = 0
  /\ resp' = [resp EXCEPT ![c] = version]
  /\ UNCHANGED <<providerVars, cacheVars, pc, asked, fetchAge, answer>>

\* key() returns: the call's own state is dead.
Return(c, a) ==
  /\ pc' = [pc EXCEPT ![c] = "idle"]
  /\ asked' = [asked EXCEPT ![c] = NoKid]
  /\ fetchAge' = [fetchAge EXCEPT ![c] = 0]
  /\ resp' = [resp EXCEPT ![c] = 0]
  /\ answer' = [answer EXCEPT ![c] = a]

\* Mutant: fetched is set whether or not the fetch succeeded.
FetchFailsFresh(c) ==
  /\ pc[c] = "fetching"
  /\ Return(c, ErrorOf(asked[c]))
  /\ fetchedAge' = 0
  /\ UNCHANGED <<providerVars, keysVer, attemptAge>>

\* Refused, timed out, cancelled, unreadable, or without a usable key: the
\* error is returned, even when a stale key was found.
FetchFails(c) ==
  /\ pc[c] = "fetching"
  /\ Return(c, ErrorOf(asked[c]))
  /\ UNCHANGED <<providerVars, cacheVars>>

\* What key() returns once it holds the document of version v: a document of
\* one key answers a token without a kid.
ResolveFetched(k, v) ==
  IF k \in docs[v] \/ (k = NoKid /\ Cardinality(docs[v]) = 1)
  THEN KeyOf(k, v)
  ELSE UnknownOf(k)

\* The fetch succeeded: take the mutex, install the document, answer from it.
Install(c) ==
  /\ pc[c] = "fetching"
  /\ resp[c] # 0
  /\ keysVer' = resp[c]
  /\ fetchedAge' = 0
  /\ Return(c, ResolveFetched(asked[c], resp[c]))
  /\ UNCHANGED <<providerVars, attemptAge>>

----------------------------------------------------------------------------
\* The provider publishes its next document: a rotation.  A document without
\* a usable key makes fetch() fail, which FetchFails covers.
Rotate(d) ==
  /\ version < MaxVersion
  /\ d # {}
  /\ version' = version + 1
  /\ docs' = [docs EXCEPT ![version + 1] = d]
  /\ UNCHANGED <<superseded, cacheVars, callVars, answer>>

Older(age, cap) == IF age < cap THEN age + 1 ELSE cap

\* Time passes, but not beyond the client's timeout of a fetch.
Tick ==
  /\ \A c \in Callers : pc[c] = "fetching" => fetchAge[c] < FetchBound
  /\ superseded' = [v \in Versions |-> IF v \in 1 .. version - 1
                                         THEN Older(superseded[v], Horizon)
                                         ELSE 0]
  /\ fetchedAge' = Older(fetchedAge, CacheTTL)
  /\ attemptAge' = Older(attemptAge, MinRefetch)
  /\ fetchAge' = [c \in Callers |-> IF pc[c] = "fetching" THEN fetchAge[c] + 1
                                                           ELSE 0]
  /\ UNCHANGED <<docs, version, keysVer, pc, asked, resp, answer>>

Lookup(c) == \E k \in KeyIds :
  \/ AnswerFresh(c, k)
  \/ AnswerThrottled(c, k)
  \/ StartFetch(c, k)

Next ==
  \/ \E c \in Callers : \/ Lookup(c)
                        \/ Serve(c)
                        \/ FetchFails(c)
                        \/ Install(c)
  \/ \E d \in SUBSET KeyIds : Rotate(d)
  \/ Tick

Spec == Init /\ [][Next]_vars

\* Requests keep arriving, the clock runs, and the provider, though it may
\* fail any number of fetches, is not out of reach for good.
FairSpec ==
  /\ Spec
  /\ WF_vars(Tick)
  /\ \A c \in Callers : /\ WF_vars(Lookup(c))
                        /\ SF_vars(Serve(c))
                        /\ SF_vars(Install(c))

----------------------------------------------------------------------------
(***************************************************************************)
(* Properties.  A step in which a call of c returns shows as a change of   *)
(* answer[c].                                                              *)
(***************************************************************************)
Returns(c, kind) == answer'[c] # answer[c] /\ answer'[c].kind = kind

\* key() records lastAttempt before it unlocks, so that while one caller
\* fetches every other one is throttled: no stampede on the provider.
OneFetchInFlight ==
  \A c, d \in Callers : pc[c] = "fetching" /\ pc[d] = "fetching" => c = d

\* The install at line 101 is unconditional.  It never puts an older document
\* over a newer one.
KeysNeverRollBack == [][keysVer' >= keysVer]_keysVer

\* A document that key() still calls fresh was, at its age of fetch plus the
\* longest fetch ago, the one the provider published.
FreshMeansRecent ==
  keysVer # 0 /\ fresh => superseded[keysVer] <= fetchedAge + FetchBound

\* A key of a document the provider replaced more than jwksCacheTTL and a
\* fetch ago is accepted only in the jwksMinRefetch after a fetch attempt.
StaleKeyOnlyWhileThrottled ==
  [][\A c \in Callers :
       Returns(c, "key") /\ superseded[answer'[c].ver] >= Horizon => throttled]_vars

\* Once the latest fetch attempt succeeded, a key that the provider publishes
\* is refused as unknown for less than jwksMinRefetch after its publication.
NewKeyKnownSoon ==
  [][\A c \in Callers :
       /\ Returns(c, "unknown")
       /\ answer'[c].kid \in docs[version] \ {NoKid}
       /\ fetchedAge' <= attemptAge'
       => version > 1 /\ superseded[version - 1] < MinRefetch]_vars

\* jwt.go:60: the cache supports key rotation.  When rotations end, answers
\* end up agreeing with the provider: no key of an old document is accepted
\* and no published kid is unknown.
CacheConverges ==
  <>[](\A c \in Callers :
         /\ answer[c].kind = "key" => answer[c].ver = version
         /\ answer[c].kind = "unknown" => answer[c].kid \notin docs[version] \ {NoKid})

\* jwt.go:60: caching makes validation cheap, it does not change its result.
\* While the cached document is fresh, a lookup with a kid returns what a fetch
\* of that very document would have returned, whoever fetched it meanwhile.
CachingKeepsAnswers ==
  [][\A c \in Callers :
       /\ Returns(c, "key") \/ Returns(c, "unknown")
       /\ answer'[c].kid # NoKid /\ fresh'
       => answer'[c] = ResolveFetched(answer'[c].kid, keysVer')]_vars

\* The cache implements SigningKeys, the cached document being the trusted one:
\* a lookup never answers from a document older than one that any lookup
\* answered from before, and never says unknown of a kid that the trusted document holds.
Trusted == INSTANCE SigningKeys WITH trusted <- keysVer
ImplementsSigningKeys == Trusted!Spec
=============================================================================
