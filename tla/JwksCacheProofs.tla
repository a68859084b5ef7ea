-------------------------- MODULE JwksCacheProofs --------------------------
(***************************************************************************)
(* Theorems about JwksCache, for every set of callers and kids, every TTL, *)
(* throttle and timeout, and every number of rotations.                    *)
(***************************************************************************)
EXTENDS JwksCache, FiniteSetTheorems, TLAPS

\* Type correctness.
LEMMA TypeInit == Init => TypeOK
  BY TimesAssumption DEF Init, TypeOK, KeyIds, Versions, Horizon, Answers

\* Every action keeps the types; the ages stay below their caps.
LEMMA TypeStep == TypeOK /\ [Next]_vars => TypeOK'
  <1> SUFFICES ASSUME TypeOK, [Next]_vars
               PROVE  TypeOK'
    OBVIOUS
  <1> USE TimesAssumption
  <1>1. ASSUME NEW c \in Callers, NEW k \in KeyIds, AnswerFresh(c, k)
        PROVE  TypeOK'
    BY <1>1 DEF TypeOK, AnswerFresh, providerVars, cacheVars, callVars,
                KeyOf, Answers
  <1>2. ASSUME NEW c \in Callers, NEW k \in KeyIds, AnswerThrottled(c, k)
        PROVE  TypeOK'
    <2>1. 0 \in Versions
      BY DEF Versions
    <2> QED
      BY <1>2, <2>1 DEF TypeOK, AnswerThrottled, providerVars, cacheVars,
                        callVars, KeyOf, UnknownOf, Answers
  <1>3. ASSUME NEW c \in Callers, NEW k \in KeyIds, StartFetch(c, k)
        PROVE  TypeOK'
    BY <1>3 DEF TypeOK, StartFetch, providerVars
  <1>4. ASSUME NEW c \in Callers, Serve(c)
        PROVE  TypeOK'
    BY <1>4 DEF TypeOK, Serve, providerVars, cacheVars, Versions
  <1>5. ASSUME NEW c \in Callers, FetchFails(c)
        PROVE  TypeOK'
    BY <1>5 DEF TypeOK, FetchFails, Return, ErrorOf, Answers, providerVars,
                cacheVars, KeyIds, Versions
  <1>6. ASSUME NEW c \in Callers, Install(c)
        PROVE  TypeOK'
    <2>1. ResolveFetched(asked[c], resp[c]) \in Answers
      BY DEF TypeOK, ResolveFetched, KeyOf, UnknownOf, Answers, Versions
    <2> QED
      BY <1>6, <2>1 DEF TypeOK, Install, Return, providerVars, KeyIds, Versions
  <1>7. ASSUME NEW d \in SUBSET KeyIds, Rotate(d)
        PROVE  TypeOK'
    BY <1>7 DEF TypeOK, Rotate, cacheVars, callVars, Versions
  <1>8. CASE Tick
    <2>1. \A cap \in Nat : \A age \in 0 .. cap : Older(age, cap) \in 0 .. cap
      BY DEF Older
    <2>2. superseded' \in [Versions -> 0 .. Horizon]
      BY <1>8, <2>1 DEF TypeOK, Tick, Horizon
    <2>3. fetchAge' \in [Callers -> 0 .. FetchBound]
      BY <1>8 DEF TypeOK, Tick
    <2> QED
      BY <1>8, <2>1, <2>2, <2>3 DEF TypeOK, Tick
  <1>9. CASE UNCHANGED vars
    BY <1>9 DEF TypeOK, vars
  <1> QED
    BY <1>1, <1>2, <1>3, <1>4, <1>5, <1>6, <1>7, <1>8, <1>9 DEF Next, Lookup

\* Type correctness of the cache, the callers and the provider (jwt.go:62-70).
THEOREM TypeCorrect == Spec => []TypeOK
  BY TypeInit, TypeStep, PTL DEF Spec

----------------------------------------------------------------------------
(***************************************************************************)
(* Freshness.  A document that was served to a fetch cannot have been      *)
(* replaced longer ago than the fetch is old; a cached one not longer ago  *)
(* than its age plus the longest fetch.                                    *)
(***************************************************************************)
CurrentNotSuperseded ==
  \A v \in Versions : version <= v \/ v = 0 => superseded[v] = 0
ServedRecently ==
  \A c \in Callers : resp[c] # 0 =>
    /\ pc[c] = "fetching"
    /\ resp[c] <= version
    /\ superseded[resp[c]] <= fetchAge[c]
CachedWasPublished == keysVer <= version
FreshInv == /\ CurrentNotSuperseded
            /\ ServedRecently
            /\ CachedWasPublished
            /\ FreshMeansRecent

\* Nothing is cached at first.
LEMMA FreshInit == Init => FreshInv
  BY TimesAssumption
     DEF Init, FreshInv, CurrentNotSuperseded, ServedRecently,
         CachedWasPublished, FreshMeansRecent, Versions, fresh

\* Every action keeps the four parts, the clock and Install being the hard ones.
LEMMA FreshStep == TypeOK /\ FreshInv /\ [Next]_vars => FreshInv'
  <1> SUFFICES ASSUME TypeOK, FreshInv, [Next]_vars
               PROVE  FreshInv'
    OBVIOUS
  <1> USE TimesAssumption
          DEF FreshInv, CurrentNotSuperseded, ServedRecently,
              CachedWasPublished, FreshMeansRecent, fresh
  <1>1. ASSUME NEW c \in Callers, NEW k \in KeyIds,
               AnswerFresh(c, k) \/ AnswerThrottled(c, k)
        PROVE  FreshInv'
    BY <1>1 DEF AnswerFresh, AnswerThrottled, providerVars, cacheVars, callVars
  <1>2. ASSUME NEW c \in Callers, NEW k \in KeyIds, StartFetch(c, k)
        PROVE  FreshInv'
    BY <1>2 DEF TypeOK, StartFetch, providerVars
  <1>3. ASSUME NEW c \in Callers, Serve(c)
        PROVE  FreshInv'
    BY <1>3 DEF TypeOK, Serve, providerVars, cacheVars, Versions
  <1>4. ASSUME NEW c \in Callers, FetchFails(c)
        PROVE  FreshInv'
    BY <1>4 DEF TypeOK, FetchFails, Return, providerVars, cacheVars
  <1>5. ASSUME NEW c \in Callers, Install(c)
        PROVE  FreshInv'
    <2>1. superseded[resp[c]] <= FetchBound /\ resp[c] <= version
      BY <1>5 DEF TypeOK, Install
    <2> QED
      BY <1>5, <2>1 DEF TypeOK, Install, Return, providerVars
  <1>6. ASSUME NEW d \in SUBSET KeyIds, Rotate(d)
        PROVE  FreshInv'
    BY <1>6 DEF TypeOK, Rotate, cacheVars, callVars, Versions
  <1>7. CASE Tick
    <2>1. \A v \in Versions : superseded'[v] <= superseded[v] + 1
      BY <1>7 DEF TypeOK, Tick, Older, Horizon, Versions
    <2>2. CurrentNotSuperseded'
      BY <1>7 DEF TypeOK, Tick, Versions
    <2>3. ASSUME NEW c \in Callers, resp'[c] # 0
          PROVE  /\ pc'[c] = "fetching"
                 /\ resp'[c] <= version'
                 /\ superseded'[resp'[c]] <= fetchAge'[c]
      <3>1. /\ resp[c] \in Versions \ {0}
            /\ pc[c] = "fetching"
            /\ resp[c] <= version
            /\ superseded[resp[c]] <= fetchAge[c]
            /\ fetchAge'[c] = fetchAge[c] + 1
        BY <1>7, <2>3 DEF TypeOK, Tick
      <3>2. superseded'[resp[c]] <= superseded[resp[c]] + 1
        BY <2>1, <3>1
      <3>3. superseded'[resp[c]] \in Nat /\ superseded[resp[c]] \in Nat
        BY <1>7, <3>1 DEF TypeOK, Tick, Older, Versions, Horizon
      <3> QED
        BY <1>7, <3>1, <3>2, <3>3 DEF Tick, TypeOK
    <2>4. FreshMeansRecent'
      BY <1>7, <2>1 DEF TypeOK, Tick, Older, Versions, Horizon
    <2> QED
      BY <1>7, <2>2, <2>3, <2>4 DEF Tick
  <1>8. CASE UNCHANGED vars
    BY <1>8 DEF vars
  <1> QED
    BY <1>1, <1>2, <1>3, <1>4, <1>5, <1>6, <1>7, <1>8 DEF Next, Lookup

\* Whatever the client's timeout, a document called fresh is recent.
THEOREM FreshDocumentsAreRecent == Spec => []FreshMeansRecent
  <1>1. Spec => []FreshInv
    BY FreshInit, FreshStep, TypeCorrect, PTL DEF Spec
  <1> QED
    BY <1>1, PTL DEF FreshInv

\* A stale key is accepted only while the fetch is throttled.
LEMMA StaleStep ==
  ASSUME TypeOK, FreshInv, [Next]_vars,
         NEW c \in Callers,
         Returns(c, "key"),
         superseded[answer'[c].ver] >= Horizon
  PROVE  throttled
  <1> USE TimesAssumption
  <1>1. ASSUME NEW b \in Callers, NEW k \in KeyIds, AnswerFresh(b, k)
        PROVE  FALSE
    <2>1. answer'[c] = KeyOf(k, keysVer)
      BY <1>1 DEF TypeOK, AnswerFresh, Returns
    <2>2. superseded[keysVer] < Horizon
      BY <1>1 DEF TypeOK, AnswerFresh, FreshInv, FreshMeansRecent, Horizon,
                  CurrentNotSuperseded, fresh, Versions
    <2> QED
      BY <2>1, <2>2 DEF KeyOf, TypeOK, Horizon
  <1>2. ASSUME NEW b \in Callers, NEW k \in KeyIds, AnswerThrottled(b, k)
        PROVE  throttled
    BY <1>2 DEF AnswerThrottled
  <1>3. ASSUME NEW b \in Callers, Install(b)
        PROVE  FALSE
    <2>1. answer'[c] = ResolveFetched(asked[b], resp[b])
      BY <1>3 DEF TypeOK, Install, Return, Returns
    <2>2. answer'[c].ver = resp[b]
      BY <2>1 DEF ResolveFetched, KeyOf, UnknownOf, Returns
    <2>3. superseded[resp[b]] < Horizon
      BY <1>3 DEF TypeOK, Install, FreshInv, ServedRecently, Horizon, Versions
    <2> QED
      BY <2>2, <2>3 DEF TypeOK, Horizon
  <1>4. ASSUME NEW b \in Callers, FetchFails(b)
        PROVE  FALSE
    BY <1>4 DEF TypeOK, FetchFails, Return, Returns, ErrorOf
  <1>5. answer' # answer
    BY DEF Returns
  <1> QED
    BY <1>1, <1>2, <1>3, <1>4, <1>5
       DEF Next, Lookup, StartFetch, Serve, Rotate, Tick, vars

\* A key of a document replaced long ago is accepted only within MinRefetch of
\* a fetch attempt (jwt.go:81-91).
THEOREM StaleKeysOnlyWhileThrottled == Spec => StaleKeyOnlyWhileThrottled
  <1>1. Spec => []FreshInv
    BY FreshInit, FreshStep, TypeCorrect, PTL DEF Spec
  <1>2. TypeOK /\ FreshInv /\ [Next]_vars =>
          [\A c \in Callers :
             Returns(c, "key") /\ superseded[answer'[c].ver] >= Horizon
               => throttled]_vars
    BY StaleStep
  <1> QED
    BY <1>1, <1>2, TypeCorrect, PTL DEF Spec, StaleKeyOnlyWhileThrottled

----------------------------------------------------------------------------
(***************************************************************************)
(* With a timeout below jwksMinRefetch there is one fetch at a time: the   *)
(* fetch in flight is as old as lastAttempt, so it still throttles the     *)
(* others; and what it was served is no older than what is cached.         *)
(***************************************************************************)
FetchThrottles ==
  \A c \in Callers : pc[c] = "fetching" => fetchAge[c] = attemptAge
ServedNotOlder ==
  \A c \in Callers : resp[c] # 0 => keysVer <= resp[c]
SingleInv == /\ FetchThrottles
             /\ OneFetchInFlight
             /\ ServedNotOlder

\* Nobody fetches at first.
LEMMA SingleInit == Init => SingleInv
  BY DEF Init, SingleInv, FetchThrottles, OneFetchInFlight, ServedNotOlder

\* An attempt throttles every other caller until the fetch is over.
LEMMA SingleStep ==
  ShortFetch /\ TypeOK /\ FreshInv /\ SingleInv /\ [Next]_vars => SingleInv'
  <1> SUFFICES ASSUME ShortFetch, TypeOK, FreshInv, SingleInv, [Next]_vars
               PROVE  SingleInv'
    OBVIOUS
  <1> USE TimesAssumption
          DEF SingleInv, FetchThrottles, OneFetchInFlight, ServedNotOlder,
              ShortFetch
  <1>1. ASSUME NEW c \in Callers, NEW k \in KeyIds,
               AnswerFresh(c, k) \/ AnswerThrottled(c, k)
        PROVE  SingleInv'
    BY <1>1 DEF AnswerFresh, AnswerThrottled, providerVars, cacheVars, callVars
  <1>2. ASSUME NEW c \in Callers, NEW k \in KeyIds, StartFetch(c, k)
        PROVE  SingleInv'
    <2>1. \A d \in Callers : pc[d] # "fetching"
      BY <1>2 DEF TypeOK, StartFetch, throttled
    <2> QED
      BY <1>2, <2>1 DEF TypeOK, StartFetch
  <1>3. ASSUME NEW c \in Callers, Serve(c)
        PROVE  SingleInv'
    BY <1>3 DEF TypeOK, Serve, cacheVars, FreshInv, CachedWasPublished
  <1>4. ASSUME NEW c \in Callers, FetchFails(c)
        PROVE  SingleInv'
    BY <1>4 DEF TypeOK, FetchFails, Return, cacheVars
  <1>5. ASSUME NEW c \in Callers, Install(c)
        PROVE  SingleInv'
    <2>1. \A d \in Callers : resp'[d] = 0
      BY <1>5 DEF TypeOK, Install, Return, FreshInv, ServedRecently
    <2> QED
      BY <1>5, <2>1 DEF TypeOK, Install, Return
  <1>6. ASSUME NEW d \in SUBSET KeyIds, Rotate(d)
        PROVE  SingleInv'
    BY <1>6 DEF Rotate, cacheVars, callVars
  <1>7. CASE Tick
    BY <1>7 DEF TypeOK, Tick, Older
  <1>8. CASE UNCHANGED vars
    BY <1>8 DEF vars
  <1> QED
    BY <1>1, <1>2, <1>3, <1>4, <1>5, <1>6, <1>7, <1>8 DEF Next, Lookup

\* All the invariants of a cache with a short client timeout together.
LEMMA Invariants ==
  ASSUME ShortFetch
  PROVE  Spec => [](TypeOK /\ FreshInv /\ SingleInv)
  BY ShortFetch, TypeInit, TypeStep, FreshInit, FreshStep, SingleInit, SingleStep,
     PTL DEF Spec

\* One fetch of the key document at a time.
THEOREM OneFetchAtATime ==
  ASSUME ShortFetch
  PROVE  Spec => []OneFetchInFlight
  BY Invariants, PTL DEF SingleInv

\* An install never rolls the keys back.
THEOREM NoRollBack ==
  ASSUME ShortFetch
  PROVE  Spec => KeysNeverRollBack
  <1>1. TypeOK /\ SingleInv /\ [Next]_vars => [keysVer' >= keysVer]_keysVer
    BY DEF TypeOK, SingleInv, ServedNotOlder, Next, Lookup, AnswerFresh,
           AnswerThrottled, StartFetch, Serve, FetchFails, Install, Rotate,
           Tick, vars, cacheVars, Versions
  <1> QED
    BY <1>1, Invariants, PTL DEF Spec, KeysNeverRollBack

----------------------------------------------------------------------------
(***************************************************************************)
(* The refinement: with the cached document as the trusted one, every step *)
(* is a step of SigningKeys or leaves its variables alone.                 *)
(***************************************************************************)
LEMMA ResolvedIsAllowed ==
  ASSUME NEW k \in KeyIds, NEW v \in Versions
  PROVE  ResolveFetched(k, v) \in Trusted!Allowed(k, v)
  <1>1. CASE k \in docs[v]
    BY <1>1 DEF ResolveFetched, Trusted!Allowed, KeyOf
  <1>2. CASE k \notin docs[v] /\ k = NoKid /\ Cardinality(docs[v]) = 1
    <2>1. docs[v] # {}
      <3>1. Cardinality({}) = 0
        BY FS_EmptySet
      <3> QED
        BY <1>2, <3>1
    <2>2. ResolveFetched(k, v) = KeyOf(k, v)
      BY <1>2 DEF ResolveFetched
    <2> QED
      BY <1>2, <2>1, <2>2 DEF Trusted!Allowed, KeyOf
  <1>3. CASE k \notin docs[v] /\ ~(k = NoKid /\ Cardinality(docs[v]) = 1)
    BY <1>3 DEF ResolveFetched, Trusted!Allowed, UnknownOf
  <1> QED
    BY <1>1, <1>2, <1>3

\* Initial states map to initial states.
LEMMA RefinesInit == Init => Trusted!Init
  <1> SUFFICES ASSUME Init PROVE Trusted!Init
    OBVIOUS
  <1>1. docs \in [Trusted!Versions -> SUBSET Trusted!KeyIds] /\ docs[0] = {}
    BY TimesAssumption
       DEF Init, Trusted!Versions, Trusted!KeyIds, Versions, KeyIds
  <1> QED
    BY <1>1 DEF Init, Trusted!Init

\* Every step maps to a step of SigningKeys or to a stutter.
LEMMA RefinesStep ==
  TypeOK /\ FreshInv /\ SingleInv /\ [Next]_vars => [Trusted!Next]_(Trusted!vars)
  <1> SUFFICES ASSUME TypeOK, FreshInv, SingleInv, [Next]_vars
               PROVE  [Trusted!Next]_(Trusted!vars)
    OBVIOUS
  <1> USE TimesAssumption
  <1>0. keysVer \in keysVer .. version
    BY DEF TypeOK, FreshInv, CachedWasPublished, Versions
  \* A lookup that answers a, allowed by document v, and trusts v from then on.
  <1>a. ASSUME NEW c \in Callers, NEW k \in KeyIds, NEW v \in keysVer .. version,
               NEW a \in Trusted!Allowed(k, v),
               keysVer' = v, answer' = [answer EXCEPT ![c] = a],
               UNCHANGED <<docs, version>>
        PROVE  Trusted!Next
    <2>1. k \in Trusted!KeyIds
      BY DEF KeyIds, Trusted!KeyIds
    <2>2. Trusted!Answer(c)
      BY <1>a, <2>1 DEF Trusted!Answer
    <2> QED
      BY <2>2 DEF Trusted!Next
  <1>1. ASSUME NEW c \in Callers, NEW k \in KeyIds, AnswerFresh(c, k)
        PROVE  Trusted!Next
    <2>1. KeyOf(k, keysVer) \in Trusted!Allowed(k, keysVer)
      BY <1>1 DEF AnswerFresh, found, Trusted!Allowed, KeyOf
    <2> QED
      BY <1>0, <1>1, <1>a, <2>1 DEF AnswerFresh, providerVars, cacheVars
  <1>2. ASSUME NEW c \in Callers, NEW k \in KeyIds, AnswerThrottled(c, k)
        PROVE  Trusted!Next
    <2>1. (IF found(k) THEN KeyOf(k, keysVer) ELSE UnknownOf(k))
            \in Trusted!Allowed(k, keysVer)
      BY DEF found, Trusted!Allowed, KeyOf, UnknownOf
    <2> QED
      BY <1>0, <1>2, <1>a, <2>1 DEF AnswerThrottled, providerVars, cacheVars
  <1>3. ASSUME NEW c \in Callers, FetchFails(c)
        PROVE  Trusted!Next
    <2>1. ErrorOf(asked[c]) \in Trusted!Allowed(asked[c], keysVer)
      BY DEF Trusted!Allowed, ErrorOf
    <2>2. asked[c] \in KeyIds
      BY DEF TypeOK
    <2> QED
      BY <1>0, <1>3, <1>a, <2>1, <2>2
         DEF FetchFails, Return, providerVars, cacheVars
  <1>4. ASSUME NEW c \in Callers, Install(c)
        PROVE  Trusted!Next
    <2>1. asked[c] \in KeyIds /\ resp[c] \in Versions
      BY DEF TypeOK
    <2>2. resp[c] \in keysVer .. version
      BY <1>4, <2>1 DEF TypeOK, Install, SingleInv, ServedNotOlder, FreshInv,
                        ServedRecently, Versions
    <2>3. ResolveFetched(asked[c], resp[c]) \in Trusted!Allowed(asked[c], resp[c])
      BY <2>1, ResolvedIsAllowed
    <2> QED
      BY <1>4, <1>a, <2>1, <2>2, <2>3 DEF Install, Return, providerVars
  <1>5. ASSUME NEW d \in SUBSET KeyIds, Rotate(d)
        PROVE  Trusted!Next
    BY <1>5 DEF Rotate, cacheVars, Trusted!Next, Trusted!Publish,
                Trusted!KeyIds, KeyIds
  <1>6. ASSUME \/ \E c \in Callers : \/ \E k \in KeyIds : StartFetch(c, k)
                                     \/ Serve(c)
               \/ Tick
               \/ UNCHANGED vars
        PROVE  UNCHANGED Trusted!vars
    BY <1>6 DEF StartFetch, Serve, Tick, vars, providerVars, cacheVars,
                Trusted!vars
  <1> QED
    BY <1>1, <1>2, <1>3, <1>4, <1>5, <1>6 DEF Next, Lookup

\* The cache implements SigningKeys.
THEOREM CacheImplementsSigningKeys ==
  ASSUME ShortFetch
  PROVE  Spec => ImplementsSigningKeys
  BY Invariants, RefinesInit, RefinesStep, PTL
     DEF Spec, ImplementsSigningKeys, Trusted!Spec

----------------------------------------------------------------------------
(***************************************************************************)
(* New keys.  A document that was served or cached can lack only what was  *)
(* published since; and an installed document is told from one of an       *)
(* earlier attempt by its age, if the throttle is not longer than the TTL. *)
(***************************************************************************)
RotatedSince(v, age) == \A w \in v .. version - 1 : superseded[w] <= age

ServedSince ==
  \A c \in Callers : resp[c] # 0 => RotatedSince(resp[c], fetchAge[c])
FetchNotInstalled ==
  \A c \in Callers : pc[c] = "fetching" => attemptAge < fetchedAge
AttemptBeforeInstall == attemptAge <= fetchedAge + FetchBound
InstalledSince ==
  throttled /\ fetchedAge <= attemptAge =>
    keysVer # 0 /\ RotatedSince(keysVer, attemptAge)
SinceInv == /\ ServedSince
            /\ FetchNotInstalled
            /\ AttemptBeforeInstall
            /\ InstalledSince

\* Nothing is installed at first.
LEMMA SinceInit ==
  ASSUME MinRefetch <= CacheTTL
  PROVE  Init => SinceInv
  BY TimesAssumption
     DEF Init, SinceInv, ServedSince, FetchNotInstalled, AttemptBeforeInstall,
         InstalledSince, throttled

\* Every action keeps the four parts.
LEMMA SinceStep ==
  ASSUME ShortFetch, MinRefetch <= CacheTTL
  PROVE  TypeOK /\ FreshInv /\ SingleInv /\ SinceInv /\ [Next]_vars => SinceInv'
  <1> SUFFICES ASSUME TypeOK, FreshInv, SingleInv, SinceInv, [Next]_vars
               PROVE  SinceInv'
    OBVIOUS
  <1> USE TimesAssumption, ShortFetch
          DEF SinceInv, ServedSince, FetchNotInstalled, AttemptBeforeInstall,
              InstalledSince, RotatedSince, throttled, ShortFetch
  <1>1. ASSUME NEW c \in Callers, NEW k \in KeyIds,
               AnswerFresh(c, k) \/ AnswerThrottled(c, k)
        PROVE  SinceInv'
    BY <1>1 DEF AnswerFresh, AnswerThrottled, providerVars, cacheVars, callVars
  <1>2. ASSUME NEW c \in Callers, NEW k \in KeyIds, StartFetch(c, k)
        PROVE  SinceInv'
    <2>1. fetchedAge > 0
      BY <1>2 DEF TypeOK, StartFetch
    <2>2. resp[c] = 0
      BY <1>2 DEF StartFetch, FreshInv, ServedRecently, TypeOK
    <2> QED
      BY <1>2, <2>1, <2>2 DEF TypeOK, StartFetch, providerVars
  <1>3. ASSUME NEW c \in Callers, Serve(c)
        PROVE  SinceInv'
    BY <1>3 DEF TypeOK, Serve, providerVars, cacheVars
  <1>4. ASSUME NEW c \in Callers, FetchFails(c)
        PROVE  SinceInv'
    BY <1>4 DEF TypeOK, FetchFails, Return, providerVars, cacheVars
  <1>5. ASSUME NEW c \in Callers, Install(c)
        PROVE  SinceInv'
    <2>1. \A d \in Callers : pc'[d] = "idle" /\ resp'[d] = 0
      BY <1>5 DEF TypeOK, Install, Return, FreshInv, ServedRecently,
                  SingleInv, OneFetchInFlight
    <2>2. attemptAge <= FetchBound /\ attemptAge = fetchAge[c]
      BY <1>5 DEF TypeOK, Install, SingleInv, FetchThrottles
    <2>3. RotatedSince(resp[c], attemptAge)
      BY <1>5, <2>2 DEF Install
    <2> QED
      BY <1>5, <2>1, <2>2, <2>3 DEF TypeOK, Install, Return, providerVars
  <1>6. ASSUME NEW d \in SUBSET KeyIds, Rotate(d)
        PROVE  SinceInv'
    <2>1. superseded[version] = 0 /\ superseded' = superseded
      BY <1>6 DEF TypeOK, Rotate, FreshInv, CurrentNotSuperseded, Versions
    <2>2. version' - 1 = version /\ version \in Nat
      BY <1>6 DEF TypeOK, Rotate
    <2>3. ASSUME NEW v \in Nat, NEW age \in Nat, RotatedSince(v, age)
          PROVE  \A w \in v .. version' - 1 : superseded'[w] <= age
      BY <2>1, <2>2, <2>3
    <2>4. ServedSince'
      <3> SUFFICES ASSUME NEW c \in Callers, resp'[c] # 0
                   PROVE  RotatedSince(resp[c], fetchAge[c])'
        OBVIOUS
      <3>1. resp[c] \in Nat /\ fetchAge[c] \in Nat /\ resp' = resp /\ fetchAge' = fetchAge
        BY <1>6 DEF TypeOK, Rotate, callVars, Versions
      <3> QED
        BY <2>3, <3>1
    <2>5. InstalledSince'
      <3>1. keysVer \in Nat /\ attemptAge \in Nat /\ UNCHANGED cacheVars
        BY <1>6 DEF TypeOK, Rotate, Versions
      <3> QED
        BY <2>3, <3>1 DEF cacheVars
    <2> QED
      BY <1>6, <2>4, <2>5 DEF Rotate, cacheVars, callVars
  <1>7. CASE Tick
    <2>1. ASSUME NEW v \in Nat \ {0}, NEW age \in Nat, RotatedSince(v, age)
          PROVE  \A w \in v .. version' - 1 : superseded'[w] <= age + 1
      BY <1>7, <2>1 DEF TypeOK, Tick, Older, Horizon, Versions
    <2>2. ServedSince'
      <3> SUFFICES ASSUME NEW c \in Callers, resp'[c] # 0
                   PROVE  RotatedSince(resp[c], fetchAge[c])'
        OBVIOUS
      <3>1. resp[c] \in Nat \ {0} /\ fetchAge[c] \in Nat /\ resp' = resp
        BY <1>7 DEF TypeOK, Tick, Versions
      <3>2. fetchAge'[c] = fetchAge[c] + 1
        BY <1>7, <3>1 DEF TypeOK, Tick, FreshInv, ServedRecently
      <3> QED
        BY <2>1, <3>1, <3>2
    <2>3. FetchNotInstalled'
      BY <1>7 DEF TypeOK, Tick, Older, SingleInv, FetchThrottles
    <2>4. AttemptBeforeInstall'
      BY <1>7 DEF TypeOK, Tick, Older
    <2>5. InstalledSince'
      <3> SUFFICES ASSUME throttled', fetchedAge' <= attemptAge'
                   PROVE  keysVer' # 0 /\ RotatedSince(keysVer, attemptAge)'
        OBVIOUS
      <3>1. attemptAge' = attemptAge + 1 /\ throttled
        BY <1>7 DEF TypeOK, Tick, Older
      <3>2. fetchedAge <= attemptAge
        BY <1>7, <3>1 DEF TypeOK, Tick, Older
      <3>3. keysVer \in Nat \ {0} /\ attemptAge \in Nat /\ keysVer' = keysVer
        BY <1>7, <3>1, <3>2 DEF TypeOK, Tick, Versions
      <3>4. RotatedSince(keysVer, attemptAge)
        BY <3>1, <3>2
      <3> QED
        BY <2>1, <3>1, <3>3, <3>4
    <2> QED
      BY <2>2, <2>3, <2>4, <2>5
  <1>8. CASE UNCHANGED vars
    BY <1>8 DEF vars
  <1> QED
    BY <1>1, <1>2, <1>3, <1>4, <1>5, <1>6, <1>7, <1>8 DEF Next, Lookup

\* A step that says unknown of a published kid comes soon after the publication.
LEMMA NewKeyStep ==
  ASSUME ShortFetch, MinRefetch <= CacheTTL,
         TypeOK, FreshInv, SingleInv, SinceInv, [Next]_vars,
         NEW c \in Callers,
         Returns(c, "unknown"),
         answer'[c].kid \in docs[version] \ {NoKid},
         fetchedAge' <= attemptAge'
  PROVE  version > 1 /\ superseded[version - 1] < MinRefetch
  <1> USE TimesAssumption, ShortFetch DEF ShortFetch
  <1>a. \A v \in Versions \ {0}, age \in Nat :
          /\ v < version
          /\ RotatedSince(v, age)
          /\ age < MinRefetch
          => version > 1 /\ superseded[version - 1] < MinRefetch
    BY DEF RotatedSince, TypeOK, Versions
  <1>1. ASSUME NEW b \in Callers, NEW k \in KeyIds, AnswerThrottled(b, k)
        PROVE  version > 1 /\ superseded[version - 1] < MinRefetch
    <2>1. answer'[c] = UnknownOf(k) /\ ~found(k)
      BY <1>1 DEF TypeOK, AnswerThrottled, Returns, KeyOf, UnknownOf
    <2>2. k \in docs[version] /\ k \notin docs[keysVer]
      BY <2>1 DEF UnknownOf, found
    <2>3. throttled /\ fetchedAge <= attemptAge
      BY <1>1 DEF AnswerThrottled, cacheVars
    <2>4. keysVer # 0 /\ RotatedSince(keysVer, attemptAge)
      BY <2>3 DEF SinceInv, InstalledSince
    <2>5. keysVer < version
      BY <2>2 DEF TypeOK, FreshInv, CachedWasPublished, Versions
    <2> QED
      BY <1>a, <2>3, <2>4, <2>5 DEF TypeOK, throttled
  <1>2. ASSUME NEW b \in Callers, Install(b)
        PROVE  version > 1 /\ superseded[version - 1] < MinRefetch
    <2>1. answer'[c] = ResolveFetched(asked[b], resp[b])
      BY <1>2 DEF TypeOK, Install, Return, Returns
    <2>2. asked[b] \in docs[version] /\ asked[b] \notin docs[resp[b]]
      BY <2>1 DEF ResolveFetched, KeyOf, UnknownOf, Returns
    <2>3. resp[b] # 0 /\ resp[b] < version
      BY <1>2, <2>2 DEF TypeOK, Install, FreshInv, ServedRecently, Versions
    <2>4. RotatedSince(resp[b], fetchAge[b])
      BY <2>3 DEF SinceInv, ServedSince
    <2> QED
      BY <1>a, <2>3, <2>4 DEF TypeOK
  <1>3. ASSUME NEW b \in Callers, NEW k \in KeyIds, AnswerFresh(b, k)
        PROVE  FALSE
    BY <1>3 DEF TypeOK, AnswerFresh, Returns, KeyOf
  <1>4. ASSUME NEW b \in Callers, FetchFails(b)
        PROVE  FALSE
    BY <1>4 DEF TypeOK, FetchFails, Return, Returns, ErrorOf
  <1>5. answer' # answer
    BY DEF Returns
  <1> QED
    BY <1>1, <1>2, <1>3, <1>4, <1>5
       DEF Next, Lookup, StartFetch, Serve, Rotate, Tick, vars

\* A published key is refused as unknown only briefly.
THEOREM NewKeysKnownSoon ==
  ASSUME ShortFetch, MinRefetch <= CacheTTL
  PROVE  Spec => NewKeyKnownSoon
  <1>1. Spec => []SinceInv
    BY Invariants, SinceInit, SinceStep, ShortFetch, PTL DEF Spec
  <1>2. TypeOK /\ FreshInv /\ SingleInv /\ SinceInv /\ [Next]_vars =>
          [\A c \in Callers :
             /\ Returns(c, "unknown")
             /\ answer'[c].kid \in docs[version] \ {NoKid}
             /\ fetchedAge' <= attemptAge'
             => version > 1 /\ superseded[version - 1] < MinRefetch]_vars
    BY NewKeyStep, ShortFetch
  <1> QED
    BY <1>1, <1>2, Invariants, ShortFetch, PTL DEF Spec, NewKeyKnownSoon

\* A returning lookup with a kid answers from the document cached after the step.
LEMMA CachedAnswer ==
  ASSUME TypeOK, [Next]_vars, NEW c \in Callers,
         Returns(c, "key") \/ Returns(c, "unknown"),
         answer'[c].kid # NoKid
  PROVE  answer'[c] = ResolveFetched(answer'[c].kid, keysVer')
  <1>1. ASSUME NEW b \in Callers, NEW k \in KeyIds, AnswerFresh(b, k)
        PROVE  answer'[c] = ResolveFetched(answer'[c].kid, keysVer')
    <2>1. answer'[c] = KeyOf(k, keysVer) /\ keysVer' = keysVer
      BY <1>1 DEF TypeOK, AnswerFresh, Returns, cacheVars
    <2> QED
      BY <1>1, <2>1 DEF AnswerFresh, found, KeyOf, ResolveFetched
  <1>2. ASSUME NEW b \in Callers, NEW k \in KeyIds, AnswerThrottled(b, k)
        PROVE  answer'[c] = ResolveFetched(answer'[c].kid, keysVer')
    <2>1. /\ answer'[c] = IF found(k) THEN KeyOf(k, keysVer) ELSE UnknownOf(k)
          /\ keysVer' = keysVer
      BY <1>2 DEF TypeOK, AnswerThrottled, Returns, cacheVars
    <2>2. answer'[c].kid = k /\ k # NoKid
      BY <2>1 DEF KeyOf, UnknownOf
    <2> QED
      BY <2>1, <2>2 DEF found, ResolveFetched
  <1>3. ASSUME NEW b \in Callers, FetchFails(b)
        PROVE  FALSE
    BY <1>3 DEF TypeOK, FetchFails, Return, Returns, ErrorOf
  <1>4. ASSUME NEW b \in Callers, Install(b)
        PROVE  answer'[c] = ResolveFetched(answer'[c].kid, keysVer')
    <2>1. answer'[c] = ResolveFetched(asked[b], resp[b]) /\ keysVer' = resp[b]
      BY <1>4 DEF TypeOK, Install, Return, Returns
    <2>2. answer'[c].kid = asked[b]
      BY <2>1 DEF ResolveFetched, KeyOf, UnknownOf
    <2> QED
      BY <2>1, <2>2
  <1>5. answer' # answer
    BY DEF Returns
  <1> QED
    BY <1>1, <1>2, <1>3, <1>4, <1>5
       DEF Next, Lookup, StartFetch, Serve, Rotate, Tick, vars

\* Caching does not change the answer to a lookup with a kid.
THEOREM CachedAnswersAreFetched == Spec => CachingKeepsAnswers
  <1>1. TypeOK /\ [Next]_vars =>
          [\A c \in Callers :
             /\ Returns(c, "key") \/ Returns(c, "unknown")
             /\ answer'[c].kid # NoKid /\ fresh'
             => answer'[c] = ResolveFetched(answer'[c].kid, keysVer')]_vars
    BY CachedAnswer
  <1> QED
    BY <1>1, TypeCorrect, PTL DEF Spec, CachingKeepsAnswers
=============================================================================
