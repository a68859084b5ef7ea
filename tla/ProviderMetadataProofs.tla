----------------------- MODULE ProviderMetadataProofs -----------------------
(***************************************************************************)
(* Theorems about ProviderMetadata, for every number of requests, key urls *)
(* and discovery documents, either mode, a configured jwks url or none,    *)
(* and every lifetime and timeout.                                         *)
(***************************************************************************)
EXTENDS ProviderMetadata, TLAPS

\* What has not been replaced is not superseded; a provider within reach is not
\* dark.
Clock ==
  /\ \A v \in Versions : v = 0 \/ version <= v => superseded[v] = 0
  /\ reachable => darkFor = 0

\* Metadata was installed at most Timeout after it was served, together with the
\* key cache it names.
Cached ==
  /\ mdVer <= version
  /\ fresh => superseded[mdVer] <= mdAge + Timeout /\ darkFor <= mdAge + Timeout
  /\ mdVer # 0 /\ Mode = "oidc" => jwks = JWKSURI(mdVer)
  /\ mdVer # 0 /\ jwks = NoUri => JWKSURI(mdVer) = NoUri

\* A served document is no older than the request; the keys a callback is going
\* to read were published no longer ago than the cache and the exchange allow,
\* whichever discovery is installed in between.
RequestInv(r) ==
  /\ resp[r] # 0 => /\ pc[r] = "discovering"
                    /\ resp[r] <= version
                    /\ superseded[resp[r]] <= age[r]
                    /\ darkFor <= age[r]
  /\ pc[r] = "exchanging" /\ Mode = "oidc" =>
       \E v \in 1 .. version : /\ jwks = JWKSURI(v)
                               /\ superseded[v] < CacheTTL + Timeout + age[r]
  /\ pc[r] \in {"exchanging", "rereading"} => mdVer # 0

Inv == TypeOK /\ Clock /\ Cached /\ \A r \in Requests : RequestInv(r)

\* The lifetimes are numbers.
LEMMA Times == /\ CacheTTL \in Nat \ {0} /\ Timeout \in Nat
               /\ MaxVersion \in Nat \ {0} /\ Horizon = CacheTTL + Timeout + Timeout
  BY MetadataAssumption DEF Horizon

\* Nothing is cached at first.
LEMMA InvInit == Init => Inv
  <1> SUFFICES ASSUME Init PROVE Inv
    OBVIOUS
  <1>1. TypeOK
    <2>1. uri \in [Versions -> AnyUri]
      BY DEF Init, AnyUri
    <2>2. superseded \in [Versions -> 0 .. Horizon] /\ darkFor \in 0 .. Horizon
      BY Times DEF Init
    <2>3. version \in 1 .. MaxVersion /\ mdVer \in Versions /\ mdAge \in 0 .. CacheTTL
      BY Times DEF Init, Versions
    <2>4. /\ age \in [Requests -> 0 .. Timeout] /\ resp \in [Requests -> Versions]
          /\ held \in [Requests -> Versions]
      BY Times DEF Init, Versions
    <2>5. reachable \in BOOLEAN /\ jwks \in AnyUri
      BY DEF Init, AnyUri
    <2>6. outcome \in [Requests -> Outcomes]
      BY <2>3, <2>5 DEF Init, Outcomes, Outcome, Ops
    <2>7. /\ pc \in [Requests -> {"idle", "noKeys", "discovering", "exchanging", "rereading"}]
          /\ op \in [Requests -> Ops]
      BY DEF Init, Ops
    <2> QED
      BY <2>1, <2>2, <2>3, <2>4, <2>5, <2>6, <2>7 DEF TypeOK
  <1>2. Clock /\ Cached
    BY Times DEF Init, Clock, Cached, fresh
  <1>3. ASSUME NEW r \in Requests PROVE RequestInv(r)
    BY <1>3 DEF Init, RequestInv
  <1> QED
    BY <1>1, <1>2, <1>3 DEF Inv

\* A request that goes on, or ends, with the cache and the provider as they are.
LEMMA CallTypes ==
  ASSUME Inv, NEW r \in Requests,
         \/ \E o \in Outcomes : Respond(r, o)
         \/ \E label \in {"noKeys", "discovering", "exchanging", "rereading"},
               o \in Ops, md \in Versions : GoTo(r, label, o, md)
  PROVE  /\ pc' \in [Requests -> {"idle", "noKeys", "discovering", "exchanging", "rereading"}]
         /\ op' \in [Requests -> Ops]
         /\ age' \in [Requests -> 0 .. Timeout]
         /\ resp' \in [Requests -> Versions]
         /\ held' \in [Requests -> Versions]
         /\ outcome' \in [Requests -> Outcomes]
  <1>1. Outcome("ready", "none", 0, NoUri) \in Outcomes /\ 0 \in Versions /\ 0 \in 0 .. Timeout
    BY Times DEF Outcome, Outcomes, Ops, Versions, AnyUri
  <1>2. "ready" \in Ops
    BY DEF Ops
  <1> QED
    BY <1>1, <1>2 DEF Inv, TypeOK, Respond, GoTo

\* With metadata md a request responds, redeems its code or reads again.
LEMMA WithMetadataSteps ==
  ASSUME NEW r \in Requests, NEW o \in Ops, NEW md \in Versions, WithMetadata(r, o, md)
  PROVE  \/ \E out \in Outcomes : Respond(r, out)
         \/ \E label \in {"exchanging", "rereading"} : GoTo(r, label, o, md)
  BY DEF WithMetadata, Outcome, Outcomes, Ops, AnyUri

\* Requests that only change what is theirs, and end or wait for the provider.
LEMMA PlainStep ==
  ASSUME Inv, NEW r \in Requests,
         UNCHANGED <<providerVars, managerVars>>,
         \/ \E o \in Outcomes : Respond(r, o)
         \/ \E label \in {"noKeys", "discovering"}, o \in Ops : GoTo(r, label, o, 0)
  PROVE  Inv'
  <1>1. TypeOK'
    <2>1. 0 \in Versions
      BY Times DEF Versions
    <2> QED
      BY <2>1, CallTypes DEF Inv, TypeOK, providerVars, managerVars
  <1>2. Clock' /\ Cached'
    BY DEF Inv, Clock, Cached, fresh, JWKSURI, providerVars, managerVars
  <1>3. ASSUME NEW s \in Requests PROVE RequestInv(s)'
    BY <1>3 DEF Inv, TypeOK, RequestInv, JWKSURI, Respond, GoTo, providerVars, managerVars
  <1> QED
    BY <1>1, <1>2, <1>3 DEF Inv

\* Fresh metadata is taken from the cache.
LEMMA CachedStep ==
  ASSUME Inv, NEW r \in Requests, NEW o \in Ops, ProviderCached(r, o)
  PROVE  Inv'
  <1>1. UNCHANGED <<providerVars, managerVars>> /\ fresh /\ mdVer \in Versions
    BY DEF Inv, TypeOK, ProviderCached
  <1>2. CASE \E out \in Outcomes : Respond(r, out)
    BY <1>1, <1>2, PlainStep
  <1>3. CASE \E label \in {"exchanging", "rereading"} : GoTo(r, label, o, mdVer)
    <2>1. PICK label \in {"exchanging", "rereading"} : GoTo(r, label, o, mdVer)
      BY <1>3
    <2>2. TypeOK'
      BY <1>1, <2>1, CallTypes DEF Inv, TypeOK, providerVars, managerVars
    <2>3. Clock' /\ Cached'
      BY <1>1 DEF Inv, Clock, Cached, fresh, JWKSURI, providerVars, managerVars
    <2>4. ASSUME NEW s \in Requests, s # r PROVE RequestInv(s)'
      BY <1>1, <2>1, <2>4
         DEF Inv, TypeOK, RequestInv, JWKSURI, GoTo, providerVars, managerVars
    <2>5. RequestInv(r)'
      <3>1. mdVer \in 1 .. version
        BY <1>1 DEF Inv, TypeOK, Cached, fresh, Versions
      <3>2. superseded[mdVer] < CacheTTL + Timeout + 0
        BY <1>1, Times DEF Inv, TypeOK, Cached, fresh
      <3>3. age'[r] = 0 /\ resp'[r] = 0 /\ UNCHANGED <<uri, version, superseded, mdVer, jwks>>
        BY <1>1, <2>1 DEF Inv, TypeOK, GoTo, providerVars, managerVars
      <3> QED
        BY <3>1, <3>2, <3>3 DEF Inv, Cached, RequestInv, JWKSURI
    <2> QED
      BY <2>2, <2>3, <2>4, <2>5 DEF Inv
  <1> QED
    BY <1>1, <1>2, <1>3, WithMetadataSteps DEF ProviderCached

\* The provider answers with its present document.
LEMMA ServeStep ==
  ASSUME Inv, NEW r \in Requests, Serve(r)
  PROVE  Inv'
  <1>1. TypeOK'
    BY DEF Inv, TypeOK, Serve, providerVars, managerVars, Versions
  <1>2. Clock' /\ Cached'
    BY DEF Inv, Clock, Cached, fresh, JWKSURI, Serve, providerVars, managerVars
  <1>3. ASSUME NEW s \in Requests PROVE RequestInv(s)'
    <2>1. version \in Versions /\ superseded[version] = 0 /\ darkFor = 0
      BY DEF Inv, TypeOK, Clock, Serve, Versions
    <2> QED
      BY <1>3, <2>1
         DEF Inv, TypeOK, RequestInv, JWKSURI, Serve, providerVars, managerVars
  <1> QED
    BY <1>1, <1>2, <1>3 DEF Inv

\* An install replaces the metadata by what was served no longer ago than the
\* request is old, even if what it replaces is newer.
LEMMA InstallStep ==
  ASSUME Inv, NEW r \in Requests, Install(r)
  PROVE  Inv'
  <1> DEFINE v == resp[r]
  <1>1. /\ v \in 1 .. version /\ v \in Versions /\ Usable(v)
        /\ superseded[v] \in 0 .. Timeout /\ darkFor <= Timeout
        /\ mdVer' = v /\ mdAge' = 0 /\ jwks' = Keys(v)
        /\ UNCHANGED <<uri, version, superseded, reachable, darkFor>>
    BY Times DEF Inv, TypeOK, RequestInv, Install, Versions, providerVars
  <1>2. Keys(v) \in AnyUri /\ (Mode = "oidc" => Keys(v) = JWKSURI(v))
        /\ (Keys(v) = NoUri => JWKSURI(v) = NoUri)
    BY <1>1, MetadataAssumption DEF Inv, TypeOK, Keys, JWKSURI, Usable, AnyUri
  <1>3. \/ \E out \in Outcomes : Respond(r, out)
        \/ \E label \in {"exchanging", "rereading"} : GoTo(r, label, op[r], v)
    <2>1. op[r] \in Ops /\ WithMetadata(r, op[r], v)
      BY DEF Inv, TypeOK, Install
    <2> QED
      BY <1>1, <2>1, WithMetadataSteps
  <1>4. TypeOK'
    <2>1. op[r] \in Ops
      BY DEF Inv, TypeOK
    <2> QED
      BY <1>1, <1>2, <1>3, <2>1, Times, CallTypes DEF Inv, TypeOK
  <1>5. Clock' /\ Cached'
    BY <1>1, <1>2, Times DEF Inv, TypeOK, Clock, Cached, fresh, JWKSURI
  <1>6. ASSUME NEW s \in Requests PROVE RequestInv(s)'
    <2>1. /\ age'[s] \in Nat
          /\ resp'[s] = 0 \/ (s # r /\ resp'[s] = resp[s] /\ pc'[s] = pc[s] /\ age'[s] = age[s])
      BY <1>3, Times DEF Inv, TypeOK, Respond, GoTo
    <2>2. superseded[v] < CacheTTL + Timeout + age'[s]
      <3>1. superseded[v] \in Nat /\ superseded[v] <= Timeout
        BY <1>1, Times
      <3> QED
        BY <2>1, <3>1, Times
    <2>3. mdVer' # 0 /\ (Mode = "oidc" => jwks' = JWKSURI(v))
      BY <1>1, <1>2
    <2> QED
      BY <1>1, <2>1, <2>2, <2>3 DEF Inv, RequestInv, JWKSURI
  <1> QED
    BY <1>4, <1>5, <1>6 DEF Inv

\* A document that is published changes no earlier one.
LEMMA RepublishStep ==
  ASSUME Inv, NEW u \in AnyUri, Republish(u)
  PROVE  Inv'
  <1>1. /\ version \in Nat /\ version < MaxVersion /\ version' = version + 1
        /\ uri' = [uri EXCEPT ![version + 1] = u]
        /\ UNCHANGED <<superseded, reachable, darkFor, managerVars, callVars, outcome>>
    BY DEF Inv, TypeOK, Republish
  <1>2. TypeOK'
    BY <1>1, Times DEF Inv, TypeOK, managerVars, callVars, Versions
  <1>3. \A v \in 0 .. version : JWKSURI(v)' = JWKSURI(v)
    BY <1>1 DEF Inv, TypeOK, JWKSURI
  <1>4. Clock' /\ Cached'
    BY <1>1, <1>3 DEF Inv, TypeOK, Clock, Cached, fresh, managerVars, Versions
  <1>5. ASSUME NEW r \in Requests PROVE RequestInv(r)'
    BY <1>1, <1>3 DEF Inv, TypeOK, RequestInv, managerVars, callVars, Versions
  <1> QED
    BY <1>2, <1>4, <1>5 DEF Inv

\* The provider goes out of reach and comes back.
LEMMA ReachStep ==
  ASSUME Inv, Outage \/ Recover
  PROVE  Inv'
  <1>1. /\ UNCHANGED <<uri, version, superseded, managerVars, callVars, outcome>>
        /\ darkFor' = darkFor \/ darkFor' = 0
        /\ reachable' \in BOOLEAN /\ (reachable' => darkFor' = 0)
    BY DEF Outage, Recover
  <1>2. darkFor' \in 0 .. Horizon /\ darkFor' <= darkFor
    BY <1>1, Times DEF Inv, TypeOK
  <1>3. TypeOK'
    BY <1>1, <1>2 DEF Inv, TypeOK, managerVars, callVars
  <1>4. Clock' /\ Cached'
    BY <1>1, <1>2, Times DEF Inv, TypeOK, Clock, Cached, fresh, JWKSURI, managerVars
  <1>5. ASSUME NEW r \in Requests PROVE RequestInv(r)'
    BY <1>1, <1>2 DEF Inv, TypeOK, RequestInv, JWKSURI, managerVars, callVars
  <1> QED
    BY <1>3, <1>4, <1>5 DEF Inv

\* The clock: every age grows by one, up to its cap.
LEMMA TickStep ==
  ASSUME Inv, Tick
  PROVE  Inv'
  <1>1. /\ UNCHANGED <<uri, version, reachable, mdVer, jwks, pc, op, resp, held, outcome>>
        /\ mdAge' = Older(mdAge, CacheTTL)
        /\ darkFor' = IF reachable THEN 0 ELSE Older(darkFor, Horizon)
    BY DEF Tick
  <1>2. \A v \in Versions : /\ superseded'[v] \in 0 .. Horizon
                            /\ superseded'[v] <= superseded[v] + 1
                            /\ v \notin 1 .. version - 1 => superseded'[v] = 0
    BY Times DEF Inv, TypeOK, Tick, Older
  <1>3. darkFor' \in 0 .. Horizon /\ darkFor' <= darkFor + 1 /\ (reachable => darkFor' = 0)
    BY <1>1, Times DEF Inv, TypeOK, Older
  <1>4. mdAge' \in 0 .. CacheTTL /\ (mdAge < CacheTTL => mdAge' = mdAge + 1)
        /\ (mdAge' < CacheTTL => mdAge < CacheTTL)
    BY <1>1, Times DEF Inv, TypeOK, Older
  <1>5. \A r \in Requests : /\ age'[r] \in 0 .. Timeout
                            /\ pc[r] \in {"discovering", "exchanging"} => age'[r] = age[r] + 1
    BY Times DEF Inv, TypeOK, Tick, Waiting
  <1>6. TypeOK'
    <2>1. superseded' \in [Versions -> 0 .. Horizon] /\ age' \in [Requests -> 0 .. Timeout]
      BY <1>2, <1>5 DEF Tick
    <2> QED
      BY <1>1, <1>3, <1>4, <2>1 DEF Inv, TypeOK
  <1>7. Clock'
    BY <1>1, <1>2, <1>3 DEF Inv, TypeOK, Clock, Versions
  <1>8. Cached'
    <2>1. mdVer \in Versions /\ superseded[mdVer] \in Nat /\ darkFor \in Nat /\ mdAge \in Nat
      BY DEF Inv, TypeOK
    <2> QED
      BY <1>1, <1>2, <1>3, <1>4, <2>1, Times DEF Inv, TypeOK, Cached, fresh, JWKSURI
  <1>9. ASSUME NEW r \in Requests PROVE RequestInv(r)'
    <2>1. /\ resp'[r] = resp[r] /\ pc'[r] = pc[r] /\ resp[r] \in Versions
          /\ age[r] \in Nat /\ darkFor \in Nat /\ \A v \in Versions : superseded[v] \in Nat
      BY <1>1 DEF Inv, TypeOK
    <2>2. resp[r] # 0 => /\ superseded'[resp[r]] <= age'[r] /\ darkFor' <= age'[r]
      BY <1>2, <1>3, <1>5, <2>1 DEF Inv, TypeOK, RequestInv
    <2>3. pc[r] = "exchanging" /\ Mode = "oidc" =>
            \E v \in 1 .. version : /\ jwks = JWKSURI(v)
                                    /\ superseded'[v] < CacheTTL + Timeout + age'[r]
      <3> SUFFICES ASSUME pc[r] = "exchanging", Mode = "oidc"
                   PROVE  \E v \in 1 .. version :
                            /\ jwks = JWKSURI(v)
                            /\ superseded'[v] < CacheTTL + Timeout + age'[r]
        OBVIOUS
      <3>1. PICK v \in 1 .. version : /\ jwks = JWKSURI(v)
                                      /\ superseded[v] < CacheTTL + Timeout + age[r]
        BY DEF Inv, RequestInv
      <3>2. v \in Versions /\ superseded[v] \in Nat /\ superseded'[v] \in Nat
        <4>1. v \in Versions
          BY <3>1, Times DEF Inv, TypeOK, Versions
        <4> QED
          BY <1>2, <2>1, <4>1, Times
      <3>3. superseded'[v] < CacheTTL + Timeout + age'[r]
        BY <1>2, <1>5, <2>1, <3>1, <3>2, Times
      <3> QED
        BY <3>1, <3>3
    <2> QED
      BY <1>1, <2>1, <2>2, <2>3 DEF Inv, RequestInv, JWKSURI
  <1> QED
    BY <1>6, <1>7, <1>8, <1>9 DEF Inv

\* What a handler of the key readers comes to is an outcome.
LEMMA ReaderStep ==
  ASSUME Inv, NEW r \in Requests,
         \/ BearerWithKeys(r) \/ BearerWithoutKeys(r) \/ BearerRereads(r)
         \/ CallbackVerifies(r) \/ CallbackExchangeFails(r) \/ DiscoverFails(r)
         \/ \E o \in Ops : ProviderMiss(r, o)
  PROVE  Inv'
  <1>1. UNCHANGED <<providerVars, managerVars>>
    BY DEF BearerWithKeys, BearerWithoutKeys, BearerRereads, CallbackVerifies,
           CallbackExchangeFails, DiscoverFails, ProviderMiss
  <1>2. \A o \in Ops, result \in {"ok", "failed", "unavailable"}, md \in Versions, k \in AnyUri :
          Outcome(o, result, md, k) \in Outcomes
    BY DEF Outcome, Outcomes
  <1>3. /\ jwks \in AnyUri /\ NoUri \in AnyUri /\ held[r] \in Versions /\ 0 \in Versions
        /\ op[r] \in Ops /\ {"bearer", "callback"} \subseteq Ops
    BY Times DEF Inv, TypeOK, AnyUri, Versions, Ops
  <1>4. \/ \E o \in Outcomes : Respond(r, o)
        \/ \E label \in {"noKeys", "discovering"}, o \in Ops : GoTo(r, label, o, 0)
    BY <1>2, <1>3 DEF BearerWithKeys, BearerWithoutKeys, BearerRereads, CallbackVerifies,
           CallbackExchangeFails, DiscoverFails, ProviderMiss
  <1> QED
    BY <1>1, <1>4, PlainStep

\* The invariant is kept by every step.
LEMMA InvStep == Inv /\ [Next]_vars => Inv'
  <1> SUFFICES ASSUME Inv, [Next]_vars PROVE Inv'
    OBVIOUS
  <1>1. ASSUME NEW r \in Requests, NEW o \in Ops, ProviderCached(r, o) PROVE Inv'
    BY <1>1, CachedStep
  <1>2. ASSUME NEW r \in Requests, Serve(r) \/ Install(r) PROVE Inv'
    BY <1>2, ServeStep, InstallStep
  <1>3. ASSUME NEW r \in Requests,
               \/ BearerWithKeys(r) \/ BearerWithoutKeys(r) \/ BearerRereads(r)
               \/ CallbackVerifies(r) \/ CallbackExchangeFails(r) \/ DiscoverFails(r)
               \/ \E o \in Ops : ProviderMiss(r, o)
        PROVE  Inv'
    BY <1>3, ReaderStep
  <1>4. ASSUME NEW u \in AnyUri, Republish(u) PROVE Inv'
    BY <1>4, RepublishStep
  <1>5. CASE Outage \/ Recover
    BY <1>5, ReachStep
  <1>6. CASE Tick
    BY <1>6, TickStep
  <1>7. CASE UNCHANGED vars
    <2>1. TypeOK' /\ Clock' /\ Cached'
      BY <1>7 DEF Inv, TypeOK, Clock, Cached, fresh, JWKSURI, vars
    <2>2. ASSUME NEW r \in Requests PROVE RequestInv(r)'
      BY <1>7 DEF Inv, RequestInv, JWKSURI, vars
    <2> QED
      BY <2>1, <2>2 DEF Inv
  <1> QED
    BY <1>1, <1>2, <1>3, <1>4, <1>5, <1>6, <1>7 DEF Next, ProviderCall

\* The invariant holds in every state.
THEOREM Invariant == Spec => []Inv
  BY InvInit, InvStep, PTL DEF Spec

\* Type correctness.
THEOREM TypeCorrect == Spec => []TypeOK
  <1>1. Inv => TypeOK
    BY DEF Inv
  <1> QED
    BY <1>1, Invariant, PTL

\* Whatever the order in which discoveries are installed, fresh metadata was what
\* the provider published at its age plus one timeout ago (auth.go:509-531).
THEOREM FreshIsRecent == Spec => []FreshMetadataRecent
  <1>1. Inv => FreshMetadataRecent
    BY DEF Inv, Cached, FreshMetadataRecent
  <1> QED
    BY <1>1, Invariant, PTL

-----------------------------------------------------------------------------
(* How handlers end.                                                       *)

\* The steps of one request.
Handler(r) ==
  \/ \E o \in Ops : ProviderCall(r, o)
  \/ Serve(r) \/ DiscoverFails(r) \/ Install(r)
  \/ BearerWithKeys(r) \/ BearerWithoutKeys(r) \/ BearerRereads(r)
  \/ CallbackVerifies(r) \/ CallbackExchangeFails(r)

\* A step writes down the outcome of its own request only.
LEMMA HandlerOutcome ==
  ASSUME Inv, NEW r \in Requests, Handler(r)
  PROVE  \/ outcome' = outcome
         \/ \E o \in Outcomes : outcome' = [outcome EXCEPT ![r] = o]
  <1>1. /\ \A o \in Ops, result \in {"none", "ok", "failed", "unavailable"},
              md \in Versions, k \in AnyUri : Outcome(o, result, md, k) \in Outcomes
        /\ jwks \in AnyUri /\ NoUri \in AnyUri /\ held[r] \in Versions /\ 0 \in Versions
        /\ op[r] \in Ops /\ Ops = {"ready", "login", "callback", "bearer"}
        /\ mdVer \in Versions /\ resp[r] \in Versions
    BY Times DEF Outcome, Outcomes, Inv, TypeOK, AnyUri, Versions, Ops
  <1>2. ASSUME NEW o \in Ops, NEW md \in Versions, WithMetadata(r, o, md)
        PROVE  \E out \in Outcomes : outcome' = [outcome EXCEPT ![r] = out]
    BY <1>1, <1>2 DEF WithMetadata, Respond, GoTo
  <1>3. ASSUME NEW o \in Ops, ProviderCached(r, o)
        PROVE  \E out \in Outcomes : outcome' = [outcome EXCEPT ![r] = out]
    BY <1>1, <1>2, <1>3 DEF ProviderCached
  <1>4. ASSUME Install(r)
        PROVE  \E out \in Outcomes : outcome' = [outcome EXCEPT ![r] = out]
    BY <1>1, <1>2, <1>4 DEF Install
  <1>5. ASSUME NEW o \in Ops, ProviderMiss(r, o)
        PROVE  \E out \in Outcomes : outcome' = [outcome EXCEPT ![r] = out]
    BY <1>1, <1>5 DEF ProviderMiss, GoTo
  <1>6. ASSUME \/ DiscoverFails(r) \/ BearerWithKeys(r) \/ BearerWithoutKeys(r)
               \/ BearerRereads(r) \/ CallbackVerifies(r) \/ CallbackExchangeFails(r)
        PROVE  \E out \in Outcomes : outcome' = [outcome EXCEPT ![r] = out]
    BY <1>1, <1>6 DEF DiscoverFails, BearerWithKeys, BearerWithoutKeys, BearerRereads,
                      CallbackVerifies, CallbackExchangeFails, GoTo, Respond
  <1>7. Serve(r) => outcome' = outcome
    BY DEF Serve
  <1> QED
    BY <1>3, <1>4, <1>5, <1>6, <1>7 DEF Handler, ProviderCall

\* A request that succeeds or fails otherwise than for want of metadata has
\* taken one of these steps.
LEMMA Ending ==
  ASSUME Inv, NEW r \in Requests, Next, outcome'[r] # outcome[r],
         outcome'[r].result \in {"ok", "failed"}
  PROVE  \/ outcome'[r].op \in {"ready", "login"} /\ (fresh \/ resp[r] # 0)
            /\ outcome'[r].result = "ok"
         \/ BearerWithKeys(r) \/ BearerRereads(r)
         \/ CallbackVerifies(r) \/ CallbackExchangeFails(r)
  <1>1. r \in DOMAIN outcome
    BY DEF Inv, TypeOK
  <1>2. PICK q \in Requests : Handler(q)
    BY DEF Next, Republish, Outage, Recover, Tick, Handler
  <1>3. q = r
    BY <1>1, <1>2, HandlerOutcome
  <1>4. Handler(r)
    BY <1>2, <1>3
  <1>5. ASSUME NEW o \in Ops, NEW md \in Versions, WithMetadata(r, o, md)
        PROVE  outcome'[r].op \in {"ready", "login"} /\ outcome'[r].result = "ok"
    BY <1>1, <1>5 DEF WithMetadata, Respond, GoTo, Outcome
  <1>6. ASSUME NEW o \in Ops, ProviderCached(r, o)
        PROVE  outcome'[r].op \in {"ready", "login"} /\ outcome'[r].result = "ok" /\ fresh
    BY <1>5, <1>6 DEF ProviderCached, Inv, TypeOK
  <1>7. ASSUME Install(r)
        PROVE  outcome'[r].op \in {"ready", "login"} /\ outcome'[r].result = "ok" /\ resp[r] # 0
    BY <1>5, <1>7 DEF Install, Inv, TypeOK
  <1>8. ~ \E o \in Ops : ProviderMiss(r, o)
    BY <1>1 DEF ProviderMiss, GoTo, Outcome
  <1>9. ~DiscoverFails(r) /\ ~BearerWithoutKeys(r) /\ ~Serve(r)
    BY <1>1 DEF DiscoverFails, Respond, BearerWithoutKeys, GoTo, Serve, Outcome
  <1> QED
    BY <1>4, <1>6, <1>7, <1>8, <1>9 DEF Handler, ProviderCall

\* An id token is verified with keys whose jwks_uri was published within the
\* lifetime of the cache and two timeouts (auth.go:1399-1428).
THEOREM CallbacksUseRecentKeys == Spec => CallbackKeysRecent
  <1> DEFINE Recent ==
        \A r \in Requests :
          Responds(r, "callback") /\ Mode = "oidc" =>
            \E v \in 1 .. version :
              /\ outcome'[r].keys = JWKSURI(v)
              /\ superseded[v] < CacheTTL + Timeout + Timeout
  <1>1. Inv /\ [Next]_vars => [Recent]_vars
    <2> SUFFICES ASSUME Inv, Next, NEW r \in Requests, Responds(r, "callback"), Mode = "oidc"
                 PROVE  \E v \in 1 .. version :
                          /\ outcome'[r].keys = JWKSURI(v)
                          /\ superseded[v] < CacheTTL + Timeout + Timeout
      BY DEF Recent
    <2>1. r \in DOMAIN outcome
      BY DEF Inv, TypeOK
    <2>2. CallbackVerifies(r) /\ outcome'[r].keys = jwks
      <3>1. CASE BearerWithKeys(r) \/ BearerRereads(r) \/ CallbackExchangeFails(r)
        BY <2>1, <3>1 DEF BearerWithKeys, BearerRereads, CallbackExchangeFails,
                          Respond, Outcome, Responds
      <3>2. CASE CallbackVerifies(r)
        BY <2>1, <3>2 DEF CallbackVerifies, Respond, Outcome, Responds
      <3> QED
        BY <3>1, <3>2, Ending DEF Responds
    <2>3. PICK v \in 1 .. version : /\ jwks = JWKSURI(v)
                                    /\ superseded[v] < CacheTTL + Timeout + age[r]
      BY <2>2 DEF CallbackVerifies, Inv, RequestInv
    <2>4. superseded[v] \in Nat /\ age[r] \in 0 .. Timeout
      <3>1. v \in Versions
        BY Times DEF Inv, TypeOK, Versions
      <3> QED
        BY <3>1, Times DEF Inv, TypeOK
    <2>5. superseded[v] < CacheTTL + Timeout + Timeout
      BY <2>3, <2>4, Times
    <2> QED
      BY <2>2, <2>3, <2>5
  <1>2. Spec => [][Recent]_vars
    BY <1>1, Invariant, PTL DEF Spec
  <1> QED
    BY <1>2 DEF CallbackKeysRecent

\* /readyz answers 200 only within the lifetime of the cache and a timeout of the
\* provider being reached (auth.go:490-507).
THEOREM ReadyIsRecent == Spec => ReadyMeansReachedRecently
  <1> DEFINE Reached ==
        \A r \in Requests : Responds(r, "ready") => darkFor < CacheTTL + Timeout
  <1>1. Inv /\ [Next]_vars => [Reached]_vars
    <2> SUFFICES ASSUME Inv, Next, NEW r \in Requests, Responds(r, "ready")
                 PROVE  darkFor < CacheTTL + Timeout
      BY DEF Reached
    <2>1. fresh \/ resp[r] # 0
      <3>1. r \in DOMAIN outcome
        BY DEF Inv, TypeOK
      <3>2. ~BearerWithKeys(r) /\ ~BearerRereads(r) /\ ~CallbackVerifies(r)
            /\ ~CallbackExchangeFails(r)
        BY <3>1 DEF BearerWithKeys, BearerRereads, CallbackVerifies,
                    CallbackExchangeFails, Respond, Outcome, Responds
      <3> QED
        BY <3>2, Ending DEF Responds
    <2>2. darkFor \in Nat /\ age[r] \in 0 .. Timeout /\ mdAge \in Nat
      BY Times DEF Inv, TypeOK
    <2>3. CASE fresh
      BY <2>2, <2>3, Times DEF Inv, Cached, fresh
    <2>4. CASE resp[r] # 0
      BY <2>2, <2>4, Times DEF Inv, RequestInv
    <2> QED
      BY <2>1, <2>3, <2>4
  <1>2. Spec => [][Reached]_vars
    BY <1>1, Invariant, PTL DEF Spec
  <1> QED
    BY <1>2 DEF ReadyMeansReachedRecently

\* A bearer request that asked for metadata is told that there are no keys only
\* if a document of the provider names none (auth.go:1768-1786).
THEOREM KeysComeWithMetadata == Spec => KeysFoundAfterDiscovery
  <1> DEFINE Found ==
        \A r \in Requests :
          /\ outcome'[r] # outcome[r]
          /\ outcome'[r].op = "bearer" /\ outcome'[r].result = "failed"
          => \E v \in 1 .. version : JWKSURI(v) = NoUri
  <1>1. Inv /\ [Next]_vars => [Found]_vars
    <2> SUFFICES ASSUME Inv, Next, NEW r \in Requests, outcome'[r] # outcome[r],
                        outcome'[r].op = "bearer", outcome'[r].result = "failed"
                 PROVE  \E v \in 1 .. version : JWKSURI(v) = NoUri
      BY DEF Found
    <2>1. r \in DOMAIN outcome
      BY DEF Inv, TypeOK
    <2>2. BearerRereads(r) /\ jwks = NoUri
      <3>1. CASE BearerWithKeys(r) \/ CallbackVerifies(r) \/ CallbackExchangeFails(r)
        BY <2>1, <3>1 DEF BearerWithKeys, CallbackVerifies, CallbackExchangeFails,
                          Respond, Outcome
      <3>2. CASE BearerRereads(r)
        BY <2>1, <3>2 DEF BearerRereads, Respond, Outcome
      <3> QED
        BY <3>1, <3>2, Ending
    <2>3. mdVer # 0 /\ JWKSURI(mdVer) = NoUri
      BY <2>2 DEF BearerRereads, Inv, RequestInv, Cached
    <2>4. mdVer \in 1 .. version
      BY <2>3, Times DEF Inv, TypeOK, Cached, Versions
    <2> QED
      BY <2>3, <2>4
  <1>2. Spec => [][Found]_vars
    BY <1>1, Invariant, PTL DEF Spec
  <1> QED
    BY <1>2 DEF KeysFoundAfterDiscovery
=============================================================================
