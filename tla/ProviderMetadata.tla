-------------------------- MODULE ProviderMetadata --------------------------
(***************************************************************************)
(* The metadata of the identity provider, which AuthManager discovers and  *)
(* keeps for providerCacheTTL, and the key cache that goes with it:        *)
(* provider(), discover(), Ready() and the readers of a.jwks in            *)
(* src/internal/service/auth.go.                                           *)
(*                                                                         *)
(* provider() tests the cache under a.mu, discovers with a.mu released and *)
(* installs under a.mu again.  Nothing throttles discovery, so concurrent  *)
(* requests may discover at once and install in any order.  A request that *)
(* got metadata goes on to read a.jwks in a later critical section.        *)
(*                                                                         *)
(* A discovery document is a version, 1 .. MaxVersion; uri[v] is its       *)
(* jwks_uri.  Only that field of it is told apart.  OAUTH_DISCOVERY_URL or *)
(* OAUTH_ISSUER is configured; without them discover() asks nobody.        *)
(***************************************************************************)
EXTENDS Naturals

CONSTANTS Requests,     \* concurrent requests
          Uris,         \* the jwks_uri values a provider may publish
          NoUri,        \* "": no jwks_uri; also a.jwks = nil
          Mode,         \* "oidc" or "oauth2": cfg.Mode
          JWKSURL,      \* cfg.JWKSURL, NoUri when not configured
          CacheTTL,     \* providerCacheTTL, in ticks
          Timeout,      \* the client's Timeout, in ticks
          MaxVersion    \* bound: the number of discovery documents

ASSUME MetadataAssumption ==
  /\ CacheTTL \in Nat \ {0}
  /\ Timeout \in Nat
  /\ MaxVersion \in Nat \ {0}
  /\ NoUri \notin Uris
  /\ Mode \in {"oidc", "oauth2"}
  /\ JWKSURL \in Uris \union {NoUri}

VARIABLES uri,         \* uri[v]: the jwks_uri of the v-th discovery document
          version,     \* the document the provider publishes now
          superseded,  \* superseded[v]: age of the change that replaced v
          reachable,   \* whether the provider can be reached
          darkFor,     \* ticks the provider has been out of reach
          mdVer,       \* a.metadata: its version, 0: zero value
          mdAge,       \* age of a.metadataAt, CacheTTL when expired or zero
          jwks,        \* the url of a.jwks, NoUri: nil
          pc, op,      \* where a request is, and which handler it runs
          age,         \* age of the provider request it waits for
          resp,        \* the version the provider answered with, 0: none yet
          held,        \* the version provider() returned to a callback
          outcome      \* what the latest handler of the request came to

providerVars == <<uri, version, superseded, reachable, darkFor>>
managerVars  == <<mdVer, mdAge, jwks>>
callVars     == <<pc, op, age, resp, held>>
vars == <<uri, version, superseded, reachable, darkFor, mdVer, mdAge, jwks,
          pc, op, age, resp, held, outcome>>

Versions == 0 .. MaxVersion
AnyUri   == Uris \union {NoUri}
Horizon  == CacheTTL + Timeout + Timeout     \* ages past this are merely old
Ops      == {"ready", "login", "callback", "bearer"}

\* keys: the url of the key cache a token was verified with; md: the metadata
\* version the handler used, 0: none.
Outcomes == [op : Ops, result : {"none", "ok", "unavailable", "failed"},
             md : Versions, keys : AnyUri]
Outcome(o, result, md, keys) ==
  [op |-> o, result |-> result, md |-> md, keys |-> keys]

\* discover() prefers the configured url and insists on one in oidc mode.
JWKSURI(v) == IF JWKSURL # NoUri THEN JWKSURL ELSE uri[v]
Usable(v)  == Mode = "oidc" => JWKSURI(v) # NoUri

TypeOK ==
  /\ uri \in [Versions -> AnyUri]
  /\ version \in 1 .. MaxVersion
  /\ superseded \in [Versions -> 0 .. Horizon]
  /\ reachable \in BOOLEAN
  /\ darkFor \in 0 .. Horizon
  /\ mdVer \in Versions
  /\ mdAge \in 0 .. CacheTTL
  /\ jwks \in AnyUri
  /\ pc \in [Requests -> {"idle", "noKeys", "discovering", "exchanging", "rereading"}]
  /\ op \in [Requests -> Ops]
  /\ age \in [Requests -> 0 .. Timeout]
  /\ resp \in [Requests -> Versions]
  /\ held \in [Requests -> Versions]
  /\ outcome \in [Requests -> Outcomes]

Init ==
  /\ \E u \in AnyUri : uri = [v \in Versions |-> IF v = 1 THEN u ELSE NoUri]
  /\ version = 1
  /\ superseded = [v \in Versions |-> 0]
  /\ reachable = TRUE
  /\ darkFor = 0
  /\ mdVer = 0
  /\ mdAge = CacheTTL
  /\ jwks = NoUri
  /\ pc = [r \in Requests |-> "idle"]
  /\ op = [r \in Requests |-> "ready"]
  /\ age = [r \in Requests |-> 0]
  /\ resp = [r \in Requests |-> 0]
  /\ held = [r \in Requests |-> 0]
  /\ outcome = [r \in Requests |-> Outcome("ready", "none", 0, NoUri)]

----------------------------------------------------------------------------
freshForever == mdVer # 0                 \* mutant: no TTL
fresh        == mdVer # 0 /\ mdAge < CacheTTL

\* The handler responds: the request's own state is dead.
Respond(r, o) ==
  /\ pc' = [pc EXCEPT ![r] = "idle"]
  /\ op' = [op EXCEPT ![r] = "ready"]
  /\ age' = [age EXCEPT ![r] = 0]
  /\ resp' = [resp EXCEPT ![r] = 0]
  /\ held' = [held EXCEPT ![r] = 0]
  /\ outcome' = [outcome EXCEPT ![r] = o]

GoTo(r, label, o, md) ==
  /\ pc' = [pc EXCEPT ![r] = label]
  /\ op' = [op EXCEPT ![r] = o]
  /\ age' = [age EXCEPT ![r] = 0]
  /\ resp' = [resp EXCEPT ![r] = 0]
  /\ held' = [held EXCEPT ![r] = md]
  /\ outcome' = [outcome EXCEPT ![r] = Outcome("ready", "none", 0, NoUri)]

\* What a handler does once provider() returned the metadata of version md:
\* /readyz answers 200, a login (or a logout, or /auth/config) uses it and
\* responds, a callback redeems the code, a bearer request reads a.jwks again.
WithMetadata(r, o, md) ==
  \/ /\ o \in {"ready", "login"}
     /\ Respond(r, Outcome(o, "ok", md, NoUri))
  \/ /\ o = "callback"
     /\ GoTo(r, "exchanging", o, md)
  \/ /\ o = "bearer"
     /\ GoTo(r, "rereading", o, md)

\* A handler calls provider(); a bearer request only when it found no key cache.
Calls(r, o) == IF o = "bearer" THEN pc[r] = "noKeys" ELSE pc[r] = "idle"

\* provider(): the cached metadata is fresh.
ProviderCached(r, o) ==
  /\ Calls(r, o)
  /\ fresh
  /\ WithMetadata(r, o, mdVer)
  /\ UNCHANGED <<providerVars, managerVars>>

\* provider(): it is not; release the mutex and discover.
ProviderMiss(r, o) ==
  /\ Calls(r, o)
  /\ ~fresh
  /\ GoTo(r, "discovering", o, 0)
  /\ UNCHANGED <<providerVars, managerVars>>

\* The provider answers the discovery request with its present document.
Serve(r) ==
  /\ pc[r] = "discovering"
  /\ resp[r] = 0
  /\ reachable
  /\ resp' = [resp EXCEPT ![r] = version]
  /\ UNCHANGED <<providerVars, managerVars, pc, op, age, held, outcome>>

\* Mutant: a failed discovery prolongs the cached metadata.
DiscoverFailsProlongs(r) ==
  /\ pc[r] = "discovering"
  /\ Respond(r, Outcome(op[r], "unavailable", 0, NoUri))
  /\ mdAge' = 0
  /\ UNCHANGED <<providerVars, mdVer, jwks>>

\* Unreachable, timed out, not 200, unreadable, another issuer, an endpoint
\* missing or malformed: the handler fails and the cache is left as it is.
DiscoverFails(r) ==
  /\ pc[r] = "discovering"
  /\ Respond(r, Outcome(op[r], "unavailable", 0, NoUri))
  /\ UNCHANGED <<providerVars, managerVars>>

\* The url of a.jwks once the metadata of version v is installed: a new key
\* cache if its jwks_uri moved.
KeysOnce(v)      == IF jwks = NoUri THEN JWKSURI(v) ELSE jwks      \* mutants: only the
KeysOnlyMoved(v) == IF jwks # NoUri THEN JWKSURI(v) ELSE jwks      \* first, never the first
Keys(v)          == IF JWKSURI(v) # NoUri THEN JWKSURI(v) ELSE jwks

\* Take the mutex, install the metadata and the key cache that goes with it.
Install(r) ==
  /\ pc[r] = "discovering"
  /\ resp[r] # 0
  /\ Usable(resp[r])
  /\ mdVer' = resp[r]
  /\ mdAge' = 0
  /\ jwks' = Keys(resp[r])
  /\ WithMetadata(r, op[r], resp[r])
  /\ UNCHANGED providerVars

----------------------------------------------------------------------------
\* verifyBearer: with a key cache at hand the metadata is not looked at.
BearerWithKeys(r) ==
  /\ pc[r] = "idle"
  /\ jwks # NoUri
  /\ Respond(r, Outcome("bearer", "ok", 0, jwks))
  /\ UNCHANGED <<providerVars, managerVars>>

BearerWithoutKeys(r) ==
  /\ pc[r] = "idle"
  /\ jwks = NoUri
  /\ GoTo(r, "noKeys", "bearer", 0)
  /\ UNCHANGED <<providerVars, managerVars>>

\* It called provider() and reads a.jwks a second time.
BearerRereads(r) ==
  /\ pc[r] = "rereading"
  /\ Respond(r, IF jwks # NoUri THEN Outcome("bearer", "ok", held[r], jwks)
                                ELSE Outcome("bearer", "failed", held[r], NoUri))
  /\ UNCHANGED <<providerVars, managerVars>>

\* The code was redeemed: the id token is verified with the issuer of the
\* metadata at hand and the keys a.jwks points to by now.
CallbackVerifies(r) ==
  /\ pc[r] = "exchanging"
  /\ Respond(r, IF jwks # NoUri THEN Outcome("callback", "ok", held[r], jwks)
                                ELSE Outcome("callback", "failed", held[r], NoUri))
  /\ UNCHANGED <<providerVars, managerVars>>

CallbackExchangeFails(r) ==
  /\ pc[r] = "exchanging"
  /\ Respond(r, Outcome("callback", "failed", held[r], NoUri))
  /\ UNCHANGED <<providerVars, managerVars>>

----------------------------------------------------------------------------
\* The provider moves its keys or otherwise changes its discovery document.
Republish(u) ==
  /\ version < MaxVersion
  /\ version' = version + 1
  /\ uri' = [uri EXCEPT ![version + 1] = u]
  /\ UNCHANGED <<superseded, reachable, darkFor, managerVars, callVars, outcome>>

Outage ==
  /\ reachable
  /\ reachable' = FALSE
  /\ UNCHANGED <<uri, version, superseded, darkFor, managerVars, callVars, outcome>>

Recover ==
  /\ ~reachable
  /\ reachable' = TRUE
  /\ darkFor' = 0
  /\ UNCHANGED <<uri, version, superseded, managerVars, callVars, outcome>>

Older(a, cap) == IF a < cap THEN a + 1 ELSE cap
Waiting(r)    == pc[r] \in {"discovering", "exchanging"}

\* Time passes, but not beyond the client's timeout of a provider request.
Tick ==
  /\ \A r \in Requests : Waiting(r) => age[r] < Timeout
  /\ superseded' = [v \in Versions |-> IF v \in 1 .. version - 1
                                         THEN Older(superseded[v], Horizon)
                                         ELSE 0]
  /\ darkFor' = IF reachable THEN 0 ELSE Older(darkFor, Horizon)
  /\ mdAge' = Older(mdAge, CacheTTL)
  /\ age' = [r \in Requests |-> IF Waiting(r) THEN age[r] + 1 ELSE 0]
  /\ UNCHANGED <<uri, version, reachable, mdVer, jwks, pc, op, resp, held, outcome>>

ProviderCall(r, o) == ProviderCached(r, o) \/ ProviderMiss(r, o)

Next ==
  \/ \E r \in Requests :
       \/ \E o \in Ops : ProviderCall(r, o)
       \/ Serve(r)
       \/ DiscoverFails(r)
       \/ Install(r)
       \/ BearerWithKeys(r)
       \/ BearerWithoutKeys(r)
       \/ BearerRereads(r)
       \/ CallbackVerifies(r)
       \/ CallbackExchangeFails(r)
  \/ \E u \in AnyUri : Republish(u)
  \/ Outage
  \/ Recover
  \/ Tick

Spec == Init /\ [][Next]_vars

\* Logins (or probes) keep arriving at every worker, handlers run on, the clock
\* runs, and a provider within reach does not fail every discovery.
FairSpec ==
  /\ Spec
  /\ WF_vars(Tick)
  /\ \A r \in Requests :
       /\ WF_vars(ProviderCall(r, "login"))
       /\ WF_vars(ProviderCall(r, "bearer"))
       /\ WF_vars(BearerRereads(r))
       /\ WF_vars(CallbackVerifies(r))
       /\ WF_vars(DiscoverFails(r) /\ ~reachable)
       /\ SF_vars(Serve(r))
       /\ SF_vars(Install(r))

----------------------------------------------------------------------------
(***************************************************************************)
(* Properties.  A handler that responds shows as a change of outcome[r].   *)
(***************************************************************************)
Responds(r, o) ==
  outcome'[r] # outcome[r] /\ outcome'[r].op = o /\ outcome'[r].result = "ok"

\* Discoveries may be installed in any order, so that old metadata can replace
\* newer metadata and count as fresh from then on.  Still, fresh metadata was
\* what the provider published at its age plus one timeout ago.
FreshMetadataRecent == fresh => superseded[mdVer] <= mdAge + Timeout

\* A callback verifies the id token with keys of a jwks_uri that the provider
\* published no longer ago than the cache allows, though it reads a.jwks after
\* provider() returned and the exchange took place.
CallbackKeysRecent ==
  [][\A r \in Requests :
       Responds(r, "callback") /\ Mode = "oidc" =>
         \E v \in 1 .. version :
           /\ outcome'[r].keys = JWKSURI(v)
           /\ superseded[v] < CacheTTL + Timeout + Timeout]_vars

\* /readyz answers 200 only if the provider was within reach less than
\* providerCacheTTL and a timeout ago.
ReadyMeansReachedRecently ==
  [][\A r \in Requests :
       Responds(r, "ready") => darkFor < CacheTTL + Timeout]_vars

\* A bearer request that has to ask for metadata is not told that no keys are
\* configured, when the provider's documents name them.
KeysFoundAfterDiscovery ==
  [][\A r \in Requests :
       /\ outcome'[r] # outcome[r]
       /\ outcome'[r].op = "bearer" /\ outcome'[r].result = "failed"
       => \E v \in 1 .. version : JWKSURI(v) = NoUri]_vars

\* When the provider stays within reach and no longer moves its keys, tokens
\* end up being verified with the keys at its present jwks_uri.
KeysCatchUp ==
  <>[]reachable => <>[](JWKSURI(version) # NoUri => jwks = JWKSURI(version))
=============================================================================
