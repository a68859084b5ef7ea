----------------------------- MODULE BearerAuth -----------------------------
(***************************************************************************)
(* Requests with a bearer token: principalFromBearer(), verifyBearer() and *)
(* introspect() of auth.go, and verifyJWT() of jwt.go.                     *)
(*                                                                         *)
(* A JWT is verified with a key that is looked up by its kid, perhaps      *)
(* after asking the provider for its metadata; an opaque token is          *)
(* introspected.  Either takes time, in which tokens expire or are         *)
(* revoked and the provider rotates its keys.                              *)
(*                                                                         *)
(* A lookup may be answered from any document the provider has published:  *)
(* which one the cache holds is the business of JwksCache, and nothing is  *)
(* assumed here of its timing, nor that a later lookup uses a later one (a *)
(* slow fetch, or a cache that provider() replaces, may go back).  Who the *)
(* claims stand for is decided by TokenPolicy.  A token is a record:       *)
(*   form "jwt":    sound (three parts, a supported algorithm), kid, the   *)
(*                  signer whose key the signature verifies with, iss (the *)
(*                  issuer it names, in either form issuerMatches takes)   *)
(*   form "opaque": relative: the endpoint answers expires_in, not exp     *)
(* both with exp, nbf, iat (0: absent) and claims.                         *)
(***************************************************************************)
EXTENDS TokenPolicy, FiniteSets

CONSTANTS Requests,         \* the requests that are followed
          Tokens,           \* the tokens they may carry
          Kids, NoKid,      \* key ids, and a key or token without one
          NoIssuer,         \* ""
          IssuerURLs,       \* what cfg.IssuerURL may be, NoIssuer among it
          ProviderIssuer,   \* the issuer of the discovered metadata
          Introspection,    \* cfg.IntrospectionURL is set
          Skew,             \* jwtClockSkew, in ticks
          IssuedAhead,      \* 5 minutes, in ticks
          Timeout,          \* the client's timeout, in ticks
          MaxRevoked,       \* bound: tokens revoked
          MaxVersion,       \* bound: key documents of the provider
          MaxTime           \* bound: the clock, which starts at 1

ASSUME BearerAssumption ==
  /\ {Skew, IssuedAhead, Timeout, MaxRevoked, MaxTime} \subseteq Nat
  /\ MaxVersion \in Nat \ {0} /\ MaxTime > 0
  /\ NoKid \notin Kids /\ IsFiniteSet(Kids) /\ IssuerURLs # {}
  /\ Introspection \in BOOLEAN
  /\ \A t \in Tokens : /\ t.form \in {"jwt", "opaque"}
                       /\ {t.exp, t.nbf, t.iat} \subseteq Nat

VARIABLES docs,       \* docs[v]: the kids of the provider's v-th document
          version,    \* the latest document the provider published
          used,       \* the document the latest lookup was answered from, 0: none
          IssuerURL,  \* cfg.IssuerURL, or NoIssuer
          now,        \* the clock
          revoked,    \* tokens the provider revoked
          keysSet,    \* a.jwks is not nil
          pc,         \* where a request is
          token,      \* the token it carries
          issuer,     \* the issuer it compares with
          age,        \* how long it has waited for the provider
          reply,      \* the endpoint's reply, once it is on its way
          outcome,    \* what the latest request came to
          began,      \* history: when the request arrived
          wasRevoked, \* history: its token was revoked by then
          foundKeys   \* history: a.jwks was set by then

keyVars  == <<docs, version, used, IssuerURL>>
callVars == <<pc, token, issuer, age, reply, began, wasRevoked, foundKeys>>
vars     == <<docs, version, used, IssuerURL, now, revoked, keysSet, pc, token,
              issuer, age, reply, outcome, began, wasRevoked, foundKeys>>

NoToken == [form |-> "none"]
NoReply == [active |-> FALSE, left |-> 0]
Results == {"none", "accepted", "refused", "failed"}

TypeOK ==
  /\ docs \in [0 .. MaxVersion -> SUBSET (Kids \union {NoKid})]
  /\ version \in 1 .. MaxVersion /\ used \in 0 .. version
  /\ IssuerURL \in IssuerURLs
  /\ now \in 1 .. MaxTime
  /\ revoked \subseteq Tokens
  /\ keysSet \in BOOLEAN
  /\ pc \in [Requests -> {"idle", "provider", "lookup", "introspect", "replied"}]
  /\ token \in [Requests -> Tokens \union {NoToken}]
  /\ issuer \in [Requests -> {NoIssuer, IssuerURL, ProviderIssuer}]
  /\ age \in [Requests -> 0 .. Timeout]
  /\ \A r \in Requests : reply[r].active \in BOOLEAN /\ reply[r].left \in Nat
  /\ outcome \in [Requests -> Results]
  /\ began \in [Requests -> 0 .. now]
  /\ {wasRevoked, foundKeys} \subseteq [Requests -> BOOLEAN]
  /\ \A r \in Requests : pc[r] = "idle" <=> token[r] = NoToken

Init ==
  /\ docs \in {[v \in 0 .. MaxVersion |-> IF v = 1 THEN d ELSE {}] :
                 d \in SUBSET (Kids \union {NoKid})}
  /\ version = 1 /\ used = 0
  /\ IssuerURL \in IssuerURLs
  /\ now = 1
  /\ revoked = {}
  /\ keysSet = FALSE
  /\ pc = [r \in Requests |-> "idle"]
  /\ token = [r \in Requests |-> NoToken]
  /\ issuer = [r \in Requests |-> NoIssuer]
  /\ age = [r \in Requests |-> 0]
  /\ reply = [r \in Requests |-> NoReply]
  /\ outcome = [r \in Requests |-> "none"]
  /\ began = [r \in Requests |-> 0]
  /\ wasRevoked = [r \in Requests |-> FALSE]
  /\ foundKeys = [r \in Requests |-> FALSE]

-----------------------------------------------------------------------------
\* The request ends; what it held is dead.
Respond(r, result) ==
  /\ outcome' = [outcome EXCEPT ![r] = result]
  /\ pc' = [pc EXCEPT ![r] = "idle"]
  /\ token' = [token EXCEPT ![r] = NoToken]
  /\ issuer' = [issuer EXCEPT ![r] = NoIssuer]
  /\ age' = [age EXCEPT ![r] = 0]
  /\ reply' = [reply EXCEPT ![r] = NoReply]
  /\ began' = [began EXCEPT ![r] = 0]
  /\ wasRevoked' = [wasRevoked EXCEPT ![r] = FALSE]
  /\ foundKeys' = [foundKeys EXCEPT ![r] = FALSE]

\* The checks of the claims' times at moment m.
LifetimeTooStrict(t, exp, m) ==      \* mutant: the skew is taken off exp
  /\ exp # 0 /\ m + Skew <= exp
  /\ t.nbf = 0 \/ t.nbf <= m + Skew

Lifetime(t, exp, m) ==
  /\ exp # 0 /\ m <= exp + Skew
  /\ t.nbf = 0 \/ t.nbf <= m + Skew

\* The keys a lookup of kid k may be answered with from document v.  Without a
\* kid, the only key of a document will do.
KeysFor(k, v) ==
  IF k \in docs[v] THEN {k}
  ELSE IF k = NoKid /\ Cardinality(docs[v]) = 1 THEN docs[v] ELSE {}

\* verifyJWT after the lookup gave a key, at moment m; a verified token still has to
\* stand for somebody.
verifyJWT(t, key, iss, m) ==
  /\ t.signer = key
  /\ Lifetime(t, t.exp, m)
  /\ t.iat <= m + IssuedAhead
  /\ iss = NoIssuer \/ t.iss = iss
  /\ principalFromBearer(t.claims) # Rejected

\* claims(): exp, or expires_in counted from the moment the reply is read.
expiresAt(t, left) ==
  IF ~t.relative THEN t.exp ELSE IF left > 0 THEN now + left ELSE 0

introspectedIgnoringActive(t, rep) ==   \* mutant: active is not looked at
  /\ Lifetime(t, expiresAt(t, rep.left), now)
  /\ principalFromBearer(t.claims) # Rejected

introspected(t, rep) ==
  /\ rep.active
  /\ Lifetime(t, expiresAt(t, rep.left), now)
  /\ principalFromBearer(t.claims) # Rejected

-----------------------------------------------------------------------------
\* Mutant: only a request that asks for the metadata compares issuers.
IssuerOfMetadata(asked) ==
  IF asked THEN IF IssuerURL # NoIssuer THEN IssuerURL ELSE ProviderIssuer
  ELSE NoIssuer

\* verifyBearer: an issuer that is configured is compared with in any case;
\* the discovered one only by a request that had to ask for the metadata.
Issuer(asked) ==
  IF IssuerURL # NoIssuer THEN IssuerURL
  ELSE IF asked THEN ProviderIssuer ELSE NoIssuer

Wait(r, t, label, iss) ==
  /\ pc' = [pc EXCEPT ![r] = label]
  /\ token' = [token EXCEPT ![r] = t]
  /\ issuer' = [issuer EXCEPT ![r] = iss]
  /\ age' = [age EXCEPT ![r] = 0]
  /\ outcome' = [outcome EXCEPT ![r] = "none"]
  /\ UNCHANGED reply

\* A request arrives.  Without a key cache it asks for the metadata first; an
\* opaque token needs an introspection endpoint.
Arrive(r, t) ==
  /\ AuthEnabled
  /\ pc[r] = "idle"
  /\ began' = [began EXCEPT ![r] = now]
  /\ wasRevoked' = [wasRevoked EXCEPT ![r] = t \in revoked]
  /\ foundKeys' = [foundKeys EXCEPT ![r] = keysSet]
  /\ \/ t.form = "jwt" /\ keysSet /\ t.sound /\ Wait(r, t, "lookup", Issuer(FALSE))
     \/ t.form = "jwt" /\ ~keysSet /\ Wait(r, t, "provider", NoIssuer)
     \/ t.form = "opaque" /\ Introspection /\ Wait(r, t, "introspect", NoIssuer)
  /\ UNCHANGED <<keyVars, now, revoked, keysSet>>

\* Refused at once: nothing to look up, or nobody to ask.
ArriveRefused(r, t) ==
  /\ pc[r] = "idle"
  /\ \/ ~AuthEnabled
     \/ t.form = "jwt" /\ keysSet /\ ~t.sound
     \/ t.form = "opaque" /\ ~Introspection
  /\ outcome' = [outcome EXCEPT ![r] = "refused"]
  /\ UNCHANGED <<keyVars, now, revoked, keysSet, callVars>>

\* provider() returned: the key cache is set by now.
ProviderAnswers(r) ==
  /\ pc[r] = "provider"
  /\ keysSet' = TRUE
  /\ IF token[r].sound
     THEN Wait(r, token[r], "lookup", Issuer(TRUE)) /\ UNCHANGED <<began, wasRevoked, foundKeys>>
     ELSE Respond(r, "refused")
  /\ UNCHANGED <<keyVars, now, revoked>>

ProviderFails(r) ==
  /\ pc[r] = "provider"
  /\ Respond(r, "failed")
  /\ UNCHANGED <<keyVars, now, revoked, keysSet>>

\* Mutant: the time is taken before the key is looked up.
KeyAnsweredLate(r) ==
  /\ pc[r] = "lookup"
  /\ used' \in 0 .. version
  /\ \E key \in KeysFor(token[r].kid, used') :
       Respond(r, IF verifyJWT(token[r], key, issuer[r], began[r])
                  THEN "accepted" ELSE "refused")
  /\ UNCHANGED <<docs, version, IssuerURL, now, revoked, keysSet>>

\* keys.key() returns a key and the token is verified, by the clock as it is now.
KeyAnswered(r) ==
  /\ pc[r] = "lookup"
  /\ used' \in 0 .. version
  /\ \E key \in KeysFor(token[r].kid, used') :
       Respond(r, IF verifyJWT(token[r], key, issuer[r], now)
                  THEN "accepted" ELSE "refused")
  /\ UNCHANGED <<docs, version, IssuerURL, now, revoked, keysSet>>

\* errUnknownSigningKey: the document has no key for the kid, or was not fetched
\* for this lookup and has no key without a kid.
KeyUnknown(r) ==
  /\ pc[r] = "lookup"
  /\ used' \in 0 .. version
  /\ used' = 0 \/ docs[used'] # {}
  /\ token[r].kid \notin docs[used']
  /\ Respond(r, "refused")
  /\ UNCHANGED <<docs, version, IssuerURL, now, revoked, keysSet>>

\* The provider was asked and gave no usable document.
KeyFails(r) ==
  /\ pc[r] = "lookup"
  /\ Respond(r, "failed")
  /\ UNCHANGED <<keyVars, now, revoked, keysSet>>

\* The endpoint replies: not active (or an error) for a revoked token.
Introspect(r) ==
  /\ pc[r] = "introspect"
  /\ pc' = [pc EXCEPT ![r] = "replied"]
  /\ LET t == token[r]
         left == IF t.exp > now THEN t.exp - now ELSE 0
     IN  reply' = [reply EXCEPT ![r] = [active |-> t \notin revoked, left |-> left]]
  /\ UNCHANGED <<keyVars, now, revoked, keysSet, token, issuer, age, outcome,
                 began, wasRevoked, foundKeys>>

IntrospectionReturns(r) ==
  /\ pc[r] = "replied"
  /\ Respond(r, IF introspected(token[r], reply[r]) THEN "accepted" ELSE "refused")
  /\ UNCHANGED <<keyVars, now, revoked, keysSet>>

\* Not reached, timed out, an error status or an unreadable body.
IntrospectionFails(r) ==
  /\ pc[r] \in {"introspect", "replied"}
  /\ Respond(r, "failed")
  /\ UNCHANGED <<keyVars, now, revoked, keysSet>>

-----------------------------------------------------------------------------
\* A JWT is verified here and now: the provider's view of it is not asked for.
Revoke(t) ==
  /\ t.form = "opaque" /\ t \notin revoked
  /\ Cardinality(revoked) < MaxRevoked
  /\ revoked' = revoked \union {t}
  /\ UNCHANGED <<keyVars, now, keysSet, callVars, outcome>>

Rotate ==
  /\ version < MaxVersion
  /\ version' = version + 1
  /\ \E d \in SUBSET (Kids \union {NoKid}) : docs' = [docs EXCEPT ![version + 1] = d]
  /\ UNCHANGED <<used, IssuerURL, now, revoked, keysSet, callVars, outcome>>

\* A login, a probe or another bearer request has made the key cache.
Elsewhere ==
  /\ ~keysSet /\ keysSet' = TRUE
  /\ UNCHANGED <<keyVars, now, revoked, callVars, outcome>>

\* Time passes, but not beyond the client's timeout.
Tick ==
  /\ now < MaxTime
  /\ \A r \in Requests : pc[r] # "idle" => age[r] < Timeout
  /\ now' = now + 1
  /\ age' = [r \in Requests |-> IF pc[r] # "idle" THEN age[r] + 1 ELSE 0]
  /\ UNCHANGED <<keyVars, revoked, keysSet, pc, token, issuer, reply, outcome,
                 began, wasRevoked, foundKeys>>

Handler(r) ==
  \/ \E t \in Tokens : Arrive(r, t) \/ ArriveRefused(r, t)
  \/ ProviderAnswers(r) \/ ProviderFails(r)
  \/ KeyAnswered(r) \/ KeyUnknown(r) \/ KeyFails(r)
  \/ Introspect(r) \/ IntrospectionReturns(r) \/ IntrospectionFails(r)

Next ==
  \/ \E r \in Requests : Handler(r)
  \/ \E t \in Tokens : Revoke(t)
  \/ Rotate
  \/ Elsewhere
  \/ Tick

Spec == Init /\ [][Next]_vars

-----------------------------------------------------------------------------
(* Properties.  A request that ends shows as a change of outcome[r].       *)

Ends(r, result) == outcome[r] # outcome'[r] /\ outcome'[r] = result

\* A token is accepted only while it is valid, however long the key lookup or
\* the introspection took (verifyJWT, claims).  A reply that tells the
\* remaining time instead of the end may add the time the reply took.
AcceptedInTime ==
  [][\A r \in Requests : Ends(r, "accepted") =>
       LET t == token[r] IN
         /\ t.exp # 0 /\ t.nbf <= now + Skew
         /\ \/ now <= t.exp + Skew
            \/ t.form = "opaque" /\ t.relative /\ now < t.exp + Timeout]_vars

\* A JWT is accepted only by a key of a document the provider has published, all
\* of whose keys are of that one document: the key the token names, or the only
\* one there is (jwt.go:105-113).  With OAUTH_ISSUER set the token's issuer is that
\* one, on whichever path (README.md:294).  Without it, it is the discovered one,
\* if the metadata names one, unless the request found the key cache
\* (auth.go:1768-1776).
AcceptedByPublishedKey ==
  [][\A r \in Requests : Ends(r, "accepted") /\ token[r].form = "jwt" =>
       LET t == token[r] IN
         /\ used' \in 1 .. version /\ t.signer \in docs[used']
         /\ t.kid = t.signer \/ (t.kid = NoKid /\ docs[used'] = {t.signer})
         /\ IF IssuerURL # NoIssuer THEN t.iss = IssuerURL
            ELSE ProviderIssuer \in {t.iss, NoIssuer} \/ foundKeys[r]]_vars

\* An opaque token is accepted only if it was still active when the request
\* came: a revocation holds for every request that comes after it (introspect).
ActiveDuringRequest ==
  [][\A r \in Requests :
       Ends(r, "accepted") /\ token[r].form = "opaque" => ~wasRevoked[r]]_vars

\* No token is refused without a reason: not one that was valid from the arrival
\* of its request to the end, names a key of the document looked at that signed
\* it, was not revoked, comes from the right issuer and stands for somebody.
GoodTokensAccepted ==
  [][\A r \in Requests : Ends(r, "refused") /\ pc[r] # "idle" =>
       LET t == token[r] IN
         ~ /\ t.nbf <= began[r] /\ t.iat <= began[r] /\ now <= t.exp
           /\ \/ /\ t.form = "jwt" /\ t.sound
                 /\ t.iss = (IF IssuerURL # NoIssuer THEN IssuerURL ELSE ProviderIssuer)
                 /\ t.kid # NoKid /\ t.kid = t.signer /\ t.kid \in docs[used']
              \/ t.form = "opaque" /\ t \notin revoked /\ (t.relative => now < t.exp)
           /\ principalFromBearer(t.claims) # Rejected]_vars
=============================================================================
