-------------------------- MODULE BearerAuthProofs --------------------------
(***************************************************************************)
(* Theorems about BearerAuth, for every number of concurrent requests,     *)
(* every set of tokens and kids, every issuer setting, clock skew and      *)
(* timeout, and every number of rotations and revocations.                 *)
(***************************************************************************)
EXTENDS BearerAuth, FiniteSetTheorems, TLAPS

\* The requests' variables are functions on them, the provider's are typed.
Shape ==
  /\ docs \in [0 .. MaxVersion -> SUBSET (Kids \union {NoKid})] /\ docs[0] = {}
  /\ version \in 1 .. MaxVersion /\ used \in 0 .. version
  /\ IssuerURL \in IssuerURLs
  /\ now \in 1 .. MaxTime
  /\ revoked \subseteq Tokens
  /\ keysSet \in BOOLEAN
  /\ pc \in [Requests -> {"idle", "provider", "lookup", "introspect", "replied"}]
  /\ token \in [Requests -> Tokens \union {NoToken}]
  /\ issuer \in [Requests -> {NoIssuer, IssuerURL, ProviderIssuer}]
  /\ age \in [Requests -> 0 .. Timeout]
  /\ reply \in [Requests -> [active : BOOLEAN, left : Nat]]
  /\ outcome \in [Requests -> Results]
  /\ began \in [Requests -> 0 .. MaxTime]
  /\ wasRevoked \in [Requests -> BOOLEAN]
  /\ foundKeys \in [Requests -> BOOLEAN]

\* What a request knows at each stage: the issuer it compares with, whether its
\* token was revoked when it came, and how old the reply it holds may be.
RequestInv(r) ==
  /\ began[r] <= now
  /\ pc[r] = "idle" <=> token[r] = NoToken
  /\ pc[r] \in {"provider", "lookup"} => token[r].form = "jwt"
  /\ pc[r] \in {"introspect", "replied"} => token[r].form = "opaque"
  /\ pc[r] = "lookup" =>
       IF IssuerURL # NoIssuer THEN issuer[r] = IssuerURL
       ELSE issuer[r] = ProviderIssuer \/ (issuer[r] = NoIssuer /\ foundKeys[r])
  /\ wasRevoked[r] => token[r] \in revoked
  /\ pc[r] = "replied" =>
       /\ reply[r].active => ~wasRevoked[r]
       /\ ~reply[r].active => token[r] \in revoked
       /\ now < token[r].exp => reply[r].left > 0
       /\ reply[r].left > 0 => /\ now + reply[r].left <= token[r].exp + age[r]
                               /\ reply[r].left <= token[r].exp

Inv == Shape /\ \A r \in Requests : RequestInv(r)

\* The bounds are numbers.
LEMMA Bounds == /\ {Skew, IssuedAhead, Timeout, MaxTime, MaxVersion} \subseteq Nat
                /\ MaxTime >= 1 /\ MaxVersion >= 1
  BY BearerAssumption

\* A request that has a token has one of Tokens, which all have a form.
LEMMA NoTokenIsNone == NoToken \notin Tokens
  BY BearerAssumption DEF NoToken

\* Nothing is under way at first.
LEMMA InvInit == Init => Inv
  <1> SUFFICES ASSUME Init PROVE Inv
    OBVIOUS
  <1>1. Shape
    <2>1. docs \in [0 .. MaxVersion -> SUBSET (Kids \union {NoKid})] /\ docs[0] = {}
      BY Bounds DEF Init
    <2>2. version = 1 /\ used = 0 /\ IssuerURL \in IssuerURLs
      BY DEF Init
    <2>3. /\ now \in 1 .. MaxTime
          /\ version \in 1 .. MaxVersion /\ used \in 0 .. version
      <3>1. now = 1
        BY DEF Init
      <3> QED
        BY <2>2, <3>1, Bounds
    <2>6. revoked \subseteq Tokens /\ keysSet \in BOOLEAN
      BY DEF Init
    <2>4. /\ reply \in [Requests -> [active : BOOLEAN, left : Nat]]
          /\ age \in [Requests -> 0 .. Timeout] /\ began \in [Requests -> 0 .. MaxTime]
      BY Bounds DEF Init, NoReply
    <2>5. /\ pc \in [Requests -> {"idle", "provider", "lookup", "introspect", "replied"}]
          /\ token \in [Requests -> Tokens \union {NoToken}]
          /\ issuer \in [Requests -> {NoIssuer, IssuerURL, ProviderIssuer}]
          /\ outcome \in [Requests -> Results] /\ wasRevoked \in [Requests -> BOOLEAN]
          /\ foundKeys \in [Requests -> BOOLEAN]
      BY DEF Init, Results
    <2> QED
      BY <2>1, <2>2, <2>3, <2>4, <2>5, <2>6 DEF Shape
  <1>2. ASSUME NEW r \in Requests PROVE RequestInv(r)
    BY <1>2, BearerAssumption DEF Init, RequestInv
  <1> QED
    BY <1>1, <1>2 DEF Inv

\* A step that leaves everything about a request alone, and neither turns back
\* the clock nor a revocation, keeps its part of the invariant.
LEMMA Untouched ==
  ASSUME Inv, NEW r \in Requests, now' = now, revoked \subseteq revoked',
         pc'[r] = pc[r], token'[r] = token[r], issuer'[r] = issuer[r],
         age'[r] = age[r], reply'[r] = reply[r], began'[r] = began[r],
         wasRevoked'[r] = wasRevoked[r], foundKeys'[r] = foundKeys[r],
         IssuerURL' = IssuerURL
  PROVE  RequestInv(r)'
  BY DEF Inv, RequestInv

\* The end of a request.
LEMMA RespondStep ==
  ASSUME Inv, NEW r \in Requests, NEW result \in Results, Respond(r, result),
         UNCHANGED <<docs, version, IssuerURL, now, revoked>>,
         keysSet' \in BOOLEAN, used' \in 0 .. version
  PROVE  Inv'
  <1>1. Shape'
    BY BearerAssumption DEF Inv, Shape, Respond, NoReply
  <1>2. ASSUME NEW s \in Requests, s # r PROVE RequestInv(s)'
    BY <1>2, Untouched DEF Inv, Shape, Respond
  <1>3. RequestInv(r)'
    BY DEF Inv, Shape, Respond, RequestInv
  <1> QED
    BY <1>1, <1>2, <1>3 DEF Inv

\* A request arrives and waits for the first answer it needs.
LEMMA ArriveStep ==
  ASSUME Inv, NEW r \in Requests, NEW t \in Tokens, Arrive(r, t)
  PROVE  Inv'
  <1>1. PICK label \in {"provider", "lookup", "introspect"},
             iss \in {NoIssuer, IssuerURL} :
          /\ Wait(r, t, label, iss)
          /\ label \in {"provider", "lookup"} => t.form = "jwt"
          /\ label = "introspect" => t.form = "opaque"
          /\ label = "lookup" => iss = IssuerURL /\ keysSet
    BY DEF Arrive, Issuer
  <1>2. /\ pc[r] = "idle"
        /\ began' = [began EXCEPT ![r] = now]
        /\ wasRevoked' = [wasRevoked EXCEPT ![r] = t \in revoked]
        /\ foundKeys' = [foundKeys EXCEPT ![r] = keysSet]
        /\ UNCHANGED <<keyVars, now, revoked, keysSet>>
    BY DEF Arrive
  <1>3. Shape'
    BY <1>1, <1>2, BearerAssumption DEF Inv, Shape, Wait, keyVars, Results
  <1>4. ASSUME NEW s \in Requests, s # r PROVE RequestInv(s)'
    BY <1>1, <1>2, <1>4, Untouched DEF Inv, Shape, Wait, keyVars
  <1>5. RequestInv(r)'
    BY <1>1, <1>2, NoTokenIsNone DEF Inv, Shape, Wait, RequestInv, keyVars
  <1> QED
    BY <1>3, <1>4, <1>5 DEF Inv

\* The metadata came: a sound token goes on to the lookup.
LEMMA ProviderStep ==
  ASSUME Inv, NEW r \in Requests, ProviderAnswers(r)
  PROVE  Inv'
  <1>1. CASE ~token[r].sound
    BY <1>1, RespondStep DEF ProviderAnswers, Results, keyVars, Inv, Shape
  <1>2. CASE token[r].sound
    <2>1. /\ Wait(r, token[r], "lookup", Issuer(TRUE))
          /\ pc[r] = "provider"
          /\ UNCHANGED <<began, wasRevoked, foundKeys, keyVars, now, revoked>>
          /\ keysSet' = TRUE
      BY <1>2 DEF ProviderAnswers
    <2>2. Issuer(TRUE) \in {NoIssuer, IssuerURL, ProviderIssuer}
      BY DEF Issuer
    <2>3. Shape'
      <3>1. token[r] \in Tokens \union {NoToken} /\ 0 \in 0 .. Timeout
        BY Bounds DEF Inv, Shape
      <3> QED
        BY <2>1, <2>2, <3>1 DEF Inv, Shape, Wait, keyVars, Results
    <2>4. ASSUME NEW s \in Requests, s # r PROVE RequestInv(s)'
      BY <2>1, <2>4, Untouched DEF Inv, Shape, Wait, keyVars
    <2>5. RequestInv(r)'
      BY <2>1 DEF Inv, Shape, Wait, RequestInv, Issuer, keyVars
    <2> QED
      BY <2>3, <2>4, <2>5 DEF Inv
  <1> QED
    BY <1>1, <1>2

\* The endpoint's reply tells the truth of the moment it is sent.
LEMMA IntrospectStep ==
  ASSUME Inv, NEW r \in Requests, Introspect(r)
  PROVE  Inv'
  <1> DEFINE t == token[r]
             left == IF t.exp > now THEN t.exp - now ELSE 0
  <1>1. /\ pc[r] = "introspect" /\ pc' = [pc EXCEPT ![r] = "replied"]
        /\ reply' = [reply EXCEPT ![r] = [active |-> t \notin revoked, left |-> left]]
        /\ UNCHANGED <<keyVars, now, revoked, keysSet, token, issuer, age, outcome,
                       began, wasRevoked, foundKeys>>
    BY DEF Introspect
  <1>2. t \in Tokens
    BY <1>1 DEF Inv, Shape, RequestInv
  <1>3. left \in Nat /\ t.exp \in Nat /\ now \in Nat /\ age[r] \in Nat
    BY <1>2, BearerAssumption DEF Inv, Shape
  <1>4. Shape'
    BY <1>1, <1>3 DEF Inv, Shape, keyVars
  <1>5. ASSUME NEW s \in Requests, s # r PROVE RequestInv(s)'
    BY <1>1, <1>5, Untouched DEF Inv, Shape, keyVars
  <1>6. RequestInv(r)'
    <2>1. /\ pc'[r] = "replied" /\ token'[r] = t /\ now' = now /\ revoked' = revoked
          /\ reply'[r].active = (t \notin revoked) /\ reply'[r].left = left
          /\ age'[r] = age[r] /\ wasRevoked'[r] = wasRevoked[r] /\ began'[r] = began[r]
          /\ foundKeys'[r] = foundKeys[r] /\ issuer'[r] = issuer[r]
          /\ IssuerURL' = IssuerURL
      BY <1>1 DEF Inv, Shape, keyVars
    <2>2. RequestInv(r) /\ t.form = "opaque" /\ t # NoToken
      BY <1>1 DEF Inv, RequestInv
    <2>3. /\ now < t.exp => left > 0
          /\ left > 0 => now + left <= t.exp + age[r] /\ left <= t.exp
      BY <1>3
    <2> QED
      BY <2>1, <2>2, <2>3 DEF RequestInv
  <1> QED
    BY <1>4, <1>5, <1>6 DEF Inv

\* The clock, the provider and other requests.
LEMMA OtherStep ==
  ASSUME Inv,
         \/ \E t \in Tokens : Revoke(t)
         \/ \E r \in Requests, t \in Tokens : ArriveRefused(r, t)
         \/ Rotate \/ Elsewhere \/ UNCHANGED vars
  PROVE  Inv'
  <1>1. now' = now /\ revoked \subseteq revoked' /\ UNCHANGED <<callVars, IssuerURL>>
    BY DEF Revoke, ArriveRefused, Rotate, Elsewhere, vars, callVars, keyVars
  <1>2. ASSUME NEW r \in Requests PROVE RequestInv(r)'
    BY <1>1, <1>2, Untouched DEF callVars
  <1>3. Shape'
    <2>1. CASE Rotate
      <3>1. /\ version < MaxVersion /\ version' = version + 1
            /\ \E d \in SUBSET (Kids \union {NoKid}) : docs' = [docs EXCEPT ![version + 1] = d]
            /\ UNCHANGED <<used, IssuerURL, now, revoked, keysSet, callVars, outcome>>
        BY <2>1 DEF Rotate
      <3>2. version' \in 1 .. MaxVersion /\ used' \in 0 .. version'
        BY <3>1, Bounds DEF Inv, Shape
      <3>3. /\ docs' \in [0 .. MaxVersion -> SUBSET (Kids \union {NoKid})]
            /\ docs'[0] = {}
        BY <3>1, Bounds DEF Inv, Shape
      <3> QED
        BY <3>1, <3>2, <3>3 DEF Inv, Shape, callVars
    <2>2. CASE Elsewhere
      BY <2>2 DEF Inv, Shape, Elsewhere, keyVars, callVars
    <2>3. CASE \E t \in Tokens : Revoke(t)
      BY <2>3 DEF Inv, Shape, Revoke, keyVars, callVars
    <2>4. CASE \E r \in Requests, t \in Tokens : ArriveRefused(r, t)
      BY <2>4 DEF Inv, Shape, ArriveRefused, keyVars, callVars, Results
    <2>5. CASE UNCHANGED vars
      BY <2>5 DEF Inv, Shape, vars
    <2> QED
      BY <2>1, <2>2, <2>3, <2>4, <2>5
  <1> QED
    BY <1>2, <1>3 DEF Inv

\* The clock: replies grow older by as much as their requests.
LEMMA TickStep == Inv /\ Tick => Inv'
  <1> SUFFICES ASSUME Inv, Tick PROVE Inv'
    OBVIOUS
  <1>1. /\ now' = now + 1
        /\ \A r \in Requests : age'[r] = IF pc[r] # "idle" THEN age[r] + 1 ELSE 0
        /\ UNCHANGED <<revoked, pc, token, issuer, reply, began, wasRevoked,
                       foundKeys, IssuerURL>>
    BY DEF Tick, keyVars
  <1>2. Shape'
    BY BearerAssumption DEF Inv, Shape, Tick, keyVars
  <1>3. ASSUME NEW r \in Requests PROVE RequestInv(r)'
    <2>1. /\ RequestInv(r) /\ now \in Nat /\ began[r] \in Nat /\ age[r] \in Nat
          /\ reply[r].left \in Nat
          /\ pc[r] = "replied" => token[r].exp \in Nat
      BY BearerAssumption DEF Inv, Shape, RequestInv
    <2> QED
      BY <1>1, <2>1 DEF RequestInv
  <1> QED
    BY <1>2, <1>3 DEF Inv

\* The invariant is kept by every step.
LEMMA InvStep == Inv /\ [Next]_vars => Inv'
  <1> SUFFICES ASSUME Inv, [Next]_vars PROVE Inv'
    OBVIOUS
  <1>1. ASSUME NEW r \in Requests, NEW t \in Tokens, Arrive(r, t) PROVE Inv'
    BY <1>1, ArriveStep
  <1>2. ASSUME NEW r \in Requests, ProviderAnswers(r) PROVE Inv'
    BY <1>2, ProviderStep
  <1>3. ASSUME NEW r \in Requests,
               \/ ProviderFails(r) \/ IntrospectionReturns(r) \/ IntrospectionFails(r)
        PROVE  Inv'
    <2>1. \E result \in Results : Respond(r, result)
      BY <1>3 DEF ProviderFails, IntrospectionReturns, IntrospectionFails, Results
    <2>2. UNCHANGED <<keyVars, now, revoked, keysSet>>
      BY <1>3 DEF ProviderFails, IntrospectionReturns, IntrospectionFails
    <2>3. keysSet' \in BOOLEAN /\ used' \in 0 .. version
      BY <2>2 DEF Inv, Shape, keyVars
    <2> QED
      BY <2>1, <2>2, <2>3, RespondStep DEF keyVars
  <1>4. ASSUME NEW r \in Requests, KeyAnswered(r) \/ KeyUnknown(r) \/ KeyFails(r)
        PROVE  Inv'
    <2>1. \E result \in Results : Respond(r, result)
      BY <1>4 DEF KeyAnswered, KeyUnknown, KeyFails, Results
    <2>2. UNCHANGED <<docs, version, IssuerURL, now, revoked, keysSet>>
      BY <1>4 DEF KeyAnswered, KeyUnknown, KeyFails, keyVars
    <2>3. keysSet' \in BOOLEAN /\ used' \in 0 .. version
      BY <1>4, <2>2 DEF KeyAnswered, KeyUnknown, KeyFails, keyVars, Inv, Shape
    <2> QED
      BY <2>1, <2>2, <2>3, RespondStep
  <1>5. ASSUME NEW r \in Requests, Introspect(r) PROVE Inv'
    BY <1>5, IntrospectStep
  <1>6. CASE \/ \E t \in Tokens : Revoke(t)
             \/ \E r \in Requests, t \in Tokens : ArriveRefused(r, t)
             \/ Rotate \/ Elsewhere \/ UNCHANGED vars
    BY <1>6, OtherStep
  <1>7. CASE Tick
    BY <1>7, TickStep
  <1> QED
    BY <1>1, <1>2, <1>3, <1>4, <1>5, <1>6, <1>7 DEF Next, Handler

\* The invariant holds in every state.
THEOREM Invariant == Spec => []Inv
  BY InvInit, InvStep, PTL DEF Spec

\* Type correctness.
THEOREM TypeCorrect == Spec => []TypeOK
  <1>1. Inv => TypeOK
    BY DEF Inv, Shape, RequestInv, TypeOK
  <1> QED
    BY <1>1, Invariant, PTL

-----------------------------------------------------------------------------
(* What acceptance and refusal rest on: the steps that end a request.      *)

\* A lookup that ends accepting was answered with a key that verifies the token.
AcceptsJWT(r) ==
  /\ pc[r] = "lookup"
  /\ used' \in 0 .. version
  /\ \E key \in KeysFor(token[r].kid, used') :
       verifyJWT(token[r], key, issuer[r], now)

\* One that ends refusing found none, or one that does not.
RefusesJWT(r) ==
  /\ pc[r] = "lookup"
  /\ \/ token[r].kid \notin docs[used']
     \/ \E key \in KeysFor(token[r].kid, used') :
          ~verifyJWT(token[r], key, issuer[r], now)

AcceptsOpaque(r) == pc[r] = "replied" /\ introspected(token[r], reply[r])

\* Only the request itself changes its outcome.
LEMMA OwnOutcome ==
  ASSUME Inv, NEW r \in Requests, Next, outcome'[r] # outcome[r], pc[r] # "idle"
  PROVE  \/ ProviderAnswers(r) \/ ProviderFails(r)
         \/ KeyAnswered(r) \/ KeyUnknown(r) \/ KeyFails(r)
         \/ IntrospectionReturns(r) \/ IntrospectionFails(r)
  <1>1. CASE \E q \in Requests : Handler(q)
    <2>1. PICK q \in Requests : Handler(q)
      BY <1>1
    <2>2. q = r
      <3> SUFFICES ASSUME q # r PROVE outcome'[r] = outcome[r]
        OBVIOUS
      <3>1. CASE \E t \in Tokens : Arrive(q, t) \/ ArriveRefused(q, t)
        BY <3>1 DEF Inv, Shape, Arrive, Wait, ArriveRefused
      <3>2. CASE ProviderAnswers(q) \/ ProviderFails(q)
        <4>1. \/ \E result : Respond(q, result)
              \/ Wait(q, token[q], "lookup", Issuer(TRUE))
          BY <3>2 DEF ProviderAnswers, ProviderFails
        <4>2. CASE \E result : Respond(q, result)
          BY <4>2 DEF Inv, Shape, Respond
        <4>3. CASE Wait(q, token[q], "lookup", Issuer(TRUE))
          BY <4>3 DEF Inv, Shape, Wait
        <4> QED
          BY <4>1, <4>2, <4>3
      <3>3. CASE KeyUnknown(q) \/ KeyFails(q) \/ Introspect(q)
        BY <3>3 DEF Inv, Shape, KeyUnknown, KeyFails, Introspect, Respond
      <3>4. CASE KeyAnswered(q)
        <4>1. PICK result : Respond(q, result)
          BY <3>4 DEF KeyAnswered
        <4> QED
          BY <4>1 DEF Inv, Shape, Respond
      <3>5. CASE IntrospectionReturns(q) \/ IntrospectionFails(q)
        BY <3>5 DEF Inv, Shape, IntrospectionReturns, IntrospectionFails, Respond
      <3> QED
        BY <2>1, <3>1, <3>2, <3>3, <3>4, <3>5 DEF Handler
    <2>3. ~Introspect(r) /\ ~ \E t \in Tokens : Arrive(r, t) \/ ArriveRefused(r, t)
      BY DEF Introspect, Arrive, ArriveRefused
    <2> QED
      BY <2>1, <2>2, <2>3 DEF Handler
  <1> QED
    BY <1>1 DEF Next, Revoke, Rotate, Elsewhere, Tick

\* An idle request is never accepted.
LEMMA IdleNotAccepted ==
  ASSUME Inv, NEW r \in Requests, Next, outcome'[r] # outcome[r], pc[r] = "idle"
  PROVE  outcome'[r] # "accepted"
  <1>1. PICK q \in Requests : Handler(q)
    BY DEF Next, Revoke, Rotate, Elsewhere, Tick
  <1>2. CASE \E t \in Tokens : Arrive(q, t) \/ ArriveRefused(q, t)
    BY <1>2 DEF Inv, Shape, Arrive, Wait, ArriveRefused
  <1>3. CASE ~ \E t \in Tokens : Arrive(q, t) \/ ArriveRefused(q, t)
    BY <1>1, <1>3
       DEF Inv, Shape, Handler, ProviderAnswers, Wait, ProviderFails, KeyAnswered,
           KeyUnknown, KeyFails, Introspect, IntrospectionReturns, IntrospectionFails, Respond
  <1> QED
    BY <1>2, <1>3

\* There are two ways to be accepted.
LEMMA Accepting ==
  ASSUME Inv, NEW r \in Requests, Next, Ends(r, "accepted")
  PROVE  AcceptsJWT(r) \/ AcceptsOpaque(r)
  <1>1. outcome'[r] # outcome[r] /\ outcome'[r] = "accepted" /\ r \in DOMAIN outcome
    BY DEF Ends, Inv, Shape
  <1>2. pc[r] # "idle"
    BY <1>1, IdleNotAccepted
  <1>3. CASE \/ ProviderAnswers(r) \/ ProviderFails(r) \/ IntrospectionFails(r)
             \/ KeyUnknown(r) \/ KeyFails(r)
    BY <1>1, <1>3 DEF ProviderAnswers, ProviderFails, IntrospectionFails, KeyUnknown,
                      KeyFails, Wait, Respond
  <1>4. CASE KeyAnswered(r)
    <2>1. PICK key \in KeysFor(token[r].kid, used') :
            Respond(r, IF verifyJWT(token[r], key, issuer[r], now)
                       THEN "accepted" ELSE "refused")
      BY <1>4 DEF KeyAnswered
    <2>2. verifyJWT(token[r], key, issuer[r], now)
      BY <1>1, <2>1 DEF Respond
    <2> QED
      BY <1>4, <2>2 DEF KeyAnswered, AcceptsJWT
  <1>5. CASE IntrospectionReturns(r)
    BY <1>1, <1>5 DEF IntrospectionReturns, Respond, AcceptsOpaque
  <1> QED
    BY <1>1, <1>2, <1>3, <1>4, <1>5, OwnOutcome

\* The only key of a document, a finite set of kids, is all of it.
LEMMA OnlyOne ==
  ASSUME Inv, NEW v \in 0 .. MaxVersion, Cardinality(docs[v]) = 1, NEW k \in docs[v]
  PROVE  docs[v] = {k}
  <1>1. docs[v] \in SUBSET (Kids \union {NoKid})
    BY DEF Inv, Shape
  <1>2. IsFiniteSet(Kids \union {NoKid})
    BY BearerAssumption, FS_AddElement
  <1>3. IsFiniteSet(docs[v])
    BY <1>1, <1>2, FS_Subset
  <1>4. PICK x : docs[v] = {x}
    BY <1>3, FS_Singleton
  <1> QED
    BY <1>4

\* A key that verifies a token is of the document looked at, and the one the
\* token names unless there is no other.
LEMMA AcceptedKeyPublished ==
  ASSUME Inv, NEW r \in Requests, AcceptsJWT(r)
  PROVE  LET t == token[r] IN
           /\ used' \in 0 .. version /\ t.signer \in docs[used']
           /\ t.kid = t.signer \/ (t.kid = NoKid /\ docs[used'] = {t.signer})
  <1> DEFINE t == token[r]
  <1>1. PICK key \in KeysFor(t.kid, used') : verifyJWT(t, key, issuer[r], now)
    BY DEF AcceptsJWT
  <1>2. used' \in 0 .. version /\ t.signer = key
    BY <1>1 DEF AcceptsJWT, verifyJWT
  <1>3. CASE t.kid \in docs[used']
    BY <1>1, <1>2, <1>3 DEF KeysFor
  <1>4. CASE t.kid \notin docs[used']
    <2>1. /\ t.kid = NoKid /\ Cardinality(docs[used']) = 1
          /\ t.signer \in docs[used']
      BY <1>1, <1>2, <1>4 DEF KeysFor
    <2>2. used' \in 0 .. MaxVersion
      BY <1>2, Bounds DEF Inv, Shape
    <2>3. docs[used'] = {t.signer}
      BY <2>1, <2>2, OnlyOne
    <2> QED
      BY <1>2, <2>1, <2>3
  <1> QED
    BY <1>3, <1>4, <1>2

\* A token is accepted only while it is valid (verifyJWT, claims).
THEOREM NeverAcceptedLate == Spec => AcceptedInTime
  <1> DEFINE InTime ==
        \A r \in Requests : Ends(r, "accepted") =>
          LET t == token[r] IN
            /\ t.exp # 0 /\ t.nbf <= now + Skew
            /\ \/ now <= t.exp + Skew
               \/ t.form = "opaque" /\ t.relative /\ now < t.exp + Timeout
  <1>1. Inv /\ [Next]_vars => [InTime]_vars
    <2> SUFFICES ASSUME Inv, Next, NEW r \in Requests, Ends(r, "accepted")
                 PROVE  LET t == token[r] IN
                          /\ t.exp # 0 /\ t.nbf <= now + Skew
                          /\ \/ now <= t.exp + Skew
                             \/ t.form = "opaque" /\ t.relative /\ now < t.exp + Timeout
      BY DEF InTime
    <2> DEFINE t == token[r]
    <2>1. now \in Nat \ {0} /\ age[r] \in 0 .. Timeout /\ reply[r].left \in Nat
      BY Bounds DEF Inv, Shape
    <2>2. CASE AcceptsJWT(r)
      <3>1. t \in Tokens
        BY <2>2 DEF Inv, Shape, RequestInv, AcceptsJWT
      <3>2. Lifetime(t, t.exp, now)
        BY <2>2 DEF AcceptsJWT, verifyJWT
      <3> QED
        BY <2>1, <3>1, <3>2, BearerAssumption DEF Lifetime
    <2>3. CASE AcceptsOpaque(r)
      <3>1. t \in Tokens /\ t.form = "opaque"
        BY <2>3 DEF Inv, Shape, RequestInv, AcceptsOpaque
      <3>2. /\ t.exp \in Nat /\ t.nbf \in Nat /\ Skew \in Nat /\ Timeout \in Nat
        BY <3>1, BearerAssumption
      <3>3. Lifetime(t, expiresAt(t, reply[r].left), now)
        BY <2>3 DEF AcceptsOpaque, introspected
      <3>4. t.nbf <= now + Skew
        BY <2>1, <3>2, <3>3 DEF Lifetime
      <3>5. CASE ~t.relative
        BY <2>1, <3>2, <3>3, <3>4, <3>5 DEF Lifetime, expiresAt
      <3>6. CASE t.relative
        <4>1. reply[r].left > 0
          BY <2>1, <3>3, <3>6 DEF Lifetime, expiresAt
        <4>2. now + reply[r].left <= t.exp + age[r]
          BY <2>3, <4>1 DEF Inv, RequestInv, AcceptsOpaque
        <4>3. now < t.exp + Timeout
          BY <2>1, <3>2, <4>1, <4>2
        <4>4. t.exp # 0
          <5>1. reply[r].left <= token[r].exp
            BY <2>3, <4>1 DEF Inv, RequestInv, AcceptsOpaque
          <5> QED
            BY <2>1, <3>2, <4>1, <5>1
        <4> QED
          BY <3>1, <3>4, <3>6, <4>3, <4>4
      <3> QED
        BY <3>5, <3>6
    <2> QED
      BY <2>2, <2>3, Accepting
  <1>2. Spec => [][InTime]_vars
    BY <1>1, Invariant, PTL DEF Spec
  <1> QED
    BY <1>2 DEF AcceptedInTime

\* A JWT is accepted only by a key the provider published, under the name the
\* token gives it (jwt.go:105-113), and from the configured issuer on whichever
\* path (README.md:294, auth.go:1762-1776).
THEOREM OnlyPublishedKeys == Spec => AcceptedByPublishedKey
  <1> DEFINE Published(r) ==
        LET t == token[r] IN
          /\ used' \in 1 .. version /\ t.signer \in docs[used']
          /\ t.kid = t.signer \/ (t.kid = NoKid /\ docs[used'] = {t.signer})
          /\ IF IssuerURL # NoIssuer THEN t.iss = IssuerURL
             ELSE ProviderIssuer \in {t.iss, NoIssuer} \/ foundKeys[r]
      Step == \A r \in Requests :
                Ends(r, "accepted") /\ token[r].form = "jwt" => Published(r)
  <1>1. Inv /\ [Next]_vars => [Step]_vars
    <2> SUFFICES ASSUME Inv, Next, NEW r \in Requests, Ends(r, "accepted"),
                        token[r].form = "jwt"
                 PROVE  Published(r)
      BY DEF Step
    <2>1. AcceptsJWT(r)
      BY Accepting DEF Inv, RequestInv, AcceptsOpaque
    <2>2. /\ used' \in 0 .. version /\ token[r].signer \in docs[used']
          /\ \/ token[r].kid = token[r].signer
             \/ token[r].kid = NoKid /\ docs[used'] = {token[r].signer}
      BY <2>1, AcceptedKeyPublished
    <2>3. used' \in 1 .. version
      <3>1. docs[0] = {} /\ version \in Nat
        BY BearerAssumption DEF Inv, Shape
      <3> QED
        BY <2>2, <3>1
    <2>4. issuer[r] = NoIssuer \/ token[r].iss = issuer[r]
      BY <2>1 DEF AcceptsJWT, verifyJWT
    <2>5. IF IssuerURL # NoIssuer THEN token[r].iss = IssuerURL
          ELSE ProviderIssuer \in {token[r].iss, NoIssuer} \/ foundKeys[r]
      BY <2>1, <2>4 DEF Inv, RequestInv, AcceptsJWT
    <2> QED
      BY <2>2, <2>3, <2>5
  <1>2. Spec => [][Step]_vars
    BY <1>1, Invariant, PTL DEF Spec
  <1> QED
    BY <1>2 DEF AcceptedByPublishedKey

\* A revocation holds for every request that comes after it (introspect).
THEOREM RevocationHolds == Spec => ActiveDuringRequest
  <1> DEFINE Active ==
        \A r \in Requests :
          Ends(r, "accepted") /\ token[r].form = "opaque" => ~wasRevoked[r]
  <1>1. Inv /\ [Next]_vars => [Active]_vars
    <2> SUFFICES ASSUME Inv, Next, NEW r \in Requests, Ends(r, "accepted"),
                        token[r].form = "opaque"
                 PROVE  ~wasRevoked[r]
      BY DEF Active
    <2>1. ~AcceptsJWT(r)
      BY DEF Inv, RequestInv, AcceptsJWT
    <2>2. AcceptsOpaque(r)
      BY <2>1, Accepting
    <2> QED
      BY <2>2 DEF Inv, RequestInv, AcceptsOpaque, introspected
  <1>2. Spec => [][Active]_vars
    BY <1>1, Invariant, PTL DEF Spec
  <1> QED
    BY <1>2 DEF ActiveDuringRequest

\* A refusal of a request under way is one of three.
LEMMA Refusing ==
  ASSUME Inv, NEW r \in Requests, Next, Ends(r, "refused"), pc[r] # "idle"
  PROVE  \/ pc[r] = "provider" /\ ~token[r].sound
         \/ RefusesJWT(r)
         \/ pc[r] = "replied" /\ ~introspected(token[r], reply[r])
  <1>1. outcome'[r] # outcome[r] /\ outcome'[r] = "refused" /\ r \in DOMAIN outcome
    BY DEF Ends, Inv, Shape
  <1>2. CASE ProviderAnswers(r)
    BY <1>1, <1>2 DEF ProviderAnswers, Wait, Respond
  <1>3. CASE ProviderFails(r) \/ IntrospectionFails(r) \/ KeyFails(r)
    BY <1>1, <1>3 DEF ProviderFails, IntrospectionFails, KeyFails, Respond
  <1>4. CASE KeyAnswered(r) \/ KeyUnknown(r)
    <2>1. CASE KeyUnknown(r)
      BY <2>1 DEF KeyUnknown, RefusesJWT
    <2>2. CASE KeyAnswered(r)
      <3>1. PICK key \in KeysFor(token[r].kid, used') :
              Respond(r, IF verifyJWT(token[r], key, issuer[r], now)
                         THEN "accepted" ELSE "refused")
        BY <2>2 DEF KeyAnswered
      <3>2. ~verifyJWT(token[r], key, issuer[r], now)
        BY <1>1, <3>1 DEF Respond
      <3> QED
        BY <2>2, <3>2 DEF KeyAnswered, RefusesJWT
    <2> QED
      BY <1>4, <2>1, <2>2
  <1>5. CASE IntrospectionReturns(r)
    BY <1>1, <1>5 DEF IntrospectionReturns, Respond
  <1> QED
    BY <1>1, <1>2, <1>3, <1>4, <1>5, OwnOutcome

\* No token is refused without a reason (principalFromBearer).
THEOREM NoneRefusedForNothing == Spec => GoodTokensAccepted
  <1> DEFINE Good(r) ==
        LET t == token[r] IN
          /\ t.nbf <= began[r] /\ t.iat <= began[r] /\ now <= t.exp
          /\ \/ /\ t.form = "jwt" /\ t.sound
                /\ t.iss = (IF IssuerURL # NoIssuer THEN IssuerURL ELSE ProviderIssuer)
                /\ t.kid # NoKid /\ t.kid = t.signer /\ t.kid \in docs[used']
             \/ t.form = "opaque" /\ t \notin revoked /\ (t.relative => now < t.exp)
          /\ principalFromBearer(t.claims) # Rejected
      Fair == \A r \in Requests : Ends(r, "refused") /\ pc[r] # "idle" => ~Good(r)
  <1>1. Inv /\ [Next]_vars => [Fair]_vars
    <2> SUFFICES ASSUME Inv, Next, NEW r \in Requests, Ends(r, "refused"),
                        pc[r] # "idle", Good(r)
                 PROVE  FALSE
      BY DEF Fair
    <2> DEFINE t == token[r]
    <2>1. /\ now \in Nat \ {0} /\ began[r] \in Nat /\ began[r] <= now
          /\ Skew \in Nat /\ IssuedAhead \in Nat
          /\ RequestInv(r)
      BY Bounds DEF Inv, Shape, RequestInv
    <2>2. /\ t \in Tokens /\ {t.exp, t.nbf, t.iat} \subseteq Nat
      BY BearerAssumption DEF Inv, Shape, RequestInv
    <2>3. Lifetime(t, t.exp, now) /\ t.iat <= now + IssuedAhead
      BY <2>1, <2>2 DEF Lifetime
    <2>4. CASE pc[r] = "provider" /\ ~t.sound
      BY <2>1, <2>4 DEF RequestInv
    <2>5. CASE RefusesJWT(r)
      <3>1. pc[r] = "lookup" /\ t.form = "jwt"
        BY <2>1, <2>5 DEF RefusesJWT, RequestInv
      <3>2. t.kid # NoKid /\ t.kid = t.signer /\ t.kid \in docs[used']
        BY <3>1
      <3>3. ~verifyJWT(t, t.kid, issuer[r], now)
        BY <2>5, <3>2 DEF RefusesJWT, KeysFor
      <3>4. issuer[r] = NoIssuer \/ t.iss = issuer[r]
        BY <2>1, <3>1 DEF RequestInv
      <3> QED
        BY <2>3, <3>2, <3>3, <3>4 DEF verifyJWT
    <2>6. CASE pc[r] = "replied" /\ ~introspected(t, reply[r])
      <3>1. t.form = "opaque" /\ t \notin revoked /\ (t.relative => now < t.exp)
        BY <2>1, <2>6 DEF RequestInv
      <3>2. reply[r].active /\ (t.relative => reply[r].left > 0) /\ reply[r].left \in Nat
        BY <2>1, <2>6, <3>1 DEF RequestInv, Inv, Shape
      <3>3. Lifetime(t, expiresAt(t, reply[r].left), now)
        <4>1. CASE t.relative
          BY <2>1, <2>2, <3>2, <4>1 DEF Lifetime, expiresAt
        <4>2. CASE ~t.relative
          BY <2>3, <4>2 DEF expiresAt
        <4> QED
          BY <4>1, <4>2
      <3> QED
        BY <2>6, <3>2, <3>3 DEF introspected
    <2> QED
      BY <2>4, <2>5, <2>6, Refusing
  <1>2. Spec => [][Fair]_vars
    BY <1>1, Invariant, PTL DEF Spec
  <1> QED
    BY <1>2 DEF GoodTokensAccepted
=============================================================================
