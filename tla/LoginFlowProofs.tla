--------------------------- MODULE LoginFlowProofs ---------------------------
(***************************************************************************)
(* Theorems about LoginFlow, for every number of browsers, tabs, logins    *)
(* and secrets, every setting of the time limits and every setting of what *)
(* ties a code to its login that SettingsAssumption admits.                *)
(***************************************************************************)
EXTENDS LoginFlow, TLAPS

\* A cookie belongs to a login that its browser began; a session cookie, to one
\* that has a session.
CookieInv(b) ==
  /\ stateCookie[b] # None => starter[stateCookie[b]] = b
  /\ sessionCookie[b] # None =>
       starter[sessionCookie[b]] = b /\ sessionKey[sessionCookie[b]] # 0

\* Where a tab holds a login that may come to something, and where it does so
\* before the provider has authenticated anybody.
Holding   == {"redirecting", "atProvider", "granted", "exchanging", "redeemed", "signingIn"}
Beginning == {"redirecting", "atProvider"}

\* A login has an account once its tab is back from the provider.  A request or
\* response that may still set a cookie belongs to a login of its own browser.
TabInv(t) ==
  /\ pc[t] \in Holding => flow[t] \in Flows
  /\ pc[t] \in Beginning => code[flow[t]] = Nobody
  /\ pc[t] = "granted" => code[flow[t]] # Nobody
  /\ pc[t] \in {"redirecting", "exchanging", "redeemed", "signingIn"} =>
       starter[flow[t]] = BrowserOf[t]
  /\ pc[t] = "signingIn" => sessionKey[flow[t]] # 0

\* A handler has a code of some account and a state of the present secret, and
\* it began within the state's time limit.  The code is of another login only
\* where links are mixed, and not redeemed for it by a provider that compares
\* verifiers.  A handler that has redeemed the code of its own login has not
\* made the session yet.
HandlerInv(t) ==
  Working(t) =>
    /\ given[t] \in Flows /\ code[given[t]] # Nobody
    /\ stateKey[flow[t]] = secret
    /\ age[flow[t]] < StateTTL + busy[t]
    /\ given[t] # flow[t] => setting.mixed /\ (setting.pkce => pc[t] # "redeemed")
    /\ pc[t] = "redeemed" =>
         redeemed[given[t]] /\ (given[t] = flow[t] => sessionKey[flow[t]] = 0)

\* No two tabs begin the same login, and no two handlers have redeemed the same
\* code.
OneTabEach ==
  \A t, u \in Tabs : t # u =>
    /\ pc[t] = "redeemed" /\ pc[u] = "redeemed" => given[t] # given[u]
    /\ pc[t] \in Beginning /\ pc[u] \in Beginning => flow[t] # flow[u]

\* A session comes from a redeemed code of its own account, and from a state
\* signed with the same secret and so much older.
SessionInv(f) ==
  IF sessionKey[f] = 0
  THEN account[f] = Nobody
  ELSE /\ redeemed[f] /\ code[f] # Nobody
       /\ account[f] = code[f] /\ stateKey[f] = sessionKey[f]
       /\ sessionAge[f] < SessionTTL => age[f] < StateTTL + HandlerBound + sessionAge[f]

Inv ==
  /\ TypeOK
  /\ \A b \in Browsers : CookieInv(b)
  /\ \A t \in Tabs : TabInv(t)
  /\ \A t \in Tabs : HandlerInv(t)
  /\ OneTabEach
  /\ \A f \in Flows : SessionInv(f)

\* The ages are numbers, and a handler lives no longer than its bound.
LEMMA Ages ==
  ASSUME Inv
  PROVE  /\ StateTTL \in Nat /\ SessionTTL \in Nat /\ HandlerBound \in Nat
         /\ \A f \in Flows : age[f] \in Nat /\ sessionAge[f] \in Nat
         /\ \A t \in Tabs : busy[t] \in Nat /\ busy[t] <= HandlerBound
  BY LoginAssumption DEF Inv, TypeOK, Horizon

\* The invariant holds at first.
LEMMA InvInit == Init => Inv
  <1> SUFFICES ASSUME Init PROVE Inv
    OBVIOUS
  <1> USE LoginAssumption
  <1>1. (CHOOSE b \in Browsers : TRUE) \in Browsers
    OBVIOUS
  <1>2. starter \in [Flows -> Browsers]
    BY <1>1 DEF Init
  <1>3. TypeOK
    BY <1>2 DEF Init, TypeOK, Labels, Horizon
  <1>4. \A b \in Browsers : CookieInv(b)
    BY DEF Init, CookieInv
  <1>5. \A t \in Tabs : TabInv(t) /\ HandlerInv(t)
    BY DEF Init, TabInv, HandlerInv, Working, Holding, Beginning
  <1>6. OneTabEach /\ (\A f \in Flows : SessionInv(f))
    BY DEF Init, OneTabEach, Beginning, SessionInv
  <1> QED
    BY <1>3, <1>4, <1>5, <1>6 DEF Inv

-----------------------------------------------------------------------------
(* The steps.                                                              *)

\* A tab that moves to a place from which it sets no cookie of a login
\* disturbs nothing but, perhaps, the cookies.
LEMMA ReleaseStep ==
  ASSUME Inv, NEW t \in Tabs, NEW f \in Flows \union {None},
         NEW label \in Labels \ Holding,
         Move(t, label, f, None),
         UNCHANGED <<flowVars, codeVars, sessionVars, configVars>>,
         stateCookie' \in [Browsers -> Flows \union {None}],
         sessionCookie' \in [Browsers -> Flows \union {None}],
         \A b \in Browsers : CookieInv(b)'
  PROVE  Inv'
  <1> USE LoginAssumption
  <1>1. TypeOK'
    BY DEF Inv, TypeOK, Move, flowVars, codeVars, sessionVars, configVars
  <1>2. ASSUME NEW u \in Tabs PROVE TabInv(u)' /\ HandlerInv(u)'
    <2>1. CASE u = t
      BY <2>1 DEF Inv, TypeOK, Move, TabInv, HandlerInv, Working, Holding, Beginning
    <2>2. CASE u # t
      BY <2>2 DEF Inv, TypeOK, Move, TabInv, HandlerInv, Working, flowVars, codeVars,
                  sessionVars, configVars
    <2> QED
      BY <2>1, <2>2
  <1>3. OneTabEach'
    BY DEF Inv, TypeOK, Move, OneTabEach, Holding, Beginning
  <1>4. ASSUME NEW g \in Flows PROVE SessionInv(g)'
    BY DEF Inv, SessionInv, flowVars, codeVars, sessionVars
  <1> QED
    BY <1>1, <1>2, <1>3, <1>4 DEF Inv

\* A handler or page is left without any cookie being touched.
LEMMA LeaveStep ==
  ASSUME Inv, NEW t \in Tabs,
         \/ Deny(t)
         \/ CallbackDenied(t)
         \/ \E f, g \in Flows : CallbackWithoutCookie(t, f, g) \/ CallbackRejected(t, f, g)
         \/ CallbackFails(t)
         \/ CallbackForbidden(t)
         \/ HandleLogout(t)
         \/ Abandon(t)
  PROVE  Inv'
  <1>1. \E label \in Labels \ Holding,
           f \in Flows \union {None} : Move(t, label, f, None)
    BY DEF Deny, CallbackDenied, CallbackWithoutCookie, CallbackRejected,
           CallbackFails, CallbackForbidden, HandleLogout, Abandon, Labels,
           Holding, Inv, TypeOK
  <1>2. UNCHANGED <<cookieVars, flowVars, codeVars, sessionVars, configVars>>
    BY DEF Deny, CallbackDenied, CallbackWithoutCookie, CallbackRejected,
           CallbackFails, CallbackForbidden, HandleLogout, Abandon
  <1>3. \A b \in Browsers : CookieInv(b)'
    BY <1>2 DEF Inv, CookieInv, cookieVars, flowVars, sessionVars
  <1> QED
    BY <1>1, <1>2, <1>3, ReleaseStep DEF Inv, TypeOK, cookieVars

\* A tab whose place has not changed keeps what the invariant says of it while
\* no login that it refers to changes, but for codes that come to be redeemed.
LEMMA TabKept ==
  ASSUME Inv, NEW u \in Tabs,
         pc'[u] = pc[u], flow'[u] = flow[u], given'[u] = given[u], busy'[u] = busy[u],
         UNCHANGED <<secret, setting>>,
         flow[u] \in Flows =>
           /\ starter'[flow[u]] = starter[flow[u]] /\ age'[flow[u]] = age[flow[u]]
           /\ stateKey'[flow[u]] = stateKey[flow[u]]
           /\ pc[u] \in {"redirecting", "atProvider", "granted"} =>
                code'[flow[u]] = code[flow[u]]
           /\ pc[u] = "signingIn" /\ sessionKey[flow[u]] # 0 =>
                sessionKey'[flow[u]] # 0
           /\ pc[u] = "redeemed" /\ given[u] = flow[u] =>
                sessionKey'[flow[u]] = sessionKey[flow[u]],
         given[u] \in Flows =>
           /\ code'[given[u]] = code[given[u]]
           /\ redeemed[given[u]] => redeemed'[given[u]]
  PROVE  TabInv(u)' /\ HandlerInv(u)'
  <1>1. TabInv(u) /\ HandlerInv(u)
    BY DEF Inv
  <1>2. TabInv(u)'
    BY <1>1 DEF TabInv, Holding, Beginning
  <1>3. HandlerInv(u)'
    <2>1. Working(u) => flow[u] \in Flows /\ given[u] \in Flows
      BY <1>1 DEF TabInv, HandlerInv, Working, Holding
    <2> QED
      BY <1>1, <2>1 DEF HandlerInv, Working
  <1> QED
    BY <1>2, <1>3

\* A tab goes on with its login, alone with it: to the provider, or back from it.
LEMMA ProviderStep ==
  ASSUME Inv, NEW t \in Tabs,
         LoginArrives(t) \/ \E u \in Users : Authenticate(t, u)
  PROVE  Inv'
  <1> USE LoginAssumption
  <1>1. /\ flow[t] \in Flows /\ pc[t] \in Beginning
        /\ code[flow[t]] = Nobody
        /\ \A u \in Tabs \ {t} : flow[u] # flow[t] \/ pc[u] \notin Beginning
    BY DEF LoginArrives, Authenticate, Inv, TabInv, OneTabEach, Holding, Beginning
  <1>2. sessionKey[flow[t]] = 0
    BY <1>1 DEF Inv, SessionInv
  <1>3. PICK label \in {"atProvider", "granted"} :
          /\ Move(t, label, flow[t], None)
          /\ UNCHANGED <<flowVars, redeemed, sessionVars, sessionCookie, configVars>>
          /\ IF label = "granted"
             THEN \E u \in Users : /\ code' = [code EXCEPT ![flow[t]] = u]
                                   /\ UNCHANGED stateCookie
             ELSE /\ code' = code
                  /\ pc[t] = "redirecting"
                  /\ stateCookie' = [stateCookie EXCEPT ![BrowserOf[t]] = flow[t]]
    BY DEF LoginArrives, Authenticate, cookieVars, codeVars
  <1>4. TypeOK'
    BY <1>1, <1>3 DEF Inv, TypeOK, Move, Labels, flowVars, sessionVars, configVars
  <1>5. ASSUME NEW b \in Browsers PROVE CookieInv(b)'
    <2>1. label = "atProvider" => starter[flow[t]] = BrowserOf[t]
      BY <1>3 DEF Inv, TabInv
    <2> QED
      BY <1>3, <2>1 DEF Inv, TypeOK, CookieInv, flowVars, sessionVars
  <1>6. ASSUME NEW u \in Tabs PROVE TabInv(u)' /\ HandlerInv(u)'
    <2>1. CASE u = t
      BY <1>1, <1>3, <2>1
         DEF Inv, TypeOK, Move, TabInv, HandlerInv, Working, Holding, Beginning
    <2>2. CASE u # t
      <3>1. /\ pc'[u] = pc[u] /\ flow'[u] = flow[u]
            /\ given'[u] = given[u] /\ busy'[u] = busy[u]
        <4>1. Move(t, label, flow[t], None)
          BY <1>3
        <4> QED
          BY <2>2, <4>1 DEF Inv, TypeOK, Move
      <3>2. UNCHANGED <<starter, age, stateKey, redeemed, sessionKey, secret, setting>>
        BY <1>3 DEF flowVars, sessionVars, configVars
      <3>3. ASSUME NEW g \in Flows, g # flow[t] PROVE code'[g] = code[g]
        BY <1>3, <3>3 DEF Inv, TypeOK
      <3>4. Beginning \subseteq Holding
        BY DEF Beginning, Holding
      <3>5. pc[u] \in {"redirecting", "atProvider", "granted"} => flow[u] # flow[t]
        BY <1>1, <2>2 DEF Inv, TabInv, Beginning
      <3>6. CASE given[u] # flow[t]
        BY <3>1, <3>2, <3>3, <3>5, <3>6, TabKept
      <3>7. CASE given[u] = flow[t]
        <4>1. ~Working(u)
          BY <1>1, <3>7 DEF Inv, HandlerInv
        <4>2. TabInv(u)'
          BY <3>1, <3>2, <3>3, <3>5 DEF Inv, TabInv, Holding, Beginning
        <4>3. HandlerInv(u)'
          BY <3>1, <4>1 DEF HandlerInv, Working
        <4> QED
          BY <4>2, <4>3
      <3> QED
        BY <3>6, <3>7
    <2> QED
      BY <2>1, <2>2
  <1>7. OneTabEach'
    BY <1>1, <1>3 DEF Inv, TypeOK, Move, OneTabEach, Beginning
  <1>8. ASSUME NEW g \in Flows PROVE SessionInv(g)'
    BY <1>1, <1>2, <1>3 DEF Inv, TypeOK, SessionInv, flowVars, sessionVars
  <1> QED
    BY <1>4, <1>5, <1>6, <1>7, <1>8 DEF Inv

\* A response reaches the browser: what it sets belongs to the browser's login.
LEMMA ArriveStep ==
  ASSUME Inv, NEW t \in Tabs, CallbackArrives(t) \/ LogoutArrives(t)
  PROVE  Inv'
  <1> USE LoginAssumption
  <1>1. CASE CallbackArrives(t)
    <2>1. pc[t] = "signingIn" =>
            /\ flow[t] \in Flows /\ starter[flow[t]] = BrowserOf[t]
            /\ sessionKey[flow[t]] # 0
      BY <1>1 DEF Inv, TabInv, Holding
    <2>2. \A b \in Browsers : CookieInv(b)'
      BY <1>1, <2>1 DEF CallbackArrives, Inv, TypeOK, CookieInv, flowVars, sessionVars
    <2>3. /\ stateCookie' \in [Browsers -> Flows \union {None}]
          /\ sessionCookie' \in [Browsers -> Flows \union {None}]
      BY <1>1, <2>1 DEF CallbackArrives, Inv, TypeOK
    <2> QED
      BY <1>1, <2>2, <2>3, ReleaseStep DEF CallbackArrives, Labels, Holding
  <1>2. CASE LogoutArrives(t)
    <2>1. \A b \in Browsers : CookieInv(b)'
      BY <1>2 DEF LogoutArrives, Inv, TypeOK, CookieInv, flowVars, sessionVars
    <2> QED
      BY <1>2, <2>1, ReleaseStep DEF LogoutArrives, Labels, Holding, Inv, TypeOK
  <1> QED
    BY <1>1, <1>2

\* HandleLogin takes a flow that no cookie and no tab refers to.
LEMMA LoginStep ==
  ASSUME Inv, NEW t \in Tabs, HandleLogin(t)
  PROVE  Inv'
  <1> USE LoginAssumption
  <1>1. PICK f \in Flows :
          /\ ~InUse(f)
          /\ starter' = [starter EXCEPT ![f] = BrowserOf[t]]
          /\ age' = [age EXCEPT ![f] = 0]
          /\ stateKey' = [stateKey EXCEPT ![f] = secret]
          /\ code' = [code EXCEPT ![f] = Nobody]
          /\ redeemed' = [redeemed EXCEPT ![f] = FALSE]
          /\ sessionKey' = [sessionKey EXCEPT ![f] = 0]
          /\ sessionAge' = [sessionAge EXCEPT ![f] = SessionTTL]
          /\ account' = [account EXCEPT ![f] = Nobody]
          /\ Move(t, "redirecting", f, None)
          /\ UNCHANGED <<cookieVars, configVars>>
    BY DEF HandleLogin
  <1>2. \A b \in Browsers : stateCookie[b] # f /\ sessionCookie[b] # f
    BY <1>1 DEF InUse
  <1>3. \A u \in Tabs : flow[u] # f /\ given[u] # f
    BY <1>1 DEF InUse
  <1>4. TypeOK'
    <2>1. /\ starter' \in [Flows -> Browsers]
          /\ age' \in [Flows -> 0 .. Horizon]
          /\ stateKey' \in [Flows -> 1 .. MaxSecrets]
          /\ sessionAge' \in [Flows -> 0 .. SessionTTL]
      BY <1>1 DEF Inv, TypeOK, Horizon
    <2>2. /\ code' \in [Flows -> Users \union {Nobody}]
          /\ redeemed' \in [Flows -> BOOLEAN]
          /\ sessionKey' \in [Flows -> 0 .. MaxSecrets]
          /\ account' \in [Flows -> Users \union {Nobody}]
      BY <1>1 DEF Inv, TypeOK
    <2>3. /\ pc' \in [Tabs -> Labels]
          /\ flow' \in [Tabs -> Flows \union {None}]
          /\ given' \in [Tabs -> Flows \union {None}]
          /\ busy' \in [Tabs -> 0 .. HandlerBound]
      BY <1>1 DEF Inv, TypeOK, Move, Labels
    <2> QED
      BY <1>1, <2>1, <2>2, <2>3 DEF Inv, TypeOK, cookieVars, configVars
  <1>5. ASSUME NEW b \in Browsers PROVE CookieInv(b)'
    BY <1>1, <1>2 DEF Inv, TypeOK, CookieInv, cookieVars
  <1>6. ASSUME NEW u \in Tabs PROVE TabInv(u)' /\ HandlerInv(u)'
    <2>1. CASE u = t
      BY <1>1, <2>1 DEF Inv, TypeOK, TabInv, HandlerInv, Move, Working, Holding, Beginning
    <2>2. CASE u # t
      <3>1. /\ pc'[u] = pc[u] /\ flow'[u] = flow[u]
            /\ given'[u] = given[u] /\ busy'[u] = busy[u]
        BY <1>1, <2>2 DEF Inv, TypeOK, Move
      <3>2. ASSUME NEW g \in Flows, g # f
            PROVE  /\ starter'[g] = starter[g] /\ age'[g] = age[g]
                   /\ stateKey'[g] = stateKey[g]
                   /\ redeemed'[g] = redeemed[g] /\ code'[g] = code[g]
                   /\ sessionKey'[g] = sessionKey[g]
        <4>1. starter'[g] = starter[g] /\ age'[g] = age[g]
          BY <1>1, <3>2 DEF Inv, TypeOK
        <4>2. stateKey'[g] = stateKey[g]
          BY <1>1, <3>2 DEF Inv, TypeOK
        <4>3. redeemed'[g] = redeemed[g] /\ code'[g] = code[g]
          BY <1>1, <3>2 DEF Inv, TypeOK
        <4>4. sessionKey'[g] = sessionKey[g]
          BY <1>1, <3>2 DEF Inv, TypeOK
        <4> QED
          BY <4>1, <4>2, <4>3, <4>4
      <3>3. UNCHANGED <<secret, setting>>
        BY <1>1 DEF configVars
      <3> QED
        BY <1>3, <3>1, <3>2, <3>3, TabKept
    <2> QED
      BY <2>1, <2>2
  <1>7. OneTabEach'
    BY <1>1, <1>3 DEF Inv, TypeOK, Move, OneTabEach, Beginning
  <1>8. ASSUME NEW g \in Flows PROVE SessionInv(g)'
    BY <1>1 DEF Inv, TypeOK, SessionInv
  <1> QED
    BY <1>4, <1>5, <1>6, <1>7, <1>8 DEF Inv

\* A callback goes on only with the login of the browser's own state cookie,
\* and with a foreign code only where links are mixed.
LEMMA AcceptStep ==
  ASSUME Inv, NEW t \in Tabs, NEW f \in Flows, NEW g \in Flows,
         CallbackAccepted(t, f, g)
  PROVE  Inv'
  <1> USE LoginAssumption
  <1>1. /\ f = stateCookie[BrowserOf[t]] /\ f # None
        /\ age[f] < StateTTL /\ stateKey[f] = secret
        /\ Move(t, "exchanging", f, g)
        /\ UNCHANGED <<cookieVars, flowVars, codeVars, sessionVars, configVars>>
    BY DEF CallbackAccepted, SameState, decodeAuthState
  <1>2. starter[f] = BrowserOf[t] /\ code[g] # Nobody /\ (g # f => setting.mixed)
    BY <1>1 DEF Inv, CookieInv, TabInv, CallbackAccepted, CallbackLink
  <1>3. TypeOK'
    BY <1>1 DEF Inv, TypeOK, Move, Labels, cookieVars, flowVars, codeVars,
                sessionVars, configVars
  <1>4. ASSUME NEW b \in Browsers PROVE CookieInv(b)'
    BY <1>1 DEF Inv, CookieInv, cookieVars, flowVars, sessionVars
  <1>5. ASSUME NEW u \in Tabs PROVE TabInv(u)' /\ HandlerInv(u)'
    <2>1. CASE u = t
      BY <1>1, <1>2, <2>1
         DEF Inv, TypeOK, TabInv, HandlerInv, Move, Working, Holding, Beginning,
             flowVars, codeVars, configVars
    <2>2. CASE u # t
      BY <1>1, <2>2 DEF Inv, TypeOK, TabInv, HandlerInv, Move, Working, flowVars,
                        codeVars, sessionVars, configVars
    <2> QED
      BY <2>1, <2>2
  <1>6. OneTabEach'
    BY <1>1 DEF Inv, TypeOK, Move, OneTabEach, Beginning
  <1>7. ASSUME NEW h \in Flows PROVE SessionInv(h)'
    BY <1>1 DEF Inv, SessionInv, flowVars, codeVars, sessionVars
  <1> QED
    BY <1>3, <1>4, <1>5, <1>6, <1>7 DEF Inv

\* The provider redeems a code that no other handler has redeemed.
LEMMA ExchangeStep ==
  ASSUME Inv, NEW t \in Tabs, Exchange(t)
  PROVE  Inv'
  <1> USE LoginAssumption DEF Exchange
  <1>1. /\ HandlerInv(t) /\ TabInv(t) /\ Working(t)
        /\ flow[t] \in Flows /\ given[t] \in Flows
        /\ code[given[t]] # Nobody
    BY DEF Inv, TabInv, HandlerInv, Working, Holding
  <1>2. sessionKey[given[t]] = 0
    BY <1>1 DEF Inv, SessionInv
  <1>3. TypeOK'
    BY DEF Inv, TypeOK, Labels, cookieVars, flowVars, sessionVars, configVars
  <1>4. ASSUME NEW b \in Browsers PROVE CookieInv(b)'
    BY DEF Inv, CookieInv, cookieVars, flowVars, sessionVars
  <1>5. ASSUME NEW u \in Tabs PROVE TabInv(u)' /\ HandlerInv(u)'
    <2>1. CASE u = t
      BY <1>1, <1>2, <2>1
         DEF Inv, TypeOK, TabInv, HandlerInv, Working, Holding, Beginning, flowVars,
             sessionVars, configVars
    <2>2. CASE u # t
      <3>1. pc'[u] = pc[u] /\ (\A g \in Flows : redeemed[g] => redeemed'[g])
        BY <2>2 DEF Inv, TypeOK
      <3>2. UNCHANGED <<flow, given, busy, starter, age, stateKey, code, sessionKey,
                        secret, setting>>
        BY DEF flowVars, sessionVars, configVars
      <3> QED
        BY <3>1, <3>2, TabKept
    <2> QED
      BY <2>1, <2>2
  <1>6. OneTabEach'
    BY DEF Inv, TypeOK, HandlerInv, Working, OneTabEach, Beginning
  <1>7. ASSUME NEW g \in Flows PROVE SessionInv(g)'
    BY DEF Inv, TypeOK, SessionInv, flowVars, sessionVars
  <1> QED
    BY <1>3, <1>4, <1>5, <1>6, <1>7 DEF Inv

\* A handler that gets as far as a session has redeemed the code of its own
\* login: the links are as the provider made them, or it compared the verifier,
\* or the nonce in the ID token was compared.
LEMMA OwnCode ==
  ASSUME Inv, NEW t \in Tabs, CallbackSucceeds(t)
  PROVE  /\ given[t] = flow[t] /\ flow[t] \in Flows
         /\ code[flow[t]] # Nobody /\ redeemed[flow[t]]
         /\ sessionKey[flow[t]] = 0 /\ stateKey[flow[t]] = secret
  <1>1. HandlerInv(t) /\ TabInv(t) /\ Working(t) /\ SameNonce(t) /\ pc[t] = "redeemed"
    BY DEF Inv, CallbackSucceeds, Working
  <1>2. given[t] = flow[t]
    <2>1. setting \in Settings
      BY DEF Inv, TypeOK
    <2> QED
      BY <1>1, <2>1, SettingsAssumption DEF HandlerInv, SameNonce
  <1> QED
    BY <1>1, <1>2 DEF HandlerInv

\* The one handler that redeemed the code makes the session.
LEMMA SucceedStep ==
  ASSUME Inv, NEW t \in Tabs, CallbackSucceeds(t)
  PROVE  Inv'
  <1> USE LoginAssumption DEF CallbackSucceeds
  <1>1. /\ given[t] = flow[t] /\ flow[t] \in Flows
        /\ code[flow[t]] # Nobody /\ redeemed[flow[t]]
        /\ sessionKey[flow[t]] = 0 /\ stateKey[flow[t]] = secret
    BY OwnCode
  <1>2. \A u \in Tabs : u # t => pc[u] # "redeemed" \/ given[u] # flow[t]
    BY <1>1 DEF Inv, OneTabEach
  <1>3. secret \in 1 .. MaxSecrets /\ secret # 0 /\ MaxSecrets \in Nat
    BY DEF Inv, TypeOK
  <1>4. TypeOK'
    BY <1>1, <1>3 DEF Inv, TypeOK, Move, Labels, cookieVars, flowVars, codeVars, configVars
  <1>5. ASSUME NEW b \in Browsers PROVE CookieInv(b)'
    BY <1>3 DEF Inv, TypeOK, CookieInv, cookieVars, flowVars
  <1>6. ASSUME NEW u \in Tabs PROVE TabInv(u)' /\ HandlerInv(u)'
    <2>1. CASE u = t
      <3>1. starter[flow[t]] = BrowserOf[t]
        BY DEF Inv, TabInv
      <3> QED
        BY <1>1, <1>3, <2>1, <3>1
           DEF Inv, TypeOK, TabInv, HandlerInv, Move, Working, Holding, Beginning, flowVars
    <2>2. CASE u # t
      <3>1. /\ pc'[u] = pc[u] /\ flow'[u] = flow[u]
            /\ given'[u] = given[u] /\ busy'[u] = busy[u]
        BY <2>2 DEF Inv, TypeOK, Move
      <3>2. UNCHANGED <<starter, age, stateKey, code, redeemed, secret, setting>>
        BY DEF flowVars, codeVars, configVars
      <3>3. \A g \in Flows : sessionKey'[g] = IF g = flow[t] THEN secret ELSE sessionKey[g]
        BY DEF Inv, TypeOK
      <3> QED
        BY <1>2, <1>3, <2>2, <3>1, <3>2, <3>3, TabKept
    <2> QED
      BY <2>1, <2>2
  <1>7. OneTabEach'
    BY DEF Inv, TypeOK, Move, OneTabEach, Beginning
  <1>8. ASSUME NEW g \in Flows PROVE SessionInv(g)'
    <2>1. age[flow[t]] < StateTTL + HandlerBound
      <3>1. /\ age[flow[t]] \in Nat /\ busy[t] \in Nat /\ busy[t] <= HandlerBound
            /\ StateTTL \in Nat /\ HandlerBound \in Nat
        BY <1>1, Ages
      <3>2. age[flow[t]] < StateTTL + busy[t]
        BY DEF Inv, HandlerInv, Working
      <3> QED
        BY <3>1, <3>2
    <2> QED
      BY <1>1, <1>3, <2>1 DEF Inv, TypeOK, SessionInv, flowVars, codeVars
  <1> QED
    BY <1>4, <1>5, <1>6, <1>7, <1>8 DEF Inv

\* A restart kills the handlers at work and leaves the rest alone.
LEMMA RestartStep ==
  ASSUME Inv, NEW s \in 1 .. MaxSecrets, NEW a \in Allowlists, Restart(s, a)
  PROVE  Inv'
  <1> USE LoginAssumption DEF Restart
  <1>1. \A u \in Tabs :
          IF pc[u] \in {"exchanging", "redeemed"}
          THEN pc'[u] = "idle"
          ELSE /\ pc'[u] = pc[u] /\ flow'[u] = flow[u]
               /\ given'[u] = given[u] /\ busy'[u] = busy[u]
    BY DEF Inv, TypeOK
  <1>2. TypeOK'
    BY DEF Inv, TypeOK, Labels, cookieVars, flowVars, codeVars, sessionVars
  <1>3. ASSUME NEW b \in Browsers PROVE CookieInv(b)'
    BY DEF Inv, CookieInv, cookieVars, flowVars, sessionVars
  <1>4. ASSUME NEW u \in Tabs PROVE TabInv(u)'
    BY <1>1 DEF Inv, TabInv, Holding, Beginning, flowVars, codeVars, sessionVars
  <1>5. ASSUME NEW u \in Tabs PROVE HandlerInv(u)'
    BY <1>1 DEF HandlerInv, Working
  <1>6. OneTabEach'
    BY <1>1 DEF Inv, OneTabEach, Beginning
  <1>7. ASSUME NEW g \in Flows PROVE SessionInv(g)'
    BY DEF Inv, SessionInv, flowVars, codeVars, sessionVars
  <1> QED
    BY <1>2, <1>3, <1>4, <1>5, <1>6, <1>7 DEF Inv

\* Time passes: the state of a working handler ages no faster than the handler,
\* that of a session no faster than the session.
LEMMA TickStep ==
  ASSUME Inv, Tick
  PROVE  Inv'
  <1> USE LoginAssumption DEF Tick
  <1>1. \A g \in Flows :
          /\ age'[g] \in 0 .. Horizon /\ age'[g] \in Nat
          /\ age'[g] <= age[g] + 1
    BY DEF Inv, TypeOK, Older, Horizon
  <1>2. \A g \in Flows :
          /\ sessionAge'[g] \in 0 .. SessionTTL
          /\ sessionAge'[g] < SessionTTL => sessionAge'[g] = sessionAge[g] + 1
    BY DEF Inv, TypeOK, Older
  <1>3. \A u \in Tabs :
          /\ busy'[u] \in 0 .. HandlerBound
          /\ Working(u) => busy'[u] = busy[u] + 1
    BY DEF Inv, TypeOK
  <1>4. TypeOK'
    <2>1. /\ age' \in [Flows -> 0 .. Horizon]
          /\ sessionAge' \in [Flows -> 0 .. SessionTTL]
          /\ busy' \in [Tabs -> 0 .. HandlerBound]
      BY <1>1, <1>2, <1>3
    <2> QED
      BY <2>1 DEF Inv, TypeOK, cookieVars, codeVars, configVars
  <1>5. ASSUME NEW b \in Browsers PROVE CookieInv(b)'
    BY DEF Inv, CookieInv, cookieVars
  <1>6. ASSUME NEW u \in Tabs PROVE TabInv(u)' /\ HandlerInv(u)'
    <2>1. TabInv(u) /\ HandlerInv(u) /\ pc' = pc /\ flow' = flow /\ given' = given
      BY DEF Inv
    <2>2. Working(u) => age'[flow[u]] < StateTTL + busy'[u]
      <3> SUFFICES ASSUME Working(u) PROVE age'[flow[u]] < StateTTL + busy'[u]
        OBVIOUS
      <3>1. flow[u] \in Flows /\ age[flow[u]] < StateTTL + busy[u]
        BY <2>1 DEF TabInv, HandlerInv, Working, Holding
      <3>2. QED
        <4>1. age[flow[u]] \in Nat /\ busy[u] \in Nat /\ age'[flow[u]] \in Nat
          BY <1>1, <3>1, Ages
        <4>2. age'[flow[u]] <= age[flow[u]] + 1 /\ busy'[u] = busy[u] + 1
          BY <1>1, <1>3, <3>1
        <4> QED
          BY <3>1, <4>1, <4>2, Ages
    <2> QED
      BY <2>1, <2>2 DEF TabInv, HandlerInv, Working, codeVars, configVars
  <1>7. OneTabEach'
    BY DEF Inv, OneTabEach
  <1>8. ASSUME NEW g \in Flows PROVE SessionInv(g)'
    BY <1>1, <1>2 DEF Inv, TypeOK, SessionInv, codeVars, Horizon
  <1> QED
    BY <1>4, <1>5, <1>6, <1>7, <1>8 DEF Inv

\* A browser drops a cookie.
LEMMA ExpireStep ==
  ASSUME Inv, NEW b \in Browsers, CookiesExpire(b)
  PROVE  Inv'
  <1>1. TypeOK'
    BY DEF CookiesExpire, Inv, TypeOK, flowVars, codeVars, sessionVars, tabVars, configVars
  <1>2. ASSUME NEW c \in Browsers PROVE CookieInv(c)'
    BY DEF CookiesExpire, Inv, TypeOK, CookieInv, flowVars, sessionVars
  <1>3. /\ \A t \in Tabs : TabInv(t)' /\ HandlerInv(t)'
        /\ OneTabEach'
        /\ \A f \in Flows : SessionInv(f)'
    BY DEF CookiesExpire, Inv, TabInv, HandlerInv, Working, OneTabEach, SessionInv,
           flowVars, codeVars, sessionVars, tabVars, configVars
  <1> QED
    BY <1>1, <1>2, <1>3 DEF Inv

\* Every step preserves the invariant.
LEMMA InvStep == Inv /\ [Next]_vars => Inv'
  <1> SUFFICES ASSUME Inv, [Next]_vars PROVE Inv'
    OBVIOUS
  <1>1. ASSUME NEW t \in Tabs,
               \/ HandleLogin(t) \/ LoginArrives(t)
               \/ \E u \in Users : Authenticate(t, u)
               \/ Deny(t) \/ Callback(t) \/ Exchange(t) \/ CallbackFails(t)
               \/ CallbackForbidden(t) \/ CallbackSucceeds(t) \/ CallbackArrives(t)
               \/ HandleLogout(t) \/ LogoutArrives(t) \/ Abandon(t)
        PROVE  Inv'
    BY <1>1, LoginStep, LeaveStep, ProviderStep, ArriveStep, AcceptStep, ExchangeStep, SucceedStep
       DEF Callback
  <1>2. ASSUME NEW s \in 1 .. MaxSecrets, NEW a \in Allowlists, Restart(s, a)
        PROVE  Inv'
    BY <1>2, RestartStep
  <1>3. ASSUME NEW b \in Browsers, CookiesExpire(b) PROVE Inv'
    BY <1>3, ExpireStep
  <1>4. CASE Tick
    BY <1>4, TickStep
  <1>5. CASE UNCHANGED vars
    BY <1>5 DEF vars, Inv, TypeOK, CookieInv, TabInv, HandlerInv, Working, OneTabEach, SessionInv
  <1> QED
    BY <1>1, <1>2, <1>3, <1>4, <1>5 DEF Next

\* The invariant holds in every state.
THEOREM Invariant == Spec => []Inv
  BY InvInit, InvStep, PTL DEF Spec

-----------------------------------------------------------------------------
(* What follows from it.                                                   *)

\* Type correctness.
THEOREM TypeCorrect == Spec => []TypeOK
  <1>1. Inv => TypeOK
    BY DEF Inv
  <1> QED
    BY <1>1, Invariant, PTL

\* A browser is signed in only by a login that it began itself, and as the
\* account that the provider authenticated in that login (auth.go:616), with
\* any link where the provider compares verifiers or its ID tokens carry nonces.
THEOREM OwnLoginOnly == Spec => []SignedInByOwnLogin
  <1>1. Inv => SignedInByOwnLogin
    <2> SUFFICES ASSUME Inv, NEW b \in Browsers, sessionCookie[b] # None
                 PROVE  LET f == sessionCookie[b] IN starter[f] = b /\ account[f] = code[f]
      BY DEF SignedInByOwnLogin
    <2>1. sessionCookie[b] \in Flows /\ CookieInv(b)
      BY DEF Inv, TypeOK
    <2> QED
      BY <2>1 DEF Inv, CookieInv, SessionInv
  <1> QED
    BY <1>1, Invariant, PTL

\* What is known of a session that a request is served for.
LEMMA ServedSession ==
  ASSUME Inv, NEW b \in Browsers, Authenticated(b)
  PROVE  /\ sessionCookie[b] \in Flows /\ SessionInv(sessionCookie[b])
         /\ sessionKey[sessionCookie[b]] = secret /\ secret # 0
         /\ sessionAge[sessionCookie[b]] < SessionTTL
  BY LoginAssumption DEF Inv, TypeOK, Authenticated, decodeSession

\* Nobody is served beyond the three time limits together, and only for a code
\* that was redeemed (authenticate).
THEOREM LimitsHold == Spec => []ServedWithinLimits
  <1>1. Inv => ServedWithinLimits
    <2> SUFFICES ASSUME Inv, NEW b \in Browsers, Authenticated(b)
                 PROVE  LET f == sessionCookie[b] IN age[f] < Horizon /\ redeemed[f]
      BY DEF ServedWithinLimits
    <2> DEFINE f == sessionCookie[b]
    <2>1. f \in Flows /\ SessionInv(f) /\ sessionKey[f] # 0 /\ sessionAge[f] < SessionTTL
      BY ServedSession
    <2>2. redeemed[f] /\ age[f] < StateTTL + HandlerBound + sessionAge[f]
      BY <2>1 DEF SessionInv
    <2> QED
      BY <2>1, <2>2, Ages DEF Horizon
  <1> QED
    BY <1>1, Invariant, PTL

\* Nobody is served for a login that began under another secret (README.md:496;
\* decodeAuthState, decodeSession).
THEOREM NewSecretEndsLogins == Spec => []SecretOutlivesNoLogin
  <1>1. Inv => SecretOutlivesNoLogin
    BY ServedSession DEF SecretOutlivesNoLogin, SessionInv
  <1> QED
    BY <1>1, Invariant, PTL

\* A callback that is repeated gives no second session (HandleCallback).
THEOREM NoSecondSession == Spec => OneSessionPerFlow
  <1>1. Inv /\ [Next]_vars =>
          [\A f \in Flows : sessionKey'[f] # 0 /\ sessionAge'[f] = 0
             /\ sessionAge[f] # 0 => sessionKey[f] = 0]_vars
    <2> SUFFICES ASSUME Inv, Next, NEW f \in Flows,
                        sessionKey'[f] # 0, sessionAge'[f] = 0, sessionAge[f] # 0
                 PROVE  sessionKey[f] = 0
      OBVIOUS
    <2> USE LoginAssumption
    <2>1. sessionAge' # sessionAge
      OBVIOUS
    <2>2. ASSUME NEW t \in Tabs, CallbackSucceeds(t) PROVE sessionKey[f] = 0
      <3>1. flow[t] \in Flows /\ sessionKey[flow[t]] = 0
        BY <2>2, OwnCode
      <3>2. sessionAge' = [sessionAge EXCEPT ![flow[t]] = 0]
        BY <2>2 DEF CallbackSucceeds
      <3>3. f = flow[t]
        BY <3>1, <3>2 DEF Inv, TypeOK
      <3> QED
        BY <3>1, <3>3
    <2>3. ASSUME NEW t \in Tabs, HandleLogin(t) PROVE FALSE
      BY <2>3 DEF HandleLogin, Inv, TypeOK
    <2>4. CASE Tick
      BY <2>4 DEF Tick, Older, Inv, TypeOK
    <2>5. ASSUME \/ \E t \in Tabs : \/ LoginArrives(t) \/ Deny(t) \/ Callback(t)
                                    \/ \E u \in Users : Authenticate(t, u)
                                    \/ Exchange(t) \/ CallbackFails(t)
                                    \/ CallbackForbidden(t) \/ CallbackArrives(t)
                                    \/ HandleLogout(t) \/ LogoutArrives(t)
                                    \/ Abandon(t)
                 \/ \E k \in 1 .. MaxSecrets, a \in Allowlists : Restart(k, a)
                 \/ \E b \in Browsers : CookiesExpire(b)
          PROVE  sessionAge' = sessionAge
      BY <2>5
         DEF Callback, LoginArrives, Authenticate, Deny, CallbackDenied,
             CallbackWithoutCookie, CallbackRejected, CallbackAccepted, Exchange,
             CallbackFails, CallbackForbidden, CallbackArrives, HandleLogout,
             LogoutArrives, Abandon, Restart, CookiesExpire, sessionVars
    <2> QED
      BY <2>1, <2>2, <2>3, <2>4, <2>5 DEF Next
  <1> QED
    BY <1>1, Invariant, PTL DEF Spec, OneSessionPerFlow

-----------------------------------------------------------------------------
(* The login implements Sessions.                                          *)

\* Nobody is signed in at first.
LEMMA SessionsInit == Init => Session!Init
  <1> SUFFICES ASSUME Init PROVE Session!Init
    OBVIOUS
  <1>1. TypeOK
    BY InvInit DEF Inv
  <1> QED
    BY <1>1 DEF Init, TypeOK, Session!Init

\* HandleLogin begins a login.
LEMMA SessionsBegin ==
  ASSUME Inv, NEW t \in Tabs, HandleLogin(t)
  PROVE  Session!Next
  <1>1. PICK f \in Flows :
          /\ ~InUse(f)
          /\ starter' = [starter EXCEPT ![f] = BrowserOf[t]]
          /\ code' = [code EXCEPT ![f] = Nobody]
          /\ account' = [account EXCEPT ![f] = Nobody]
          /\ UNCHANGED sessionCookie
    BY DEF HandleLogin, cookieVars
  <1>2. \A b \in Browsers : sessionCookie[b] # f
    BY <1>1 DEF InUse
  <1>3. Session!Begin(BrowserOf[t], f)
    BY <1>1, <1>2 DEF Session!Begin
  <1> QED
    BY <1>3, LoginAssumption DEF Session!Next

\* The provider authenticates an account in a login that had none.
LEMMA SessionsAuthenticate ==
  ASSUME Inv, NEW t \in Tabs, NEW u \in Users, Authenticate(t, u)
  PROVE  Session!Next
  <1>1. flow[t] \in Flows /\ code[flow[t]] = Nobody
    BY DEF Authenticate, Inv, TabInv, Holding, Beginning
  <1>2. Session!Authenticate(flow[t], u)
    BY <1>1 DEF Authenticate, Session!Authenticate, cookieVars, flowVars, sessionVars
  <1> QED
    BY <1>1, <1>2 DEF Session!Next

\* The session is made: of the account of the login's own code.
LEMMA SessionsGive ==
  ASSUME Inv, NEW t \in Tabs, CallbackSucceeds(t)
  PROVE  Session!Next
  <1>1. /\ given[t] = flow[t] /\ flow[t] \in Flows
        /\ code[flow[t]] # Nobody /\ sessionKey[flow[t]] = 0
    BY OwnCode
  <1>2. account[flow[t]] = Nobody
    BY <1>1 DEF Inv, SessionInv
  <1>3. /\ account' = [account EXCEPT ![flow[t]] = code[flow[t]]]
        /\ UNCHANGED <<starter, code, sessionCookie>>
    BY <1>1 DEF CallbackSucceeds, codeVars, flowVars, cookieVars
  <1>4. Session!Give(flow[t])
    BY <1>1, <1>2, <1>3 DEF Session!Give
  <1> QED
    BY <1>1, <1>4 DEF Session!Next

\* The response of a successful callback signs the browser in by its own login.
LEMMA SessionsArrive ==
  ASSUME Inv, NEW t \in Tabs, CallbackArrives(t)
  PROVE  [Session!Next]_(Session!vars)
  <1>1. UNCHANGED <<starter, account, code>>
    BY DEF CallbackArrives, flowVars, codeVars, sessionVars
  <1>2. CASE pc[t] = "signingIn"
    <2>1. /\ flow[t] \in Flows /\ starter[flow[t]] = BrowserOf[t]
          /\ account[flow[t]] # Nobody
      BY <1>2 DEF Inv, TabInv, SessionInv, Holding
    <2>2. sessionCookie' = [sessionCookie EXCEPT ![BrowserOf[t]] = flow[t]]
      BY <1>2 DEF CallbackArrives
    <2>3. Session!SignIn(BrowserOf[t], flow[t])
      BY <1>1, <2>1, <2>2 DEF Session!SignIn
    <2> QED
      BY <2>1, <2>3, LoginAssumption DEF Session!Next
  <1>3. CASE pc[t] # "signingIn"
    <2>1. sessionCookie' = sessionCookie
      BY <1>3 DEF CallbackArrives
    <2> QED
      BY <1>1, <2>1 DEF Session!vars
  <1> QED
    BY <1>2, <1>3

\* A logout, or a cookie that expires, signs the browser out.
LEMMA SessionsOut ==
  ASSUME Inv, NEW b \in Browsers,
         sessionCookie' = [sessionCookie EXCEPT ![b] = None],
         UNCHANGED <<starter, account, code>>
  PROVE  Session!Next
  <1>1. Session!SignOut(b)
    BY DEF Session!SignOut
  <1> QED
    BY <1>1 DEF Session!Next

\* Every step is one of Sessions, or a stutter.
LEMMA SessionsStep == Inv /\ [Next]_vars => [Session!Next]_(Session!vars)
  <1> SUFFICES ASSUME Inv, [Next]_vars PROVE [Session!Next]_(Session!vars)
    OBVIOUS
  <1>1. ASSUME NEW t \in Tabs, LogoutArrives(t)
        PROVE  Session!Next
    BY <1>1, SessionsOut, LoginAssumption
       DEF LogoutArrives, flowVars, codeVars, sessionVars
  <1>2. ASSUME NEW b \in Browsers, CookiesExpire(b)
        PROVE  [Session!Next]_(Session!vars)
    BY <1>2, SessionsOut
       DEF CookiesExpire, Session!vars, flowVars, codeVars, sessionVars
  <1>3. ASSUME \/ \E t \in Tabs : \/ LoginArrives(t) \/ Deny(t) \/ Callback(t)
                                  \/ Exchange(t) \/ CallbackFails(t)
                                  \/ CallbackForbidden(t) \/ HandleLogout(t)
                                  \/ Abandon(t)
               \/ \E s \in 1 .. MaxSecrets, a \in Allowlists : Restart(s, a)
               \/ Tick
               \/ UNCHANGED vars
        PROVE  UNCHANGED Session!vars
    <2>1. UNCHANGED <<starter, account, sessionCookie, code>>
      BY <1>3 DEF LoginArrives, Deny, Callback, CallbackDenied,
                  CallbackWithoutCookie, CallbackRejected, CallbackAccepted,
                  Exchange, CallbackFails, CallbackForbidden, HandleLogout,
                  Abandon, Restart, Tick, vars, cookieVars, flowVars, codeVars,
                  sessionVars
    <2> QED
      BY <2>1 DEF Session!vars
  <1> QED
    BY <1>1, <1>2, <1>3, SessionsBegin, SessionsAuthenticate, SessionsGive,
       SessionsArrive DEF Next

\* Signing in keeps what Sessions promises (HandleLogin to authenticate).
THEOREM LoginImplementsSessions == Spec => ImplementsSessions
  BY Invariant, SessionsInit, SessionsStep, PTL
     DEF Spec, ImplementsSessions, Session!Spec
=============================================================================
