----------------------------- MODULE LoginFlow -----------------------------
(***************************************************************************)
(* Interactive login: HandleLogin, HandleCallback, HandleLogout and the    *)
(* session part of authenticate() in src/internal/service/auth.go, with    *)
(* the signed cookies of session.go.                                       *)
(*                                                                         *)
(* The server keeps nothing between requests.  What a login has come to is *)
(* in the cookies of the browser, in the responses on their way to it and  *)
(* at the provider.  A browser has several tabs that share its cookies; a  *)
(* response changes the cookies when it arrives, in any order, or is lost; *)
(* a callback link can be opened again, in another browser, and with the   *)
(* state of one login and the code of another; a restart may bring another *)
(* SESSION_SECRET and another allowlist.                                   *)
(*                                                                         *)
(* A flow is one run of HandleLogin: its state token, verifier and nonce.  *)
(* A session is told apart by the flow whose state cookie it came from.  A *)
(* flow that nothing refers to any more can be taken for a new login.      *)
(***************************************************************************)
EXTENDS Naturals

CONSTANTS Browsers, Tabs,
          BrowserOf,     \* BrowserOf[t]: the browser of tab t
          Users,         \* accounts at the provider
          Nobody,        \* no account
          Flows,         \* bound: logins that something still refers to
          None,          \* no login
          StateTTL,      \* OAUTH_STATE_TTL, in ticks
          SessionTTL,    \* SESSION_TTL, in ticks
          HandlerBound,  \* most ticks a callback handler lives
          MaxSecrets,    \* bound: values SESSION_SECRET takes
          Allowlists,    \* bound: the sets of accounts an allowlist accepts
          Settings       \* what ties a code to its login, see below

ASSUME LoginAssumption ==
  /\ Browsers # {}
  /\ BrowserOf \in [Tabs -> Browsers]
  /\ Nobody \notin Users
  /\ None \notin Flows
  /\ StateTTL \in Nat \ {0}
  /\ SessionTTL \in Nat \ {0}
  /\ HandlerBound \in Nat
  /\ MaxSecrets \in Nat \ {0}
  /\ Allowlists # {} /\ Allowlists \subseteq SUBSET Users
  /\ Settings # {}
  /\ Settings \subseteq [pkce : BOOLEAN, oidc : BOOLEAN, mixed : BOOLEAN]

\* pkce: the provider compares the verifier with the challenge of the login the
\* code is from; oidc: AUTH_MODE is oidc, so that its ID token carries the nonce
\* of that login; mixed: somebody opens a link with the state of one login and
\* the code of another.  Without the first two nothing in the code or at the
\* provider could tell such a link.
ASSUME SettingsAssumption == \A s \in Settings : s.mixed => s.pkce \/ s.oidc

VARIABLES stateCookie,    \* stateCookie[b]: the flow in b's state cookie
          sessionCookie,  \* sessionCookie[b]: the flow in b's session cookie
          starter,        \* the browser that started the flow
          age,            \* age of the flow's state
          stateKey,       \* the secret the flow's state was signed with
          code,           \* the account the flow's code stands for
          redeemed,       \* whether the provider has taken the code back
          sessionKey,     \* the secret the flow's session was signed with, 0: none
          sessionAge,     \* age of the flow's session
          account,        \* the account in the flow's session
          pc,             \* where a tab and the handler serving it are
          flow,           \* the flow its request or response is about
          given,          \* the flow whose code its callback carried
          busy,           \* age of its callback handler
          secret,         \* cfg.SessionSecret
          allowed,        \* the accounts checkAllowed accepts
          setting         \* what ties a code to its login

cookieVars  == <<stateCookie, sessionCookie>>
flowVars    == <<starter, age, stateKey>>
codeVars    == <<code, redeemed>>
sessionVars == <<sessionKey, sessionAge, account>>
tabVars     == <<pc, flow, given, busy>>
configVars  == <<secret, allowed, setting>>
vars == <<stateCookie, sessionCookie, starter, age, stateKey, code, redeemed,
          sessionKey, sessionAge, account, pc, flow, given, busy,
          secret, allowed, setting>>

\* The age of a login at which nobody can be served for it any more.
Horizon == StateTTL + HandlerBound + SessionTTL - 1

\* "redirecting", "clearing", "signingIn", "loggingOut": a response under way;
\* "atProvider": on the provider's pages; "denied", "granted": sent back by
\* it; "exchanging", "redeemed": a callback handler at work.
Labels == {"idle", "redirecting", "atProvider", "denied", "granted",
           "exchanging", "redeemed", "clearing", "signingIn", "loggingOut"}

TypeOK ==
  /\ stateCookie \in [Browsers -> Flows \union {None}]
  /\ sessionCookie \in [Browsers -> Flows \union {None}]
  /\ starter \in [Flows -> Browsers]
  /\ age \in [Flows -> 0 .. Horizon]
  /\ stateKey \in [Flows -> 1 .. MaxSecrets]
  /\ code \in [Flows -> Users \union {Nobody}]
  /\ redeemed \in [Flows -> BOOLEAN]
  /\ sessionKey \in [Flows -> 0 .. MaxSecrets]
  /\ sessionAge \in [Flows -> 0 .. SessionTTL]
  /\ account \in [Flows -> Users \union {Nobody}]
  /\ pc \in [Tabs -> Labels]
  /\ flow \in [Tabs -> Flows \union {None}]
  /\ given \in [Tabs -> Flows \union {None}]
  /\ busy \in [Tabs -> 0 .. HandlerBound]
  /\ secret \in 1 .. MaxSecrets
  /\ allowed \in Allowlists
  /\ setting \in Settings

Init ==
  /\ stateCookie = [b \in Browsers |-> None]
  /\ sessionCookie = [b \in Browsers |-> None]
  /\ starter \in {[f \in Flows |-> b] : b \in {CHOOSE b \in Browsers : TRUE}}
  /\ age = [f \in Flows |-> Horizon]
  /\ stateKey = [f \in Flows |-> 1]
  /\ code = [f \in Flows |-> Nobody]
  /\ redeemed = [f \in Flows |-> FALSE]
  /\ sessionKey = [f \in Flows |-> 0]
  /\ sessionAge = [f \in Flows |-> SessionTTL]
  /\ account = [f \in Flows |-> Nobody]
  /\ pc = [t \in Tabs |-> "idle"]
  /\ flow = [t \in Tabs |-> None]
  /\ given = [t \in Tabs |-> None]
  /\ busy = [t \in Tabs |-> 0]
  /\ secret = 1
  /\ allowed \in Allowlists
  /\ setting \in Settings

----------------------------------------------------------------------------
Move(t, label, f, g) ==
  /\ pc' = [pc EXCEPT ![t] = label]
  /\ flow' = [flow EXCEPT ![t] = f]
  /\ given' = [given EXCEPT ![t] = g]
  /\ busy' = [busy EXCEPT ![t] = 0]

InUse(f) ==
  \/ \E b \in Browsers : f \in {stateCookie[b], sessionCookie[b]}
  \/ \E t \in Tabs : f \in {flow[t], given[t]}

\* HandleLogin: a state token of its own, signed, with a time limit; the
\* response sets the state cookie and redirects to the provider.
HandleLogin(t) ==
  /\ pc[t] = "idle"
  /\ \E f \in Flows :
       /\ ~InUse(f)
       /\ starter' = [starter EXCEPT ![f] = BrowserOf[t]]
       /\ age' = [age EXCEPT ![f] = 0]
       /\ stateKey' = [stateKey EXCEPT ![f] = secret]
       /\ code' = [code EXCEPT ![f] = Nobody]
       /\ redeemed' = [redeemed EXCEPT ![f] = FALSE]
       /\ sessionKey' = [sessionKey EXCEPT ![f] = 0]
       /\ sessionAge' = [sessionAge EXCEPT ![f] = SessionTTL]
       /\ account' = [account EXCEPT ![f] = Nobody]
       /\ Move(t, "redirecting", f, None)
  /\ UNCHANGED <<cookieVars, configVars>>

\* Mutant: a Secure cookie over http, which the browser drops.
LoginArrivesDropped(t) ==
  /\ pc[t] = "redirecting"
  /\ Move(t, "atProvider", flow[t], None)
  /\ UNCHANGED <<cookieVars, flowVars, codeVars, sessionVars, configVars>>

\* The browser stores the state cookie and goes to the provider.
LoginArrives(t) ==
  /\ pc[t] = "redirecting"
  /\ stateCookie' = [stateCookie EXCEPT ![BrowserOf[t]] = flow[t]]
  /\ Move(t, "atProvider", flow[t], None)
  /\ UNCHANGED <<sessionCookie, flowVars, codeVars, sessionVars, configVars>>

\* The provider authenticates the user and sends the browser back with a code.
Authenticate(t, u) ==
  /\ pc[t] = "atProvider"
  /\ code' = [code EXCEPT ![flow[t]] = u]
  /\ Move(t, "granted", flow[t], None)
  /\ UNCHANGED <<cookieVars, flowVars, redeemed, sessionVars, configVars>>

\* It sends the browser back with an error.
Deny(t) ==
  /\ pc[t] = "atProvider"
  /\ Move(t, "denied", flow[t], None)
  /\ UNCHANGED <<cookieVars, flowVars, codeVars, sessionVars, configVars>>

----------------------------------------------------------------------------
\* A callback with state f and the code of flow g, two values of the query that
\* nothing ties together: the provider's redirect, or any link opened in a tab.
CallbackLink(t, f, g) ==
  \/ pc[t] = "granted" /\ f = flow[t] /\ g = flow[t]
  \/ pc[t] = "idle" /\ code[g] # Nobody /\ (f = g \/ setting.mixed)

\* decodeAuthState: signed with the present secret, and in time.
decodeAuthStateUntimed(f)  == stateKey[f] = secret     \* mutant: no ExpiresAt
decodeAuthStateUnsigned(f) == age[f] < StateTTL        \* mutant: no signature
decodeAuthState(f)         == stateKey[f] = secret /\ age[f] < StateTTL

\* The state parameter is the one in the cookie.
AnyState(cookie, f)  == TRUE                           \* mutant: no comparison
SameState(cookie, f) == cookie = f

CallbackDenied(t) ==
  /\ pc[t] = "denied"
  /\ Move(t, "clearing", None, None)
  /\ UNCHANGED <<cookieVars, flowVars, codeVars, sessionVars, configVars>>

\* The browser sent no state cookie: 400, and no cookie is touched.
CallbackWithoutCookie(t, f, g) ==
  /\ CallbackLink(t, f, g)
  /\ stateCookie[BrowserOf[t]] = None
  /\ Move(t, "idle", None, None)
  /\ UNCHANGED <<cookieVars, flowVars, codeVars, sessionVars, configVars>>

\* The state cookie is of another flow, out of time or signed with another
\* secret: 400, and the response clears whatever state cookie is there.
CallbackRejected(t, f, g) ==
  /\ CallbackLink(t, f, g)
  /\ LET cookie == stateCookie[BrowserOf[t]] IN
       /\ cookie # None
       /\ ~(decodeAuthState(cookie) /\ SameState(cookie, f))
  /\ Move(t, "clearing", None, None)
  /\ UNCHANGED <<cookieVars, flowVars, codeVars, sessionVars, configVars>>

\* The handler goes on with the verifier and the nonce of the cookie and with
\* the code of the link.
CallbackAccepted(t, f, g) ==
  /\ CallbackLink(t, f, g)
  /\ LET cookie == stateCookie[BrowserOf[t]] IN
       /\ cookie # None
       /\ decodeAuthState(cookie) /\ SameState(cookie, f)
       /\ Move(t, "exchanging", cookie, g)
  /\ UNCHANGED <<cookieVars, flowVars, codeVars, sessionVars, configVars>>

\* exchange(): the provider redeems a code once, and for the verifier of the
\* login it is from if it compares verifiers at all.
Exchange(t) ==
  /\ pc[t] = "exchanging"
  /\ ~redeemed[given[t]]
  /\ setting.pkce => flow[t] = given[t]
  /\ redeemed' = [redeemed EXCEPT ![given[t]] = TRUE]
  /\ pc' = [pc EXCEPT ![t] = "redeemed"]
  /\ UNCHANGED <<cookieVars, flowVars, code, sessionVars, flow, given, busy, configVars>>

\* verifyJWT: the nonce in the ID token is that of the login the code is from,
\* the expected one that of the state cookie.
AnyNonce(t)  == TRUE                                   \* mutant: no comparison
SameNonce(t) == setting.oidc => flow[t] = given[t]

\* Mutant: the error of a second redemption is ignored.
CallbackFailsIgnored(t) ==
  /\ pc[t] = "exchanging"
  /\ pc' = [pc EXCEPT ![t] = "redeemed"]
  /\ UNCHANGED <<cookieVars, flowVars, codeVars, sessionVars, flow, given, busy, configVars>>

\* The provider is out of reach, refuses the code, or its answer is lost or
\* does not verify, its nonce included: 503, 502 or 401; or userinfo fails and
\* leaves an account without the address that is on the allowlist: 403.  Each
\* clears the state cookie.
CallbackFails(t) ==
  /\ pc[t] \in {"exchanging", "redeemed"}
  /\ Move(t, "clearing", None, None)
  /\ UNCHANGED <<cookieVars, flowVars, codeVars, sessionVars, configVars>>

\* checkAllowed refuses the account: 403.
CallbackForbidden(t) ==
  /\ pc[t] = "redeemed" /\ SameNonce(t)
  /\ code[given[t]] \notin allowed
  /\ Move(t, "clearing", None, None)
  /\ UNCHANGED <<cookieVars, flowVars, codeVars, sessionVars, configVars>>

\* The session is signed; the response clears the state and sets the session.
CallbackSucceeds(t) ==
  /\ pc[t] = "redeemed" /\ SameNonce(t)
  /\ code[given[t]] \in allowed
  /\ sessionKey' = [sessionKey EXCEPT ![flow[t]] = secret]
  /\ sessionAge' = [sessionAge EXCEPT ![flow[t]] = 0]
  /\ account' = [account EXCEPT ![flow[t]] = code[given[t]]]
  /\ Move(t, "signingIn", flow[t], None)
  /\ UNCHANGED <<cookieVars, flowVars, codeVars, configVars>>

\* The response of a callback reaches the browser.
CallbackArrives(t) ==
  /\ pc[t] \in {"clearing", "signingIn"}
  /\ stateCookie' = [stateCookie EXCEPT ![BrowserOf[t]] = None]
  /\ sessionCookie' = IF pc[t] = "signingIn"
                        THEN [sessionCookie EXCEPT ![BrowserOf[t]] = flow[t]]
                        ELSE sessionCookie
  /\ Move(t, "idle", None, None)
  /\ UNCHANGED <<flowVars, codeVars, sessionVars, configVars>>

----------------------------------------------------------------------------
HandleLogout(t) ==
  /\ pc[t] = "idle"
  /\ Move(t, "loggingOut", None, None)
  /\ UNCHANGED <<cookieVars, flowVars, codeVars, sessionVars, configVars>>

LogoutArrives(t) ==
  /\ pc[t] = "loggingOut"
  /\ sessionCookie' = [sessionCookie EXCEPT ![BrowserOf[t]] = None]
  /\ Move(t, "idle", None, None)
  /\ UNCHANGED <<stateCookie, flowVars, codeVars, sessionVars, configVars>>

\* A response is lost, or the user leaves the page.
Abandon(t) ==
  /\ pc[t] \in {"redirecting", "atProvider", "denied", "granted",
                "clearing", "signingIn", "loggingOut"}
  /\ Move(t, "idle", None, None)
  /\ UNCHANGED <<cookieVars, flowVars, codeVars, sessionVars, configVars>>

\* authenticate() with the session cookie of browser b, and no bearer token:
\* decodeSession, then checkAllowed again.
decodeSession(f) == sessionKey[f] = secret /\ sessionAge[f] < SessionTTL
Authenticated(b) ==
  /\ sessionCookie[b] # None
  /\ decodeSession(sessionCookie[b])
  /\ account[sessionCookie[b]] \in allowed

----------------------------------------------------------------------------
\* Handlers at work die with the process; responses under way do not.
Restart(s, a) ==
  /\ s \in {secret, secret + 1} \intersect (1 .. MaxSecrets)
  /\ secret' = s
  /\ allowed' = a
  /\ setting' = setting
  /\ LET Dead(t) == pc[t] \in {"exchanging", "redeemed"} IN
       /\ pc' = [t \in Tabs |-> IF Dead(t) THEN "idle" ELSE pc[t]]
       /\ flow' = [t \in Tabs |-> IF Dead(t) THEN None ELSE flow[t]]
       /\ given' = [t \in Tabs |-> IF Dead(t) THEN None ELSE given[t]]
       /\ busy' = [t \in Tabs |-> IF Dead(t) THEN 0 ELSE busy[t]]
  /\ UNCHANGED <<cookieVars, flowVars, codeVars, sessionVars>>

\* The browser drops a cookie some time after its time limit.
CookiesExpire(b) ==
  \/ /\ stateCookie[b] # None
     /\ age[stateCookie[b]] >= StateTTL
     /\ stateCookie' = [stateCookie EXCEPT ![b] = None]
     /\ UNCHANGED <<sessionCookie, flowVars, codeVars, sessionVars, tabVars, configVars>>
  \/ /\ sessionCookie[b] # None
     /\ sessionAge[sessionCookie[b]] = SessionTTL
     /\ sessionCookie' = [sessionCookie EXCEPT ![b] = None]
     /\ UNCHANGED <<stateCookie, flowVars, codeVars, sessionVars, tabVars, configVars>>

Older(a, cap) == IF a < cap THEN a + 1 ELSE cap
Working(t)    == pc[t] \in {"exchanging", "redeemed"}

Tick ==
  /\ \A t \in Tabs : Working(t) => busy[t] < HandlerBound
  /\ age' = [f \in Flows |-> Older(age[f], Horizon)]
  /\ sessionAge' = [f \in Flows |-> Older(sessionAge[f], SessionTTL)]
  /\ busy' = [t \in Tabs |-> IF Working(t) THEN busy[t] + 1 ELSE 0]
  /\ UNCHANGED <<cookieVars, starter, stateKey, codeVars, sessionKey, account,
                 pc, flow, given, configVars>>

Callback(t) ==
  \/ CallbackDenied(t)
  \/ \E f, g \in Flows : \/ CallbackWithoutCookie(t, f, g)
                         \/ CallbackRejected(t, f, g)
                         \/ CallbackAccepted(t, f, g)

Next ==
  \/ \E t \in Tabs :
       \/ HandleLogin(t)
       \/ LoginArrives(t)
       \/ \E u \in Users : Authenticate(t, u)
       \/ Deny(t)
       \/ Callback(t)
       \/ Exchange(t)
       \/ CallbackFails(t)
       \/ CallbackForbidden(t)
       \/ CallbackSucceeds(t)
       \/ CallbackArrives(t)
       \/ HandleLogout(t)
       \/ LogoutArrives(t)
       \/ Abandon(t)
  \/ \E s \in 1 .. MaxSecrets, a \in Allowlists : Restart(s, a)
  \/ \E b \in Browsers : CookiesExpire(b)
  \/ Tick

Spec == Init /\ [][Next]_vars

InTime(t) == flow[t] # None /\ age[flow[t]] < StateTTL

\* The user keeps trying and stays on no page for ever, and no step of a login
\* fails for ever: not every response is lost or later than the session it
\* brings, not every visit to the provider outlasts the state, the provider
\* answers some exchange, handlers return.
FairSpec ==
  /\ Spec
  /\ WF_vars(Tick)
  /\ \A b \in Browsers : WF_vars(CookiesExpire(b))
  /\ \A t \in Tabs :
       /\ SF_vars(HandleLogin(t))
       /\ WF_vars(Callback(t))
       /\ WF_vars(CallbackFails(t))
       /\ WF_vars(CallbackArrives(t))
       /\ WF_vars(LogoutArrives(t))
       /\ WF_vars(Abandon(t))
       /\ SF_vars(InTime(t) /\ LoginArrives(t))
       /\ SF_vars(InTime(t) /\ \E u \in Users : Authenticate(t, u))
       /\ \A f \in Flows : SF_vars(pc[t] = "granted" /\ CallbackAccepted(t, f, f))
       /\ SF_vars(Exchange(t))
       /\ SF_vars(CallbackSucceeds(t))
       /\ SF_vars(pc[t] = "signingIn" /\ sessionAge[flow[t]] < SessionTTL
                     /\ CallbackArrives(t))

----------------------------------------------------------------------------
\* auth.go:616: the signed state cookie protects the callback.  A browser is
\* signed in only by a login that it began itself, and as the account that the
\* provider authenticated in that very login, whatever links its user opens.
SignedInByOwnLogin ==
  \A b \in Browsers : sessionCookie[b] # None =>
    LET f == sessionCookie[b] IN starter[f] = b /\ account[f] = code[f]

\* A request is served for a session only within the three time limits of the
\* login it came from, across restarts, and only for a code that the provider
\* redeemed (decodeAuthState to authenticate).
ServedWithinLimits ==
  \A b \in Browsers : Authenticated(b) =>
    LET f == sessionCookie[b] IN age[f] < Horizon /\ redeemed[f]

\* README.md:496: rotating SESSION_SECRET invalidates all sessions.  Nobody is served
\* for a login that began under another secret than the present one, at
\* whichever of its steps the server was restarted.
SecretOutlivesNoLogin ==
  \A b \in Browsers : Authenticated(b) => stateKey[sessionCookie[b]] = secret

\* A callback that is repeated while the first one is at work, or later, does
\* not give a second session.
OneSessionPerFlow ==
  [][\A f \in Flows : sessionKey'[f] # 0 /\ sessionAge'[f] = 0
        /\ sessionAge[f] # 0 => sessionKey[f] = 0]_vars

\* The login implements Sessions: the account of a session never changes and is
\* the one the provider authenticated for that very login, whichever tab, late
\* response, repeated or mixed callback or restart it went through.
Session == INSTANCE Sessions WITH
  Logins        <- Flows,
  began         <- starter,
  authenticated <- code,
  signedIn      <- sessionCookie
ImplementsSessions == Session!Spec

\* A user of one tab, whose account stays allowed while the secret stays the
\* same, gets served again and again: no failure leaves the browser with
\* cookies that stand in the way of the next login.
LoginRecovers ==
  \A b \in Browsers :
    <>[][UNCHANGED configVars]_vars /\ <>[](Users \subseteq allowed)
      => []<>Authenticated(b)
=============================================================================
