------------------------------- MODULE Prune -------------------------------
(***************************************************************************)
(* POST /api/endpoints/{key}/prune-images: handleEndpointRoute,            *)
(* handlePruneImages, pruneEndpointImages and the audit lines of           *)
(* src/internal/service/endpoints.go, behind the auth middleware, and the  *)
(* way the process ends (cmd/archview/main.go).                            *)
(*                                                                         *)
(* The call to Portainer has an effect on a managed host that the handler  *)
(* learns of only from the reply.  The handler gives up when the client    *)
(* times out, when the caller disconnects, or when the process ends, and   *)
(* the call may still be carried out after that.                           *)
(*                                                                         *)
(* A request is read and authenticated first, and the middleware may wait  *)
(* for the identity provider over that: a request accepted before a stop   *)
(* may make its call when Shutdown is waiting already.  The checks after   *)
(* that read the request and the configuration only, so an attempt passes  *)
(* or fails them in one step.                                              *)
(* pruneEndpointImages also refuses to work without the Portainer settings *)
(* (503), but NewServer has refused to start without them.                 *)
(***************************************************************************)
EXTENDS TokenPolicy, Naturals, Sequences

CONSTANTS Attempts,     \* slots for requests on the route
          Requests,     \* who asks, the method, the endpoint key and ?all=
          Endpoints,    \* the keys of the registry: a host each
          Unknown,      \* a key that is not in it
          Dangling,     \* images without a tag
          Tagged,       \* tagged images no container uses
          InUse,        \* images that containers use
          AdmitTimeout, \* how long reading and authenticating a request takes
          Grace,        \* how long Shutdown waits for its handlers (15s)
          WriteTimeout, \* how long the server writes to a caller (30s)
          CallTimeout   \* the timeout of the client for Portainer (60s)

ASSUME PruneAssumption ==
  /\ Unknown \notin Endpoints
  /\ Dangling \intersect (Tagged \union InUse) = {}
  /\ Tagged \intersect InUse = {}
  /\ Requests # {}
  /\ \A q \in Requests : /\ q.who.kind \in {"none", "session", "bearer"}
                         /\ q.method \in {"POST", "GET"}
                         /\ q.key \in Endpoints \union {Unknown}
                         /\ q.all \in {"false", "true", "invalid"}
  /\ {AdmitTimeout, Grace, WriteTimeout, CallTimeout} \subseteq Nat \ {0}

VARIABLES images,    \* images[e]: the images on the host of endpoint e
          pc,        \* "idle", "waiting" to be let through, "calling", "done",
                     \* "killed" with the process, or "cut" by Shutdown
          request,   \* what the attempt asks for
          call,      \* its call to Portainer: "none", "sent", "pruned", "refused"
          deleted,   \* the images Docker deleted for it
          audit,     \* the audit lines written for it
          answer,    \* the status it is answered with, and the images listed
          held,      \* for how long it waited to be let through
          age,       \* for how long it has been calling
          phase,     \* the process: "up", "draining" or "down"
          waited     \* for how long Shutdown has waited

process == <<phase, waited>>
vars == <<images, pc, request, call, deleted, audit, answer, held, age, process>>

Statuses == {200, 400, 401, 403, 404, 405, 502}
Outcomes == {"deleted", "refused", "failed"}

\* What a slot holds before its attempt arrives.
NoRequest == CHOOSE q \in Requests : TRUE

NoAnswer == [status |-> 0, listed |-> {}]

\* What docker image prune selects under the filters the handler sends.
Selected(all) == IF all THEN Dangling \union Tagged ELSE Dangling

principal(q) == authenticate(q.who)

waiting == {a \in Attempts : pc[a] = "waiting"}
calling == {a \in Attempts : pc[a] = "calling"}

TypeOK ==
  /\ images \in [Endpoints -> SUBSET (Dangling \union Tagged \union InUse)]
  /\ pc \in [Attempts -> {"idle", "waiting", "calling", "done", "killed", "cut"}]
  /\ request \in [Attempts -> Requests]
  /\ call \in [Attempts -> {"none", "sent", "pruned", "refused"}]
  /\ deleted \in [Attempts -> SUBSET (Dangling \union Tagged \union InUse)]
  /\ DOMAIN audit = Attempts /\ DOMAIN answer = Attempts
  /\ \A a \in Attempts :
       /\ \A i \in DOMAIN audit[a] : audit[a][i].outcome \in Outcomes
       /\ \/ answer[a] = NoAnswer
          \/ answer[a] \in [status : Statuses,
                            listed : SUBSET (Dangling \union Tagged \union InUse)]
  /\ held \in [Attempts -> 0 .. AdmitTimeout]
  /\ age \in [Attempts -> 0 .. CallTimeout]
  /\ phase \in {"up", "draining", "down"}
  /\ waited \in 0 .. Grace

Init ==
  /\ images = [e \in Endpoints |-> Dangling \union Tagged \union InUse]
  /\ pc = [a \in Attempts |-> "idle"]
  /\ request = [a \in Attempts |-> NoRequest]
  /\ call = [a \in Attempts |-> "none"]
  /\ deleted = [a \in Attempts |-> {}]
  /\ audit = [a \in Attempts |-> <<>>]
  /\ answer = [a \in Attempts |-> NoAnswer]
  /\ held = [a \in Attempts |-> 0]
  /\ age = [a \in Attempts |-> 0]
  /\ phase = "up"
  /\ waited = 0

-----------------------------------------------------------------------------
(* What the handler does on its way out. *)

\* endpointPrincipalIdentity and pruneMode: the two are read from the request
\* again, and a parameter that does not parse is reported as "dangling".
endpointPrincipalIdentity(p) == IF p.email # NoValue THEN p.email ELSE p.name

pruneMode(q) == IF q.all = "true" THEN "all" ELSE "dangling"

auditEndpointAttempt(a, q, outcome) ==
  audit' = [audit EXCEPT ![a] = Append(@,
              [principal |-> endpointPrincipalIdentity(principal(q)),
               method    |-> principal(q).method,
               key       |-> q.key,
               mode      |-> pruneMode(q),
               outcome   |-> outcome])]

\* The answer is lost when the caller is gone, and cannot be written any more
\* after the server's WriteTimeout, which runs from when the request was read.
writeJSON(a, status, listed) ==
  /\ pc' = [pc EXCEPT ![a] = "done"]
  /\ held' = [held EXCEPT ![a] = 0]
  /\ age' = [age EXCEPT ![a] = 0]
  /\ \/ /\ held[a] + age[a] < WriteTimeout
        /\ answer' = [answer EXCEPT ![a] = [status |-> status, listed |-> listed]]
     \/ UNCHANGED answer

-----------------------------------------------------------------------------
(* An attempt arrives, and is let through check by check. *)

\* The server begins with a request on a connection it has accepted.  Shutdown
\* closes the listener and the connections without a request.
Accept(a) ==
  /\ phase = "up" /\ pc[a] = "idle"
  /\ pc' = [pc EXCEPT ![a] = "waiting"]
  /\ UNCHANGED <<images, request, call, deleted, audit, answer, held, age, process>>

Arrive(a, q) ==
  /\ request' = [request EXCEPT ![a] = q]
  /\ UNCHANGED <<images, deleted, process>>

Refuse(a, q, status) ==
  /\ Arrive(a, q)
  /\ writeJSON(a, status, {})
  /\ auditEndpointAttempt(a, q, "refused")
  /\ UNCHANGED call

RefuseSilently(a, q, status) ==
  /\ Arrive(a, q)
  /\ writeJSON(a, status, {})
  /\ UNCHANGED <<call, audit>>

admitted(q) == AuthEnabled => principal(q).method # "none"

\* Mutant: whoever is signed in may prune.
authorizedSignedIn(q) == admitted(q)

authorized(q) == AuthEnabled => authorizeEndpointAdmin(principal(q))

dispatched(q) == admitted(q) /\ q.method = "POST"

\* The provider may also be out of reach when a token has to be checked.
Unauthenticated(a, q) ==
  /\ AuthEnabled
  /\ ~admitted(q) \/ q.who.kind = "bearer"
  /\ RefuseSilently(a, q, 401)

WrongMethod(a, q) ==
  admitted(q) /\ q.method # "POST" /\ RefuseSilently(a, q, 405)

NotAdmin(a, q) == dispatched(q) /\ ~authorized(q) /\ Refuse(a, q, 403)

UnknownEndpoint(a, q) ==
  /\ dispatched(q) /\ authorized(q)
  /\ q.key \notin Endpoints
  /\ Refuse(a, q, 404)

BadParameter(a, q) ==
  /\ dispatched(q) /\ authorized(q)
  /\ q.key \in Endpoints
  /\ q.all = "invalid"
  /\ Refuse(a, q, 400)

CallPortainer(a, q) ==
  /\ dispatched(q) /\ authorized(q)
  /\ q.key \in Endpoints
  /\ q.all # "invalid"
  /\ Arrive(a, q)
  /\ pc' = [pc EXCEPT ![a] = "calling"]
  /\ call' = [call EXCEPT ![a] = "sent"]
  /\ UNCHANGED <<audit, answer, held, age>>

-----------------------------------------------------------------------------
(* Portainer and Docker: not in src/, and not tied to the handler that     *)
(* called them.                                                            *)

PortainerPrunes(a) ==
  LET gone == images[request[a].key] \intersect Selected(request[a].all = "true")
  IN  /\ call[a] = "sent"
      /\ call' = [call EXCEPT ![a] = "pruned"]
      /\ deleted' = [deleted EXCEPT ![a] = gone]
      /\ images' = [images EXCEPT ![request[a].key] = @ \ gone]
      /\ UNCHANGED <<pc, request, audit, answer, held, age, process>>

PortainerRefuses(a) ==
  /\ call[a] = "sent"
  /\ call' = [call EXCEPT ![a] = "refused"]
  /\ UNCHANGED <<images, pc, request, deleted, audit, answer, held, age, process>>

\* Images are built and pulled, tags move.
HostChanges(e) ==
  \E more \in SUBSET (Dangling \union Tagged) \ {{}} :
    /\ more \intersect images[e] = {}
    /\ images' = [images EXCEPT ![e] = @ \union more]
    /\ UNCHANGED <<pc, request, call, deleted, audit, answer, held, age, process>>

-----------------------------------------------------------------------------
(* The handler after its call. *)

Succeed(a) ==
  /\ pc[a] = "calling"
  /\ call[a] = "pruned"
  /\ writeJSON(a, 200, deleted[a])
  /\ auditEndpointAttempt(a, request[a], "deleted")
  /\ UNCHANGED <<images, request, call, deleted, process>>

\* Mutant: the status of the upstream answer is not looked at.
GiveUpUnchecked(a) ==
  /\ writeJSON(a, IF call[a] = "refused" THEN 200 ELSE 502, {})
  /\ auditEndpointAttempt(a, request[a], IF call[a] = "refused" THEN "deleted" ELSE "failed")
  /\ UNCHANGED <<images, request, call, deleted, process>>

\* Mutant: no line when the call fails.
GiveUpUnaudited(a) ==
  /\ writeJSON(a, 502, {})
  /\ UNCHANGED <<images, request, call, deleted, audit, process>>

\* Mutant: a failed call answered like a failed configuration.
GiveUpUnclassified(a) ==
  /\ writeJSON(a, 503, {})
  /\ auditEndpointAttempt(a, request[a], "failed")
  /\ UNCHANGED <<images, request, call, deleted, process>>

GiveUp(a) ==
  /\ writeJSON(a, 502, {})
  /\ auditEndpointAttempt(a, request[a], "failed")
  /\ UNCHANGED <<images, request, call, deleted, process>>

\* Portainer answered with another status; or the call was cancelled with its
\* request, was reset, or its reply did not parse, wherever Portainer and
\* Docker had got to.
Fail(a) == pc[a] = "calling" /\ GiveUp(a)

\* Mutant: a client without a timeout.
TimesOutNever(a) == FALSE /\ GiveUp(a)

TimesOut(a) == pc[a] = "calling" /\ age[a] = CallTimeout /\ GiveUp(a)

\* The slot of an attempt that is over is used for another one.
Reuse(a) ==
  /\ pc[a] \in {"done", "killed", "cut"}
  /\ call[a] # "sent"
  /\ pc' = [pc EXCEPT ![a] = "idle"]
  /\ request' = [request EXCEPT ![a] = NoRequest]
  /\ call' = [call EXCEPT ![a] = "none"]
  /\ deleted' = [deleted EXCEPT ![a] = {}]
  /\ audit' = [audit EXCEPT ![a] = <<>>]
  /\ answer' = [answer EXCEPT ![a] = NoAnswer]
  /\ held' = [held EXCEPT ![a] = 0]
  /\ age' = [age EXCEPT ![a] = 0]
  /\ UNCHANGED <<images, process>>

-----------------------------------------------------------------------------
(* The process. *)

\* Of a request that was not let through yet nothing is left.
Exit(how) ==
  /\ phase' = "down"
  /\ pc' = [a \in Attempts |-> CASE a \in calling -> how
                                [] a \in waiting -> "idle"
                                [] OTHER         -> pc[a]]
  /\ held' = [a \in Attempts |-> IF a \in waiting THEN 0 ELSE held[a]]
  /\ UNCHANGED <<images, request, call, deleted, audit, answer, age, waited>>

Crash == phase # "down" /\ Exit("killed")

\* Shutdown closes the listener and waits for the handlers.
Stop ==
  /\ phase = "up"
  /\ phase' = "draining"
  /\ waited' = 0
  /\ UNCHANGED <<images, pc, request, call, deleted, audit, answer, held, age>>

\* Mutant: Close in the place of Shutdown.
ShutdownByClose == phase = "draining" /\ Exit("cut")

\* Every handler has returned, or Shutdown has waited long enough; main returns.
Shutdown ==
  /\ phase = "draining"
  /\ waiting \union calling = {} \/ waited = Grace
  /\ Exit("cut")

Restart ==
  /\ phase = "down"
  /\ phase' = "up"
  /\ waited' = 0
  /\ UNCHANGED <<images, pc, request, call, deleted, audit, answer, held, age>>

\* The clients, the server and Shutdown do not let their timeouts pass.
Tick ==
  /\ phase # "down" /\ waiting \union calling # {}
  /\ \A a \in waiting : held[a] < AdmitTimeout
  /\ \A a \in calling : age[a] < CallTimeout
  /\ phase = "draining" => waited < Grace
  /\ held' = [a \in Attempts |-> IF a \in waiting THEN held[a] + 1 ELSE held[a]]
  /\ age' = [a \in Attempts |-> IF a \in calling THEN age[a] + 1 ELSE age[a]]
  /\ waited' = IF phase = "draining" THEN waited + 1 ELSE waited
  /\ UNCHANGED <<images, pc, request, call, deleted, audit, answer, phase>>

\* Whatever the process is about to do meanwhile.
handleEndpointRoute(a) ==
  /\ pc[a] = "waiting"
  /\ \E q \in Requests :
       \/ Unauthenticated(a, q) \/ WrongMethod(a, q) \/ NotAdmin(a, q)
       \/ UnknownEndpoint(a, q) \/ BadParameter(a, q) \/ CallPortainer(a, q)

Next ==
  \/ \E a \in Attempts : \/ Accept(a) \/ handleEndpointRoute(a)
                         \/ Succeed(a) \/ Fail(a) \/ TimesOut(a)
                         \/ PortainerPrunes(a) \/ PortainerRefuses(a)
                         \/ Reuse(a)
  \/ \E e \in Endpoints : HostChanges(e)
  \/ Crash \/ Stop \/ Shutdown \/ Restart \/ Tick

\* Time passes, and the timeouts fire: those of the server and of the clients for
\* the provider and Portainer, and Shutdown's.  Nothing makes Portainer answer.
Fairness ==
  /\ WF_vars(Tick)
  /\ WF_vars(Shutdown)
  /\ \A a \in Attempts : WF_vars(handleEndpointRoute(a)) /\ WF_vars(TimesOut(a))

Spec == Init /\ [][Next]_vars /\ Fairness

-----------------------------------------------------------------------------
(* Properties. *)

\* README.md:338-347, what the documentation asks of the credential itself.  A
\* machine's client ID is its subject when the token names no client.
DocumentedAdmin(c) ==
  \/ c.kind \in {"session", "bearer"} /\ c.email \in AdminEmails
  \/ /\ c.kind = "bearer" /\ c.email = NoValue
     /\ {c.client, c.sub} \intersect AdminClients # {}
     /\ AdminScope \in c.scopes

\* Whatever way a token takes through the authentication, the machine and human
\* classification and the admin lists, images are only ever removed for a caller
\* the documentation calls an administrator (authorizeEndpointAdmin).
PrunedOnlyForAdmin ==
  \A a \in Attempts :
    deleted[a] # {} => ~AuthEnabled \/ DocumentedAdmin(request[a].who)

\* A tagged image disappears only through a call that asked for all of them, on
\* the host it named, and an image in use never does (pruneEndpointImages).
RemovedOnlyAsAsked ==
  [][\A e \in Endpoints : \A i \in images[e] \ images'[e] :
       \E a \in Attempts : /\ request[a].key = e
                           /\ i \in Dangling \/ (i \in Tagged /\ request[a].all = "true")
                           /\ i \in deleted'[a]]_vars

\* README.md:386-390: a failure is never reported as a successful prune.  A 200
\* means that Docker carried this call out, and lists what it removed for it,
\* whatever the calls of other attempts removed meanwhile (handlePruneImages).
SuccessMeansPruned ==
  \A a \in Attempts :
    answer[a].status = 200 => call[a] = "pruned" /\ answer[a].listed = deleted[a]

\* A handler that reached Portainer and ran to its end has left exactly one audit
\* line, also when its caller is gone, and the line names the caller, the host
\* and the mode of the call; only a call that was carried out is recorded as a
\* deletion (auditEndpointAttempt).
CallsAreAudited ==
  \A a \in Attempts :
    pc[a] = "done" /\ call[a] # "none" =>
      /\ Len(audit[a]) = 1
      /\ audit[a][1].principal = endpointPrincipalIdentity(principal(request[a]))
      /\ audit[a][1].key = request[a].key
      /\ deleted[a] \intersect Tagged # {} => audit[a][1].mode = "all"
      /\ audit[a][1].outcome = "deleted" => call[a] = "pruned"

\* A call leaves no audit line only if the process was killed, or if a regular stop
\* cut its request off after all of the time Shutdown grants (main.go:62-69).  That
\* time counts from when the request was accepted: a call may begin when Shutdown
\* is already waiting (auth.go:1808) and be cut off young, but a stop never
\* loses the record of a request that is over within the grace.
StopSparesQuickRequests ==
  \A a \in Attempts :
    call[a] # "none" /\ audit[a] = <<>> =>
      pc[a] \in {"calling", "killed"} \/ held[a] + age[a] >= Grace

\* The order that the call for a request is.
OrderOf(q) ==
  [by |-> q.who, host |-> q.key, wants |-> Selected(q.all = "true")]

\* What an answer says of it.
Said(given) ==
  [told    |-> CASE given = NoAnswer     -> "nothing"
                 [] given.status = 200 -> "success"
                 [] OTHER              -> "failure",
   removed |-> given.listed]

\* A prune implements Orders, whichever of the handler, its caller, Portainer and
\* the process ends first: only what an administrator may order is ordered, it is
\* carried out once at most, log and answer say the same of it, and neither of
\* them says that it was done unless it was (handlePruneImages, README.md:386-390).
Order == INSTANCE Orders WITH
  Slots   <- Attempts,
  Hosts   <- Endpoints,
  Things  <- Dangling \union Tagged \union InUse,
  Allowed <- {OrderOf(q) : q \in {r \in Requests :
               r.key \in Endpoints /\ (AuthEnabled => DocumentedAdmin(r.who))}},
  NoOrder <- [by |-> NoRequest.who, host |-> Unknown, wants |-> {}],
  things  <- images,
  order   <- [a \in Attempts |->
               IF call[a] # "none" THEN OrderOf(request[a])
               ELSE [by |-> NoRequest.who, host |-> Unknown, wants |-> {}]],
  stage   <- [a \in Attempts |-> CASE pc[a] \in {"idle", "waiting"} -> "free"
                                   [] pc[a] = "calling" -> "open"
                                   [] OTHER             -> "closed"],
  effect  <- [a \in Attempts |-> IF call[a] = "pruned" THEN "done" ELSE "pending"],
  removed <- deleted,
  log     <- [a \in Attempts |-> [i \in DOMAIN audit[a] |-> audit[a][i].outcome]],
  report  <- [a \in Attempts |-> Said(answer[a])]
ImplementsOrders == Order!Spec

\* Whatever the provider and Portainer do or leave undone, no handler waits for
\* them for ever (newPortainerClient): it ends, or the process does.
HandlersEnd ==
  \A a \in Attempts : pc[a] = "waiting" ~> pc[a] \notin {"waiting", "calling"}
=============================================================================
