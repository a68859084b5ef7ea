---------------------------- MODULE PruneProofs ----------------------------
(***************************************************************************)
(* Theorems about Prune, for every number of attempts, endpoints, requests *)
(* and images, every admin list, and every setting of the four timeouts.  *)
(***************************************************************************)
EXTENDS Prune, TLAPS

AllImages == Dangling \union Tagged \union InUse

\* The audit line of attempt a with outcome o.
Line(a, o) == [principal |-> endpointPrincipalIdentity(principal(request[a])),
               method    |-> principal(request[a]).method,
               key       |-> request[a].key,
               mode      |-> pruneMode(request[a]),
               outcome   |-> o]

\* The variables of the attempts are functions on them.
Shape ==
  /\ images \in [Endpoints -> SUBSET AllImages]
  /\ pc \in [Attempts -> {"idle", "waiting", "calling", "done", "killed", "cut"}]
  /\ request \in [Attempts -> Requests]
  /\ call \in [Attempts -> {"none", "sent", "pruned", "refused"}]
  /\ deleted \in [Attempts -> SUBSET AllImages]
  /\ DOMAIN audit = Attempts /\ DOMAIN answer = Attempts
  /\ held \in [Attempts -> 0 .. AdmitTimeout]
  /\ age \in [Attempts -> 0 .. CallTimeout]
  /\ phase \in {"up", "draining", "down"}
  /\ waited \in 0 .. Grace

\* What each stage of an attempt has left behind: no line and no answer before
\* its end, one line for a call that ended, and a call for whoever may prune on a
\* host there is.
AttemptInv(a) ==
  /\ pc[a] \in {"idle", "waiting"} => call[a] = "none"
  /\ pc[a] = "calling" => call[a] # "none"
  /\ pc[a] # "done" => audit[a] = <<>> /\ answer[a] = NoAnswer
  /\ pc[a] = "done" =>
       \/ call[a] = "none" /\ audit[a] = <<>>
       \/ \E o \in Outcomes : /\ audit[a] = <<Line(a, o)>>
                              /\ o = "deleted" => call[a] = "pruned"
  /\ call[a] # "pruned" => deleted[a] = {}
  /\ deleted[a] \subseteq Selected(request[a].all = "true")
  /\ call[a] # "none" =>
       /\ request[a].key \in Endpoints
       /\ AuthEnabled => authorizeEndpointAdmin(principal(request[a]))
  /\ answer[a] # NoAnswer =>
       answer[a] \in [status : Statuses, listed : SUBSET AllImages]
  /\ answer[a].status = 200 => call[a] = "pruned" /\ answer[a].listed = deleted[a]

\* A request under way while Shutdown waits has been so for as long at least,
\* whether it is let through before the stop or after it.
StopInv ==
  /\ \A a \in Attempts : pc[a] = "cut" => held[a] + age[a] >= Grace
  /\ phase = "draining" =>
       \A a \in Attempts :
         pc[a] \in {"waiting", "calling"} => held[a] + age[a] >= waited
  /\ phase = "down" => \A a \in Attempts : pc[a] \notin {"waiting", "calling"}

Inv == Shape /\ (\A a \in Attempts : AttemptInv(a)) /\ StopInv

\* The invariant holds at first.
LEMMA InvInit == Init => Inv
  <1> SUFFICES ASSUME Init PROVE Inv
    OBVIOUS
  <1>1. NoRequest \in Requests
    BY PruneAssumption DEF NoRequest
  <1>2. Shape
    BY <1>1, PruneAssumption DEF Init, Shape, AllImages
  <1>3. ASSUME NEW a \in Attempts PROVE AttemptInv(a)
    BY <1>3 DEF Init, AttemptInv, NoAnswer
  <1>4. StopInv
    BY DEF Init, StopInv
  <1> QED
    BY <1>2, <1>3, <1>4 DEF Inv

\* An action that leaves everything about an attempt alone keeps its part of the
\* invariant.
LEMMA Untouched ==
  ASSUME NEW b \in Attempts, AttemptInv(b),
         pc'[b] = pc[b], request'[b] = request[b], call'[b] = call[b],
         deleted'[b] = deleted[b], audit'[b] = audit[b], answer'[b] = answer[b]
  PROVE  AttemptInv(b)'
  <1>1. principal(request[b])' = principal(request[b])
    OBVIOUS
  <1>2. ASSUME NEW o \in Outcomes PROVE Line(b, o)' = Line(b, o)
    BY <1>1 DEF Line
  <1> QED
    BY <1>1, <1>2 DEF AttemptInv

\* A refusal leaves a line with the outcome "refused", or none, and no call.
LEMMA RefusalStep ==
  ASSUME Inv, NEW a \in Attempts, NEW q \in Requests, NEW status \in Statuses \ {200},
         pc[a] = "waiting",
         Refuse(a, q, status) \/ RefuseSilently(a, q, status)
  PROVE  Inv'
  <1> USE DEF Inv
  <1>0. /\ Arrive(a, q) /\ writeJSON(a, status, {}) /\ UNCHANGED call
        /\ auditEndpointAttempt(a, q, "refused") \/ UNCHANGED audit
    BY DEF Refuse, RefuseSilently
  <1>1. Shape'
    BY <1>0, PruneAssumption
       DEF Shape, Arrive, writeJSON, auditEndpointAttempt, process
  <1>2. ASSUME NEW b \in Attempts, b # a PROVE AttemptInv(b)'
    BY <1>0, <1>2, Untouched
       DEF Shape, Arrive, writeJSON, auditEndpointAttempt
  <1>3. AttemptInv(a)'
    <2>1. /\ pc'[a] = "done" /\ request'[a] = q /\ call'[a] = "none" /\ deleted'[a] = {}
          /\ answer'[a] = NoAnswer \/ answer'[a] = [status |-> status, listed |-> {}]
      <3>1. /\ AttemptInv(a)
            /\ request' = [request EXCEPT ![a] = q] /\ deleted' = deleted
            /\ pc' = [pc EXCEPT ![a] = "done"] /\ call' = call
            /\ \/ answer' = [answer EXCEPT ![a] = [status |-> status, listed |-> {}]]
               \/ answer' = answer
        BY <1>0 DEF Arrive, writeJSON
      <3>2. call[a] = "none" /\ deleted[a] = {} /\ answer[a] = NoAnswer
        BY <3>1 DEF AttemptInv
      <3> QED
        BY <3>1, <3>2 DEF Shape
    <2>2. audit'[a] = <<>> \/ audit'[a] = <<Line(a, "refused")'>>
      <3>1. audit[a] = <<>>
        BY DEF AttemptInv
      <3>2. CASE auditEndpointAttempt(a, q, "refused")
        BY <3>1, <3>2, <2>1 DEF Shape, auditEndpointAttempt, Line
      <3> QED
        BY <1>0, <3>1, <3>2
    <2> QED
      BY <2>1, <2>2 DEF AttemptInv, NoAnswer, Outcomes
  <1>4. StopInv'
    BY <1>0 DEF Shape, StopInv, Arrive, writeJSON, process
  <1> QED
    BY <1>1, <1>2, <1>3, <1>4

\* A call is made for a caller the route has let through.
LEMMA CallStep ==
  ASSUME Inv, NEW a \in Attempts, NEW q \in Requests,
         pc[a] = "waiting", CallPortainer(a, q)
  PROVE  Inv'
  <1> USE DEF Inv
  <1>1. Shape'
    BY DEF Shape, CallPortainer, Arrive, process
  <1>2. ASSUME NEW b \in Attempts, b # a PROVE AttemptInv(b)'
    BY <1>2, Untouched DEF Shape, CallPortainer, Arrive
  <1>3. AttemptInv(a)'
    BY DEF Shape, CallPortainer, Arrive, AttemptInv, NoAnswer, authorized
  <1>4. StopInv'
    BY DEF Shape, StopInv, CallPortainer, Arrive, process
  <1> QED
    BY <1>1, <1>2, <1>3, <1>4

\* Portainer touches the call only, and it removes what was selected.
LEMMA PortainerStep ==
  ASSUME Inv, NEW a \in Attempts, PortainerPrunes(a) \/ PortainerRefuses(a)
  PROVE  Inv'
  <1> USE DEF Inv
  <1>0. /\ UNCHANGED <<pc, request, audit, answer, held, age, process>>
        /\ call[a] = "sent"
        /\ \E now \in {"pruned", "refused"} : call' = [call EXCEPT ![a] = now]
    BY DEF PortainerPrunes, PortainerRefuses
  <1> DEFINE gone == images[request[a].key] \intersect Selected(request[a].all = "true")
  <1>1. \/ /\ call' = [call EXCEPT ![a] = "pruned"]
           /\ deleted' = [deleted EXCEPT ![a] = gone]
           /\ images' = [images EXCEPT ![request[a].key] = @ \ gone]
        \/ UNCHANGED <<images, deleted>>
    BY DEF PortainerPrunes, PortainerRefuses
  <1>2. gone \subseteq Selected(request[a].all = "true") /\ gone \subseteq AllImages
    BY DEF Selected, AllImages
  <1>3. Shape'
    <2>1. deleted' \in [Attempts -> SUBSET AllImages]
      BY <1>1, <1>2 DEF Shape
    <2>2. images' \in [Endpoints -> SUBSET AllImages]
      BY <1>1 DEF Shape
    <2> QED
      BY <1>0, <2>1, <2>2 DEF Shape, process
  <1>4. ASSUME NEW b \in Attempts, b # a PROVE AttemptInv(b)'
    BY <1>0, <1>1, <1>4, Untouched DEF Shape
  <1>5. AttemptInv(a)'
    <2>1. /\ call'[a] \in {"pruned", "refused"}
          /\ deleted'[a] \subseteq Selected(request[a].all = "true")
          /\ call'[a] = "refused" => deleted'[a] = deleted[a]
      BY <1>0, <1>1, <1>2 DEF Shape, AttemptInv
    <2>2. /\ pc[a] \notin {"idle", "waiting"}
          /\ pc[a] = "done" =>
               \E o \in Outcomes : audit[a] = <<Line(a, o)>> /\ o # "deleted"
          /\ answer[a].status # 200
      BY <1>0 DEF AttemptInv
    <2>3. principal(request[a])' = principal(request[a]) /\ \A o \in Outcomes : Line(a, o)' = Line(a, o)
      BY <1>0 DEF Line
    <2>4. /\ UNCHANGED <<pc, request, audit, answer>>
          /\ AttemptInv(a) /\ call[a] = "sent"
      BY <1>0
    <2>5. /\ (pc[a] \in {"idle", "waiting"} => call[a] = "none")'
          /\ (pc[a] = "calling" => call[a] # "none")'
          /\ (call[a] # "pruned" => deleted[a] = {})'
          /\ (answer[a].status = 200 => call[a] = "pruned" /\ answer[a].listed = deleted[a])'
      BY <2>1, <2>2, <2>4 DEF AttemptInv
    <2>6. (pc[a] # "done" => audit[a] = <<>> /\ answer[a] = NoAnswer)'
      BY <2>4 DEF AttemptInv
    <2>7. (pc[a] = "done" =>
             \/ call[a] = "none" /\ audit[a] = <<>>
             \/ \E o \in Outcomes : /\ audit[a] = <<Line(a, o)>>
                                    /\ o = "deleted" => call[a] = "pruned")'
      BY <2>2, <2>3, <2>4
    <2>8. /\ (deleted[a] \subseteq Selected(request[a].all = "true"))'
          /\ (call[a] # "none" =>
                /\ request[a].key \in Endpoints
                /\ AuthEnabled => authorizeEndpointAdmin(principal(request[a])))'
          /\ (answer[a] # NoAnswer =>
                answer[a] \in [status : Statuses, listed : SUBSET AllImages])'
      BY <2>1, <2>3, <2>4 DEF AttemptInv
    <2> QED
      BY <2>5, <2>6, <2>7, <2>8 DEF AttemptInv
  <1>6. StopInv'
    BY <1>0 DEF StopInv, process
  <1> QED
    BY <1>3, <1>4, <1>5, <1>6

\* A handler that ends leaves its one line, and a 200 only for a pruned call.
LEMMA EndStep ==
  ASSUME Inv, NEW a \in Attempts, Succeed(a) \/ Fail(a) \/ TimesOut(a)
  PROVE  Inv'
  <1> USE DEF Inv
  <1>0. \E status \in Statuses, listed \in SUBSET AllImages :
          /\ writeJSON(a, status, listed)
          /\ status = 200 => call[a] = "pruned" /\ listed = deleted[a]
    <2>1. CASE Succeed(a)
      BY <2>1 DEF Succeed, Shape, Statuses
    <2>2. CASE Fail(a) \/ TimesOut(a)
      <3>1. writeJSON(a, 502, {})
        BY <2>2 DEF Fail, TimesOut, GiveUp
      <3> QED
        BY <3>1 DEF Statuses
    <2> QED
      BY <2>1, <2>2
  <1>1. \E o \in {"deleted", "failed"} :
          /\ auditEndpointAttempt(a, request[a], o)
          /\ o = "deleted" => call[a] = "pruned"
    <2>1. CASE Succeed(a)
      BY <2>1 DEF Succeed
    <2>2. CASE Fail(a) \/ TimesOut(a)
      BY <2>2 DEF Fail, TimesOut, GiveUp
    <2> QED
      BY <2>1, <2>2
  <1>2. /\ pc[a] = "calling"
        /\ UNCHANGED <<images, request, call, deleted, process>>
    BY DEF Succeed, Fail, TimesOut, GiveUp
  <1>3. Shape'
    BY <1>0, <1>1, <1>2, PruneAssumption
       DEF Shape, writeJSON, auditEndpointAttempt, process
  <1>4. ASSUME NEW b \in Attempts, b # a PROVE AttemptInv(b)'
    BY <1>0, <1>1, <1>2, <1>4, Untouched DEF Shape, writeJSON, auditEndpointAttempt
  <1>5. AttemptInv(a)'
    <2>1. \E o \in Outcomes : /\ audit'[a] = <<Line(a, o)'>>
                              /\ o = "deleted" => call'[a] = "pruned"
      <3>1. PICK o \in {"deleted", "failed"} :
              /\ auditEndpointAttempt(a, request[a], o)
              /\ o = "deleted" => call[a] = "pruned"
        BY <1>1
      <3>2. audit[a] = <<>> /\ request' = request /\ call' = call
        BY <1>2 DEF AttemptInv
      <3>3. audit'[a] = <<Line(a, o)'>>
        BY <3>1, <3>2 DEF Shape, auditEndpointAttempt, Line
      <3> QED
        BY <3>1, <3>2, <3>3 DEF Outcomes
    <2>2. \/ answer'[a] = NoAnswer
          \/ /\ answer'[a] \in [status : Statuses, listed : SUBSET AllImages]
             /\ answer'[a].status = 200 => call[a] = "pruned" /\ answer'[a].listed = deleted[a]
      BY <1>0, <1>2 DEF Shape, AttemptInv, writeJSON
    <2>3. pc'[a] = "done" /\ call'[a] # "none"
      BY <1>0, <1>2 DEF Shape, AttemptInv, writeJSON
    <2> QED
      BY <1>2, <2>1, <2>2, <2>3 DEF AttemptInv, NoAnswer
  <1>6. StopInv'
    BY <1>0, <1>2 DEF Shape, StopInv, writeJSON, process
  <1> QED
    BY <1>3, <1>4, <1>5, <1>6

\* A slot that is cleared is as it was at first.
LEMMA ReuseStep ==
  ASSUME Inv, NEW a \in Attempts, Reuse(a)
  PROVE  Inv'
  <1> USE DEF Inv
  <1>1. Shape'
    <2>1. NoRequest \in Requests
      BY PruneAssumption DEF NoRequest
    <2> QED
      BY <2>1, PruneAssumption DEF Shape, Reuse, process
  <1>2. ASSUME NEW b \in Attempts, b # a PROVE AttemptInv(b)'
    BY <1>2, Untouched DEF Shape, Reuse
  <1>3. AttemptInv(a)'
    BY DEF Shape, Reuse, AttemptInv, NoAnswer
  <1>4. StopInv'
    BY DEF Shape, StopInv, Reuse, process
  <1> QED
    BY <1>1, <1>2, <1>3, <1>4

\* The end of the process takes the attempts under way with it; when Shutdown
\* gave up on them they are older than the time it waited.
LEMMA ExitStep ==
  ASSUME Inv, Crash \/ Shutdown
  PROVE  Inv'
  <1> USE DEF Inv
  <1>0. PICK how \in {"killed", "cut"} :
          /\ Exit(how)
          /\ how = "cut" => /\ phase = "draining"
                            /\ waiting \union calling = {} \/ waited = Grace
    BY DEF Crash, Shutdown
  <1>1. Shape'
    BY <1>0, PruneAssumption DEF Shape, Exit, waiting, calling
  <1>2. ASSUME NEW b \in Attempts PROVE AttemptInv(b)'
    <2>1. CASE pc[b] \in {"waiting", "calling"}
      BY <1>0, <2>1 DEF Shape, Exit, AttemptInv, waiting, calling, Line
    <2>2. CASE pc[b] \notin {"waiting", "calling"}
      BY <1>0, <2>2, Untouched DEF Shape, Exit, waiting, calling
    <2> QED
      BY <2>1, <2>2
  <1>3. StopInv'
    BY <1>0 DEF Shape, StopInv, Exit, waiting, calling
  <1> QED
    BY <1>1, <1>2, <1>3

\* A request that is accepted has done nothing yet.
LEMMA AcceptStep ==
  ASSUME Inv, NEW a \in Attempts, Accept(a)
  PROVE  Inv'
  <1> USE DEF Inv
  <1>1. Shape'
    BY DEF Shape, Accept, process
  <1>2. ASSUME NEW b \in Attempts, b # a PROVE AttemptInv(b)'
    BY <1>2, Untouched DEF Shape, Accept
  <1>3. AttemptInv(a)'
    BY DEF Shape, Accept, AttemptInv
  <1>4. StopInv'
    BY DEF Shape, StopInv, Accept, process
  <1> QED
    BY <1>1, <1>2, <1>3, <1>4

\* Starting, stopping, the clock and the hosts leave what attempts did alone.
LEMMA OtherStep ==
  ASSUME Inv,
         \/ Stop \/ Restart \/ Tick \/ UNCHANGED vars
         \/ \E e \in Endpoints : HostChanges(e)
  PROVE  Inv'
  <1> USE DEF Inv
  <1>1. Shape'
    <2>1. CASE Stop
      BY <2>1, PruneAssumption DEF Shape, Stop
    <2>2. CASE Restart
      BY <2>2, PruneAssumption DEF Shape, Restart
    <2>3. CASE Tick
      BY <2>3, PruneAssumption DEF Shape, Tick, waiting, calling
    <2>4. ASSUME NEW e \in Endpoints, HostChanges(e) PROVE Shape'
      BY <2>4 DEF Shape, HostChanges, AllImages, process
    <2>5. CASE UNCHANGED vars
      BY <2>5 DEF Shape, vars, process
    <2> QED
      BY <2>1, <2>2, <2>3, <2>4, <2>5
  <1>2. ASSUME NEW b \in Attempts PROVE AttemptInv(b)'
    BY <1>2, Untouched DEF Stop, Restart, Tick, HostChanges, vars
  <1>3. StopInv'
    <2>1. CASE Tick
      BY <2>1, PruneAssumption DEF Shape, StopInv, Tick, waiting, calling
    <2>2. CASE ~Tick
      BY <2>2 DEF Shape, StopInv, Stop, Restart, HostChanges, vars, process
    <2> QED
      BY <2>1, <2>2
  <1> QED
    BY <1>1, <1>2, <1>3

\* The invariant is kept by every step.
LEMMA InvStep == Inv /\ [Next]_vars => Inv'
  <1> SUFFICES ASSUME Inv, [Next]_vars PROVE Inv'
    OBVIOUS
  <1>1. ASSUME NEW a \in Attempts, handleEndpointRoute(a) PROVE Inv'
    <2>1. PICK q \in Requests :
            \/ Unauthenticated(a, q) \/ WrongMethod(a, q) \/ NotAdmin(a, q)
            \/ UnknownEndpoint(a, q) \/ BadParameter(a, q) \/ CallPortainer(a, q)
      BY <1>1 DEF handleEndpointRoute
    <2>2. pc[a] = "waiting"
      BY <1>1 DEF handleEndpointRoute
    <2>3. CASE CallPortainer(a, q)
      BY <2>2, <2>3, CallStep
    <2>4. CASE ~CallPortainer(a, q)
      <3>1. \E status \in Statuses \ {200} :
              Refuse(a, q, status) \/ RefuseSilently(a, q, status)
        BY <2>1, <2>4 DEF Unauthenticated, WrongMethod, NotAdmin, UnknownEndpoint,
                          BadParameter, Statuses
      <3> QED
        BY <2>2, <3>1, RefusalStep
    <2> QED
      BY <2>3, <2>4
  <1>2. ASSUME NEW a \in Attempts, Succeed(a) \/ Fail(a) \/ TimesOut(a) PROVE Inv'
    BY <1>2, EndStep
  <1>3. ASSUME NEW a \in Attempts, PortainerPrunes(a) \/ PortainerRefuses(a) PROVE Inv'
    BY <1>3, PortainerStep
  <1>4. ASSUME NEW a \in Attempts, Reuse(a) PROVE Inv'
    BY <1>4, ReuseStep
  <1>5. CASE Crash \/ Shutdown
    BY <1>5, ExitStep
  <1>6. CASE \/ Stop \/ Restart \/ Tick \/ UNCHANGED vars
             \/ \E e \in Endpoints : HostChanges(e)
    BY <1>6, OtherStep
  <1>7. ASSUME NEW a \in Attempts, Accept(a) PROVE Inv'
    BY <1>7, AcceptStep
  <1> QED
    BY <1>1, <1>2, <1>3, <1>4, <1>5, <1>6, <1>7 DEF Next

\* The invariant holds in every state.
THEOREM Invariant == Spec => []Inv
  BY InvInit, InvStep, PTL DEF Spec

-----------------------------------------------------------------------------
(* What follows from it.                                                   *)

\* Type correctness.
THEOREM TypeCorrect == Spec => []TypeOK
  <1>1. Inv => TypeOK
    <2> SUFFICES ASSUME Inv PROVE TypeOK
      OBVIOUS
    <2>1. ASSUME NEW a \in Attempts, NEW i \in DOMAIN audit[a]
          PROVE  audit[a][i].outcome \in Outcomes
      <3>1. PICK o \in Outcomes : audit[a] = <<Line(a, o)>>
        BY <2>1 DEF Inv, AttemptInv
      <3> QED
        BY <3>1 DEF Line
    <2> QED
      BY <2>1 DEF Inv, Shape, AttemptInv, TypeOK, AllImages
  <1> QED
    BY <1>1, Invariant, PTL

\* A 200 means that this call was carried out and lists what it removed
\* (README.md:386-390, handlePruneImages).
THEOREM SuccessIsTrue == Spec => []SuccessMeansPruned
  <1>1. Inv => SuccessMeansPruned
    BY DEF Inv, AttemptInv, SuccessMeansPruned
  <1> QED
    BY <1>1, Invariant, PTL

\* Every handler that reached Portainer and ran to its end left exactly one
\* line, and a true one (auditEndpointAttempt).
THEOREM AuditComplete == Spec => []CallsAreAudited
  <1>1. Inv => CallsAreAudited
    <2> SUFFICES ASSUME Inv, NEW a \in Attempts, pc[a] = "done", call[a] # "none"
                 PROVE  /\ Len(audit[a]) = 1
                        /\ audit[a][1].principal = endpointPrincipalIdentity(principal(request[a]))
                        /\ audit[a][1].key = request[a].key
                        /\ deleted[a] \intersect Tagged # {} => audit[a][1].mode = "all"
                        /\ audit[a][1].outcome = "deleted" => call[a] = "pruned"
      BY DEF CallsAreAudited
    <2>1. PICK o \in Outcomes : /\ audit[a] = <<Line(a, o)>>
                                /\ o = "deleted" => call[a] = "pruned"
      BY DEF Inv, AttemptInv
    <2>2. Len(audit[a]) = 1 /\ audit[a][1] = Line(a, o)
      BY <2>1
    <2>3. deleted[a] \intersect Tagged # {} => request[a].all = "true"
      BY PruneAssumption DEF Inv, AttemptInv, Selected
    <2> QED
      BY <2>1, <2>2, <2>3 DEF Line, pruneMode
  <1> QED
    BY <1>1, Invariant, PTL

\* A regular stop never loses the record of a request that is over within the
\* grace period, wherever in it the call to Portainer begins (main.go:62-69).
THEOREM QuickRequestsRecorded == Spec => []StopSparesQuickRequests
  <1>1. Inv => StopSparesQuickRequests
    <2> SUFFICES ASSUME Inv, NEW a \in Attempts, call[a] # "none", audit[a] = <<>>
                 PROVE  pc[a] \in {"calling", "killed"} \/ held[a] + age[a] >= Grace
      BY DEF StopSparesQuickRequests
    <2>1. pc[a] # "done"
      BY DEF Inv, AttemptInv
    <2> QED
      BY <2>1 DEF Inv, Shape, AttemptInv, StopInv
  <1> QED
    BY <1>1, Invariant, PTL

\* The classification of tokens and the admin lists together admit nobody the
\* documentation does not (principalFromBearer, authorizeEndpointAdmin).
LEMMA AdmittedIsDocumented ==
  ASSUME NEW c, c.kind \in {"none", "session", "bearer"},
         authorizeEndpointAdmin(authenticate(c))
  PROVE  DocumentedAdmin(c)
  <1>1. ASSUME NEW method, authorizeEndpointAdmin(principalFromHumanClaims(c, method)),
               method \in {"session", "bearer"}
        PROVE  c.email \in AdminEmails
    BY <1>1 DEF authorizeEndpointAdmin, principalFromHumanClaims, Rejected
  <1>2. ASSUME isMachineToken(c), authorizeEndpointAdmin(principalFromMachineClaims(c))
        PROVE  /\ c.email = NoValue /\ AdminScope \in c.scopes
               /\ {c.client, c.sub} \intersect AdminClients # {}
    BY <1>2 DEF authorizeEndpointAdmin, principalFromMachineClaims, Rejected, isMachineToken
  <1>3. ~authorizeEndpointAdmin(Rejected)
    BY DEF authorizeEndpointAdmin, Rejected
  <1>4. CASE c.kind = "none"
    BY <1>3, <1>4 DEF authenticate, Anonymous
  <1>5. CASE c.kind = "session"
    BY <1>1, <1>5 DEF authenticate, DocumentedAdmin
  <1>6. CASE c.kind = "bearer"
    BY <1>1, <1>2, <1>3, <1>6 DEF authenticate, principalFromBearer, DocumentedAdmin
  <1> QED
    BY <1>4, <1>5, <1>6

\* Images are only ever removed for a documented administrator, whatever claims
\* a token combines (README.md:338-347).
THEOREM OnlyAdminsPrune == Spec => []PrunedOnlyForAdmin
  <1>1. Inv => PrunedOnlyForAdmin
    <2> SUFFICES ASSUME Inv, NEW a \in Attempts, deleted[a] # {}, AuthEnabled
                 PROVE  DocumentedAdmin(request[a].who)
      BY PolicyAssumption DEF PrunedOnlyForAdmin
    <2>1. authorizeEndpointAdmin(principal(request[a]))
      BY DEF Inv, AttemptInv
    <2>2. request[a].who.kind \in {"none", "session", "bearer"}
      BY PruneAssumption DEF Inv, Shape
    <2> QED
      BY <2>1, <2>2, AdmittedIsDocumented DEF principal
  <1> QED
    BY <1>1, Invariant, PTL

\* A tagged image goes only by a call that asked for all, on the host it named
\* (pruneEndpointImages).
THEOREM RemovalsAreAsked == Spec => RemovedOnlyAsAsked
  <1> DEFINE Asked ==
        \A e \in Endpoints : \A i \in images[e] \ images'[e] :
          \E a \in Attempts : /\ request[a].key = e
                              /\ i \in Dangling \/ (i \in Tagged /\ request[a].all = "true")
                              /\ i \in deleted'[a]
  <1>1. Inv /\ [Next]_vars => [Asked]_vars
    <2> SUFFICES ASSUME Inv, Next, NEW e \in Endpoints, NEW i \in images[e] \ images'[e]
                 PROVE  \E a \in Attempts :
                          /\ request[a].key = e
                          /\ i \in Dangling \/ (i \in Tagged /\ request[a].all = "true")
                          /\ i \in deleted'[a]
      BY DEF Asked
    <2>1. PICK a \in Attempts : PortainerPrunes(a)
      <3>1. images' # images
        OBVIOUS
      <3>2. ASSUME NEW h \in Endpoints, HostChanges(h) PROVE FALSE
        BY <3>2 DEF HostChanges, Inv, Shape
      <3> QED
        BY <3>1, <3>2 DEF Next, Accept, handleEndpointRoute, Unauthenticated, WrongMethod,
             NotAdmin, UnknownEndpoint, BadParameter, CallPortainer, Refuse,
             RefuseSilently, Arrive, Succeed, Fail, TimesOut, GiveUp,
             PortainerRefuses, Reuse, Crash, Stop, Shutdown, Exit, Restart, Tick
    <2>2. /\ request[a].key = e
          /\ i \in Selected(request[a].all = "true") /\ i \in deleted'[a]
      BY <2>1 DEF PortainerPrunes, Inv, Shape
    <2> QED
      BY <2>2 DEF Selected
  <1>2. Spec => [][Asked]_vars
    BY <1>1, Invariant, PTL DEF Spec
  <1> QED
    BY <1>2 DEF RemovedOnlyAsAsked

-----------------------------------------------------------------------------
(* A prune implements Orders.                                              *)

\* The mapped variables, under names of their own.
Ordered == [a \in Attempts |->
              IF call[a] # "none" THEN OrderOf(request[a])
              ELSE [by |-> NoRequest.who, host |-> Unknown, wants |-> {}]]
Stage == [a \in Attempts |-> CASE pc[a] \in {"idle", "waiting"} -> "free"
                               [] pc[a] = "calling" -> "open"
                               [] OTHER             -> "closed"]
Effect == [a \in Attempts |-> IF call[a] = "pruned" THEN "done" ELSE "pending"]
Log == [a \in Attempts |-> [i \in DOMAIN audit[a] |-> audit[a][i].outcome]]
Report == [a \in Attempts |-> Said(answer[a])]

\* What the log of Orders keeps of no line and of one line.
LEMMA Outcome ==
  /\ [i \in DOMAIN <<>> |-> <<>>[i].outcome] = <<>>
  /\ \A l : [i \in DOMAIN <<l>> |-> <<l>>[i].outcome] = <<l.outcome>>
  <1>1. [i \in DOMAIN <<>> |-> <<>>[i].outcome] = <<>>
    OBVIOUS
  <1>2. ASSUME NEW l PROVE [i \in DOMAIN <<l>> |-> <<l>>[i].outcome] = <<l.outcome>>
    <2>1. DOMAIN <<l>> = 1 .. 1 /\ DOMAIN <<l.outcome>> = 1 .. 1
      OBVIOUS
    <2>2. \A i \in 1 .. 1 : <<l>>[i].outcome = <<l.outcome>>[i]
      OBVIOUS
    <2> QED
      BY <2>1, <2>2
  <1> QED
    BY <1>1, <1>2

\* One line more in the audit is one outcome more in the log of Orders.
LEMMA LogOf ==
  ASSUME Shape, NEW a \in Attempts, NEW l, audit' = [audit EXCEPT ![a] = <<l>>]
  PROVE  Log' = [Log EXCEPT ![a] = <<l.outcome>>]
  <1>1. DOMAIN audit = Attempts
    BY DEF Shape
  <1>2. Log'[a] = <<l.outcome>>
    <2>1. audit'[a] = <<l>>
      BY <1>1
    <2> QED
      BY <2>1, Outcome DEF Log
  <1>3. ASSUME NEW b \in Attempts, b # a PROVE Log'[b] = Log[b]
    BY <1>1, <1>3 DEF Log
  <1> QED
    BY <1>2, <1>3 DEF Log

\* An answer that may be lost is a report that may be lost.
LEMMA ReportOf ==
  ASSUME Shape, NEW a \in Attempts, NEW given,
         answer' \in {answer, [answer EXCEPT ![a] = given]}
  PROVE  Report' \in {Report, [Report EXCEPT ![a] = Said(given)]}
  <1>1. DOMAIN answer = Attempts
    BY DEF Shape
  <1>2. CASE answer' = answer
    BY <1>2 DEF Report
  <1>3. CASE answer' = [answer EXCEPT ![a] = given]
    <2>1. Report' = [Report EXCEPT ![a] = Said(given)]
      BY <1>1, <1>3 DEF Report
    <2> QED
      BY <2>1
  <1> QED
    BY <1>2, <1>3

\* A step that touches no attempt and no host is a stutter.
LEMMA OrdersStutter ==
  ASSUME UNCHANGED <<images, deleted>>,
         UNCHANGED <<Ordered, Stage, Effect, Log, Report>>
  PROVE  UNCHANGED Order!vars
  BY DEF Order!vars, Ordered, Stage, Effect, Log, Report

\* At first nothing has been ordered.
LEMMA OrdersInit == Init => Order!Init
  <1> SUFFICES ASSUME Init PROVE Order!Init
    OBVIOUS
  <1>1. images \in [Endpoints -> SUBSET (Dangling \union Tagged \union InUse)]
    BY DEF Init
  <1>2. Ordered = [a \in Attempts |->
                     [by |-> NoRequest.who, host |-> Unknown, wants |-> {}]]
    BY DEF Init, Ordered
  <1>3. Stage = [a \in Attempts |-> "free"]
    BY DEF Init, Stage
  <1>4. Effect = [a \in Attempts |-> "pending"]
    BY DEF Init, Effect
  <1>5. Log = [a \in Attempts |-> <<>>]
    BY Outcome DEF Init, Log
  <1>6. Report = [a \in Attempts |-> Order!Silence]
    BY DEF Init, Report, Said, NoAnswer, Order!Silence
  <1>7. deleted = [a \in Attempts |-> {}]
    BY DEF Init
  <1> QED
    BY <1>1, <1>2, <1>3, <1>4, <1>5, <1>6, <1>7
       DEF Order!Init, Ordered, Stage, Effect, Log, Report

\* A refusal gives no order.
LEMMA OrdersRefuse ==
  ASSUME Inv, NEW a \in Attempts, NEW q \in Requests, NEW status \in Statuses \ {200},
         pc[a] = "waiting", Refuse(a, q, status) \/ RefuseSilently(a, q, status)
  PROVE  Order!Refuse(a)
  <1>1. /\ pc' = [pc EXCEPT ![a] = "done"] /\ call' = call
        /\ images' = images /\ deleted' = deleted
        /\ request' = [request EXCEPT ![a] = q]
        /\ answer' \in {answer, [answer EXCEPT ![a] = [status |-> status, listed |-> {}]]}
        /\ \/ audit' = audit
           \/ \E l : l.outcome = "refused" /\ audit' = [audit EXCEPT ![a] = Append(@, l)]
    BY DEF Refuse, RefuseSilently, Arrive, writeJSON, auditEndpointAttempt
  <1>2. call[a] = "none" /\ audit[a] = <<>> /\ answer[a] = NoAnswer
    BY DEF Inv, AttemptInv
  <1>3. /\ Ordered' = Ordered /\ Effect' = Effect
        /\ Stage[a] = "free" /\ Stage' = [Stage EXCEPT ![a] = "closed"]
    <2>1. Ordered' = Ordered
      <3>1. ASSUME NEW b \in Attempts PROVE Ordered'[b] = Ordered[b]
        <4>1. call'[b] = call[b] /\ (call[b] # "none" => request'[b] = request[b])
          BY <1>1, <1>2 DEF Inv, Shape
        <4> QED
          BY <4>1 DEF Ordered, OrderOf
      <3> QED
        BY <3>1 DEF Ordered
    <2>2. Effect' = Effect
      BY <1>1 DEF Effect
    <2>3. Stage[a] = "free" /\ Stage' = [Stage EXCEPT ![a] = "closed"]
      BY <1>1 DEF Stage, Inv, Shape
    <2> QED
      BY <2>1, <2>2, <2>3
  <1>4. Log' \in {Log, [Log EXCEPT ![a] = <<"refused">>]}
    <2>1. CASE audit' = audit
      BY <2>1 DEF Log
    <2>2. ASSUME NEW l, l.outcome = "refused", audit' = [audit EXCEPT ![a] = <<l>>]
          PROVE  Log' = [Log EXCEPT ![a] = <<"refused">>]
      BY <2>2, LogOf DEF Inv
    <2> QED
      BY <1>1, <1>2, <2>1, <2>2
  <1>5. Report' \in {Report, [Report EXCEPT ![a] = Order!Failure]}
    <2>1. Said([status |-> status, listed |-> {}]) = Order!Failure
      BY DEF Said, NoAnswer, Statuses, Order!Failure
    <2>2. PICK given : /\ given = [status |-> status, listed |-> {}]
                       /\ answer' \in {answer, [answer EXCEPT ![a] = given]}
      BY <1>1
    <2>3. Said(given) = Order!Failure
      BY <2>1, <2>2
    <2>4. answer' \in {answer, [answer EXCEPT ![a] = given]}
      BY <2>2
    <2>5. Report' \in {Report, [Report EXCEPT ![a] = Said(given)]}
      BY <2>4, ReportOf DEF Inv
    <2> QED
      BY <2>3, <2>5
  <1> QED
    BY <1>1, <1>3, <1>4, <1>5 DEF Order!Refuse, Ordered, Stage, Effect, Log, Report

\* Who gets as far as the call may order what it asks for.
LEMMA OrdersGive ==
  ASSUME Inv, NEW a \in Attempts, NEW q \in Requests, pc[a] = "waiting",
         CallPortainer(a, q)
  PROVE  Order!Next
  <1>1. /\ pc' = [pc EXCEPT ![a] = "calling"] /\ call' = [call EXCEPT ![a] = "sent"]
        /\ request' = [request EXCEPT ![a] = q]
        /\ UNCHANGED <<images, deleted, audit, answer>>
        /\ q.key \in Endpoints /\ authorized(q)
    BY DEF CallPortainer, Arrive
  <1>2. call[a] = "none"
    BY DEF Inv, AttemptInv
  <1>3. Ordered' = [Ordered EXCEPT ![a] = OrderOf(q)]
    BY <1>1 DEF Ordered, Inv, Shape
  <1>4. Stage[a] = "free" /\ Stage' = [Stage EXCEPT ![a] = "open"]
    BY <1>1 DEF Stage, Inv, Shape
  <1>5. Effect' = Effect /\ Log' = Log /\ Report' = Report
    BY <1>1, <1>2 DEF Effect, Log, Report, Inv, Shape
  <1>6. Order!Give(a, OrderOf(q))
    BY <1>1, <1>3, <1>4, <1>5
       DEF Order!Give, Ordered, Stage, Effect, Log, Report
  <1>7. AuthEnabled => DocumentedAdmin(q.who)
    BY <1>1, PruneAssumption, AdmittedIsDocumented DEF authorized, principal
  <1>8. \E o \in {OrderOf(p) : p \in {r \in Requests :
            r.key \in Endpoints /\ (AuthEnabled => DocumentedAdmin(r.who))}} :
          Order!Give(a, o)
    BY <1>1, <1>6, <1>7
  <1> QED
    BY <1>8 DEF Order!Next

\* Portainer carries out what was ordered, or does not.
LEMMA OrdersCarryOut ==
  ASSUME Inv, NEW a \in Attempts, PortainerPrunes(a)
  PROVE  Order!CarryOut(a)
  <1> DEFINE gone == images[request[a].key] \intersect Selected(request[a].all = "true")
  <1>1. /\ call[a] = "sent" /\ call' = [call EXCEPT ![a] = "pruned"]
        /\ deleted' = [deleted EXCEPT ![a] = gone]
        /\ images' = [images EXCEPT ![request[a].key] = @ \ gone]
        /\ UNCHANGED <<pc, request, audit, answer>>
    BY DEF PortainerPrunes
  <1> HIDE DEF gone
  <1>2. Effect[a] = "pending" /\ Effect' = [Effect EXCEPT ![a] = "done"]
    BY <1>1 DEF Effect, Inv, Shape
  <1>3. Ordered' = Ordered /\ Stage' = Stage /\ Log' = Log /\ Report' = Report
    <2>1. Ordered' = Ordered
      BY <1>1 DEF Ordered, Inv, Shape
    <2> QED
      BY <1>1, <2>1 DEF Stage, Log, Report
  <1>4. /\ Ordered[a].host = request[a].key
        /\ Ordered[a].wants = Selected(request[a].all = "true")
    BY <1>1 DEF Ordered, OrderOf
  <1>5. request[a].key # Unknown
    BY <1>1, PruneAssumption DEF Inv, AttemptInv
  <1>6. Ordered[a] # [by |-> NoRequest.who, host |-> Unknown, wants |-> {}]
    BY <1>4, <1>5
  <1>7. gone = images[Ordered[a].host] \intersect Ordered[a].wants
    BY <1>4 DEF gone
  <1>8. /\ deleted' = [deleted EXCEPT ![a] =
                         images[Ordered[a].host] \intersect Ordered[a].wants]
        /\ images' = [images EXCEPT ![Ordered[a].host] =
                        @ \ (images[Ordered[a].host] \intersect Ordered[a].wants)]
    BY <1>1, <1>4, <1>7
  <1> QED
    BY <1>2, <1>3, <1>6, <1>8
       DEF Order!CarryOut, Ordered, Stage, Effect, Log, Report

\* The handler confirms what was carried out.
LEMMA OrdersConfirm ==
  ASSUME Inv, NEW a \in Attempts, Succeed(a)
  PROVE  Order!Confirm(a)
  <1>1. /\ pc[a] = "calling" /\ pc' = [pc EXCEPT ![a] = "done"]
        /\ call[a] = "pruned"
        /\ UNCHANGED <<images, request, call, deleted>>
        /\ answer' \in {answer, [answer EXCEPT ![a] = [status |-> 200, listed |-> deleted[a]]]}
    BY DEF Succeed, writeJSON
  <1>2. /\ Effect[a] = "done" /\ Effect' = Effect /\ Ordered' = Ordered
        /\ Stage[a] = "open" /\ Stage' = [Stage EXCEPT ![a] = "closed"]
    <2>1. Effect[a] = "done" /\ Effect' = Effect /\ Ordered' = Ordered
      BY <1>1 DEF Effect, Ordered
    <2>2. Stage[a] = "open" /\ Stage' = [Stage EXCEPT ![a] = "closed"]
      BY <1>1 DEF Stage, Inv, Shape
    <2> QED
      BY <2>1, <2>2
  <1>3. Log' = [Log EXCEPT ![a] = <<"deleted">>]
    <2>1. PICK l : l.outcome = "deleted" /\ audit' = [audit EXCEPT ![a] = Append(@, l)]
      BY DEF Succeed, auditEndpointAttempt
    <2>2. audit[a] = <<>>
      BY <1>1 DEF Inv, AttemptInv
    <2>3. audit' = [audit EXCEPT ![a] = <<l>>]
      BY <2>1, <2>2
    <2>4. Log' = [Log EXCEPT ![a] = <<l.outcome>>]
      BY <2>3, LogOf DEF Inv
    <2> QED
      BY <2>1, <2>4
  <1>4. Report' \in {Report, [Report EXCEPT ![a] = Order!Success(deleted[a])]}
    <2>1. Said([status |-> 200, listed |-> deleted[a]]) = Order!Success(deleted[a])
      BY DEF Said, NoAnswer, Order!Success
    <2>2. Report' \in {Report, [Report EXCEPT ![a] = Said([status |-> 200, listed |-> deleted[a]])]}
      BY <1>1, ReportOf DEF Inv
    <2> QED
      BY <2>1, <2>2
  <1> QED
    BY <1>1, <1>2, <1>3, <1>4 DEF Order!Confirm, Ordered, Stage, Effect, Log, Report

\* The handler gives up, and says so in the log and in the answer.
LEMMA OrdersGiveUp ==
  ASSUME Inv, NEW a \in Attempts, Fail(a) \/ TimesOut(a)
  PROVE  Order!GiveUp(a)
  <1>1. /\ pc[a] = "calling" /\ pc' = [pc EXCEPT ![a] = "done"]
        /\ UNCHANGED <<images, request, call, deleted>>
        /\ answer' \in {answer, [answer EXCEPT ![a] = [status |-> 502, listed |-> {}]]}
    BY DEF Fail, TimesOut, GiveUp, writeJSON
  <1>2. /\ Effect' = Effect /\ Ordered' = Ordered
        /\ Stage[a] = "open" /\ Stage' = [Stage EXCEPT ![a] = "closed"]
    <2>1. Effect' = Effect /\ Ordered' = Ordered
      BY <1>1 DEF Effect, Ordered
    <2>2. Stage[a] = "open" /\ Stage' = [Stage EXCEPT ![a] = "closed"]
      BY <1>1 DEF Stage, Inv, Shape
    <2> QED
      BY <2>1, <2>2
  <1>3. Log' = [Log EXCEPT ![a] = <<"failed">>]
    <2>1. PICK l : l.outcome = "failed" /\ audit' = [audit EXCEPT ![a] = Append(@, l)]
      BY DEF Fail, TimesOut, GiveUp, auditEndpointAttempt
    <2>2. audit[a] = <<>>
      BY <1>1 DEF Inv, AttemptInv
    <2>3. audit' = [audit EXCEPT ![a] = <<l>>]
      BY <2>1, <2>2
    <2>4. Log' = [Log EXCEPT ![a] = <<l.outcome>>]
      BY <2>3, LogOf DEF Inv
    <2> QED
      BY <2>1, <2>4
  <1>4. Report' \in {Report, [Report EXCEPT ![a] = Order!Failure]}
    <2>1. Said([status |-> 502, listed |-> {}]) = Order!Failure
      BY DEF Said, NoAnswer, Order!Failure
    <2>2. Report' \in {Report, [Report EXCEPT ![a] = Said([status |-> 502, listed |-> {}])]}
      BY <1>1, ReportOf DEF Inv
    <2> QED
      BY <2>1, <2>2
  <1> QED
    BY <1>1, <1>2, <1>3, <1>4 DEF Order!GiveUp, Ordered, Stage, Effect, Log, Report

\* A slot that is used again forgets its order.
LEMMA OrdersForget ==
  ASSUME Inv, NEW a \in Attempts, Reuse(a)
  PROVE  Order!Forget(a)
  <1>1. /\ pc[a] \in {"done", "killed", "cut"} /\ pc' = [pc EXCEPT ![a] = "idle"]
        /\ call' = [call EXCEPT ![a] = "none"] /\ deleted' = [deleted EXCEPT ![a] = {}]
        /\ request' = [request EXCEPT ![a] = NoRequest]
        /\ audit' = [audit EXCEPT ![a] = <<>>] /\ answer' = [answer EXCEPT ![a] = NoAnswer]
        /\ images' = images
    BY DEF Reuse
  <1>2. Stage[a] = "closed" /\ Stage' = [Stage EXCEPT ![a] = "free"]
    BY <1>1 DEF Stage, Inv, Shape
  <1>3. Ordered' = [Ordered EXCEPT ![a] =
                      [by |-> NoRequest.who, host |-> Unknown, wants |-> {}]]
    BY <1>1 DEF Ordered, Inv, Shape
  <1>4. Effect' = [Effect EXCEPT ![a] = "pending"]
    BY <1>1 DEF Effect, Inv, Shape
  <1>5. Log' = [Log EXCEPT ![a] = <<>>]
    BY <1>1, Outcome DEF Log, Inv, Shape
  <1>6. Report' = [Report EXCEPT ![a] = Order!Silence]
    <2>1. Said(NoAnswer) = Order!Silence
      BY DEF Said, NoAnswer, Order!Silence
    <2> QED
      BY <1>1, <2>1 DEF Report, Inv, Shape
  <1> QED
    BY <1>1, <1>2, <1>3, <1>4, <1>5, <1>6
       DEF Order!Forget, Ordered, Stage, Effect, Log, Report

\* The end of the process takes all that wait with it.
LEMMA OrdersPerish ==
  ASSUME Inv, NEW how \in {"killed", "cut"}, Exit(how)
  PROVE  Order!Perish
  <1>1. /\ pc' = [a \in Attempts |-> CASE a \in calling -> how
                                       [] a \in waiting -> "idle"
                                       [] OTHER         -> pc[a]]
        /\ UNCHANGED <<images, request, call, deleted, audit, answer>>
    BY DEF Exit
  <1>2. Stage' = [a \in Attempts |-> IF Stage[a] = "open" THEN "closed" ELSE Stage[a]]
    BY <1>1 DEF Stage, waiting, calling, Inv, Shape
  <1>3. UNCHANGED <<Ordered, Effect, Log, Report>>
    BY <1>1 DEF Ordered, Effect, Log, Report
  <1> QED
    BY <1>1, <1>2, <1>3 DEF Order!Perish, Ordered, Stage, Effect, Log, Report

\* A host gains images.
LEMMA OrdersGrow ==
  ASSUME NEW e \in Endpoints, HostChanges(e)
  PROVE  Order!Next
  <1>1. /\ \E more \in SUBSET (Dangling \union Tagged \union InUse) :
             images' = [images EXCEPT ![e] = @ \union more]
        /\ UNCHANGED <<pc, request, call, deleted, audit, answer>>
    BY DEF HostChanges
  <1>2. UNCHANGED <<Ordered, Stage, Effect, Log, Report>>
    BY <1>1 DEF Ordered, Stage, Effect, Log, Report
  <1>3. Order!Grow(e)
    BY <1>1, <1>2 DEF Order!Grow, Ordered, Stage, Effect, Log, Report
  <1> QED
    BY <1>3 DEF Order!Next

\* Every step is one of Orders, or a stutter.
LEMMA OrdersStep == Inv /\ [Next]_vars => [Order!Next]_(Order!vars)
  <1> SUFFICES ASSUME Inv, [Next]_vars PROVE [Order!Next]_(Order!vars)
    OBVIOUS
  <1>1. ASSUME NEW a \in Attempts, handleEndpointRoute(a) PROVE Order!Next
    <2>1. PICK q \in Requests :
            \/ Unauthenticated(a, q) \/ WrongMethod(a, q) \/ NotAdmin(a, q)
            \/ UnknownEndpoint(a, q) \/ BadParameter(a, q) \/ CallPortainer(a, q)
      BY <1>1 DEF handleEndpointRoute
    <2>2. pc[a] = "waiting"
      BY <1>1 DEF handleEndpointRoute
    <2>3. CASE CallPortainer(a, q)
      BY <2>2, <2>3, OrdersGive
    <2>4. CASE ~CallPortainer(a, q)
      <3>1. \E status \in Statuses \ {200} :
              Refuse(a, q, status) \/ RefuseSilently(a, q, status)
        BY <2>1, <2>4 DEF Unauthenticated, WrongMethod, NotAdmin, UnknownEndpoint,
                          BadParameter, Statuses
      <3>2. Order!Refuse(a)
        BY <2>2, <3>1, OrdersRefuse
      <3> QED
        BY <3>2 DEF Order!Next
    <2> QED
      BY <2>3, <2>4
  <1>2. ASSUME NEW a \in Attempts, Succeed(a) \/ Fail(a) \/ TimesOut(a) PROVE Order!Next
    BY <1>2, OrdersConfirm, OrdersGiveUp DEF Order!Next
  <1>3. ASSUME NEW a \in Attempts, PortainerPrunes(a) PROVE Order!Next
    BY <1>3, OrdersCarryOut DEF Order!Next
  <1>4. ASSUME NEW a \in Attempts, PortainerRefuses(a) PROVE UNCHANGED Order!vars
    <2>1. /\ call[a] = "sent" /\ call' = [call EXCEPT ![a] = "refused"]
          /\ UNCHANGED <<images, pc, request, deleted, audit, answer>>
      BY <1>4 DEF PortainerRefuses
    <2>2. Ordered' = Ordered /\ Effect' = Effect
      BY <2>1 DEF Ordered, Effect, Inv, Shape
    <2>3. UNCHANGED <<Stage, Log, Report>>
      BY <2>1 DEF Stage, Log, Report
    <2> QED
      BY <2>1, <2>2, <2>3, OrdersStutter
  <1>5. ASSUME NEW a \in Attempts, Reuse(a) PROVE Order!Next
    BY <1>5, OrdersForget DEF Order!Next
  <1>6. CASE Crash \/ Shutdown
    BY <1>6, OrdersPerish DEF Crash, Shutdown, Order!Next
  <1>7. ASSUME NEW e \in Endpoints, HostChanges(e) PROVE Order!Next
    BY <1>7, OrdersGrow
  <1>8. CASE Stop \/ Restart \/ Tick \/ UNCHANGED vars
    <2>1. UNCHANGED <<images, pc, request, call, deleted, audit, answer>>
      BY <1>8 DEF Stop, Restart, Tick, vars
    <2>2. UNCHANGED <<Ordered, Stage, Effect, Log, Report>>
      BY <2>1 DEF Ordered, Stage, Effect, Log, Report
    <2> QED
      BY <2>1, <2>2, OrdersStutter
  <1>9. ASSUME NEW a \in Attempts, Accept(a) PROVE UNCHANGED Order!vars
    <2>1. /\ pc[a] = "idle" /\ pc' = [pc EXCEPT ![a] = "waiting"]
          /\ UNCHANGED <<images, request, call, deleted, audit, answer>>
      BY <1>9 DEF Accept
    <2>2. Stage' = Stage
      BY <2>1 DEF Stage, Inv, Shape
    <2>3. UNCHANGED <<Ordered, Effect, Log, Report>>
      BY <2>1 DEF Ordered, Effect, Log, Report
    <2> QED
      BY <2>1, <2>2, <2>3, OrdersStutter
  <1> QED
    BY <1>1, <1>2, <1>3, <1>4, <1>5, <1>6, <1>7, <1>8, <1>9 DEF Next

\* A prune keeps what Orders promises, whichever of the handler, its caller,
\* Portainer and the process ends first (handlePruneImages, README.md:386-390).
THEOREM PruneImplementsOrders == Spec => ImplementsOrders
  BY Invariant, OrdersInit, OrdersStep, PTL DEF Spec, ImplementsOrders, Order!Spec
=============================================================================
