------------------------------- MODULE Orders -------------------------------
(***************************************************************************)
(* What an order to remove things from a host promises, with no handler,   *)
(* status, timeout or process in sight.  The host works for nobody in      *)
(* particular: it carries an order out once or never, and when it likes,   *)
(* also after everybody has stopped waiting for it.  What is written down  *)
(* and what is said about an order agree with each other, and neither of   *)
(* them claims more than the host has done.                                *)
(***************************************************************************)
EXTENDS Sequences

CONSTANTS Slots,    \* one for each order that is followed at a time
          Hosts, Things,
          Allowed,  \* the orders that may be given: who, which host, what to remove
          NoOrder

VARIABLES things,   \* things[h]: what is on host h
          order,    \* order[s]: the order given, if one was
          stage,    \* stage[s]: "free", "open" while somebody waits, "closed"
          effect,   \* effect[s]: "pending", or "done" by the host
          removed,  \* removed[s]: what the host removed for the order
          log,      \* log[s]: what was written down about it
          report    \* report[s]: what was said about it

vars == <<things, order, stage, effect, removed, log, report>>

Silence == [told |-> "nothing", removed |-> {}]
Failure == [told |-> "failure", removed |-> {}]
Success(gone) == [told |-> "success", removed |-> gone]

Init ==
  /\ things \in [Hosts -> SUBSET Things]
  /\ order = [s \in Slots |-> NoOrder]
  /\ stage = [s \in Slots |-> "free"]
  /\ effect = [s \in Slots |-> "pending"]
  /\ removed = [s \in Slots |-> {}]
  /\ log = [s \in Slots |-> <<>>]
  /\ report = [s \in Slots |-> Silence]

Give(s, o) ==
  /\ stage[s] = "free"
  /\ stage' = [stage EXCEPT ![s] = "open"]
  /\ order' = [order EXCEPT ![s] = o]
  /\ UNCHANGED <<things, effect, removed, log, report>>

\* An order that is not to be given is not; that may be written down or not.
Refuse(s) ==
  /\ stage[s] = "free"
  /\ stage' = [stage EXCEPT ![s] = "closed"]
  /\ log' \in {log, [log EXCEPT ![s] = <<"refused">>]}
  /\ report' \in {report, [report EXCEPT ![s] = Failure]}
  /\ UNCHANGED <<things, order, effect, removed>>

\* The host removes what was asked for, as far as it is there.
CarryOut(s) ==
  LET gone == things[order[s].host] \intersect order[s].wants
  IN  /\ order[s] # NoOrder
      /\ effect[s] = "pending"
      /\ effect' = [effect EXCEPT ![s] = "done"]
      /\ removed' = [removed EXCEPT ![s] = gone]
      /\ things' = [things EXCEPT ![order[s].host] = @ \ gone]
      /\ UNCHANGED <<order, stage, log, report>>

\* Whoever waited has learned that the order was carried out, and says so or
\* finds nobody to say it to.
Confirm(s) ==
  /\ stage[s] = "open"
  /\ effect[s] = "done"
  /\ stage' = [stage EXCEPT ![s] = "closed"]
  /\ log' = [log EXCEPT ![s] = <<"deleted">>]
  /\ report' \in {report, [report EXCEPT ![s] = Success(removed[s])]}
  /\ UNCHANGED <<things, order, effect, removed>>

\* Whoever waited has given up, whatever the host has done or will do.
GiveUp(s) ==
  /\ stage[s] = "open"
  /\ stage' = [stage EXCEPT ![s] = "closed"]
  /\ log' = [log EXCEPT ![s] = <<"failed">>]
  /\ report' \in {report, [report EXCEPT ![s] = Failure]}
  /\ UNCHANGED <<things, order, effect, removed>>

\* Everybody who waits is gone at once, and nothing is written down.
Perish ==
  /\ stage' = [s \in Slots |-> IF stage[s] = "open" THEN "closed" ELSE stage[s]]
  /\ UNCHANGED <<things, order, effect, removed, log, report>>

Forget(s) ==
  /\ stage[s] = "closed"
  /\ stage' = [stage EXCEPT ![s] = "free"]
  /\ order' = [order EXCEPT ![s] = NoOrder]
  /\ effect' = [effect EXCEPT ![s] = "pending"]
  /\ removed' = [removed EXCEPT ![s] = {}]
  /\ log' = [log EXCEPT ![s] = <<>>]
  /\ report' = [report EXCEPT ![s] = Silence]
  /\ UNCHANGED things

\* Of itself a host only gains things.
Grow(h) ==
  /\ \E more \in SUBSET Things : things' = [things EXCEPT ![h] = @ \union more]
  /\ UNCHANGED <<order, stage, effect, removed, log, report>>

Next ==
  \/ \E s \in Slots : \/ \E o \in Allowed : Give(s, o)
                      \/ Refuse(s) \/ CarryOut(s) \/ Confirm(s) \/ GiveUp(s)
                      \/ Forget(s)
  \/ Perish
  \/ \E h \in Hosts : Grow(h)

Spec == Init /\ [][Next]_vars
=============================================================================
