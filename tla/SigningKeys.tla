---------------------------- MODULE SigningKeys ----------------------------
(***************************************************************************)
(* What the requests that verify tokens may rely on, with no cache, clock  *)
(* or fetch in sight: one document is trusted at a time, trust moves only  *)
(* to later documents, and every answer is what the trusted document says  *)
(* of the kid, or an error.                                                *)
(***************************************************************************)
EXTENDS Naturals

CONSTANTS Callers, Kids, NoKid, MaxVersion

VARIABLES docs,     \* docs[v]: the kids of the provider's v-th document
          version,  \* the latest document the provider published
          trusted,  \* the document whose keys are accepted, 0: none
          answer    \* the latest answer each caller got

vars == <<docs, version, trusted, answer>>

KeyIds   == Kids \union {NoKid}
Versions == 0 .. MaxVersion

Init ==
  /\ docs \in [Versions -> SUBSET KeyIds]
  /\ docs[0] = {}
  /\ version = 1
  /\ trusted = 0
  /\ answer = [c \in Callers |-> [kind |-> "none", kid |-> NoKid, ver |-> 0]]

\* The answers document v allows for kid k.  A token without a kid may be
\* given the only key of the document.
Allowed(k, v) ==
  [kind : {"error"}, kid : {k}, ver : {0}]
    \union (IF k \in docs[v]
              THEN [kind : {"key"}, kid : {k}, ver : {v}]
              ELSE [kind : {"unknown"}, kid : {k}, ver : {0}])
    \union (IF k = NoKid /\ docs[v] # {}
              THEN [kind : {"key"}, kid : {k}, ver : {v}]
              ELSE {})

\* A lookup is answered, possibly after trusting a later document.
Answer(c) ==
  /\ \E k \in KeyIds, v \in trusted .. version :
       /\ trusted' = v
       /\ answer' \in {[answer EXCEPT ![c] = a] : a \in Allowed(k, v)}
  /\ UNCHANGED <<docs, version>>

Publish ==
  /\ version < MaxVersion
  /\ version' = version + 1
  /\ \E d \in SUBSET KeyIds : docs' = [docs EXCEPT ![version + 1] = d]
  /\ UNCHANGED <<trusted, answer>>

Next == Publish \/ \E c \in Callers : Answer(c)

Spec == Init /\ [][Next]_vars
=============================================================================
