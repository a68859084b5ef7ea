---------------------------- MODULE TokenPolicy ----------------------------
(***************************************************************************)
(* Who a request is taken for, and whether it may manage endpoints: the    *)
(* decisions authenticate() and principalFromBearer() of auth.go make once *)
(* a token is verified or introspected, and authorizeEndpointAdmin() of    *)
(* endpoints.go.  Operators only; Prune and later modules use them.        *)
(*                                                                         *)
(* A credential is what the request carried: nothing, a session cookie     *)
(* that decodes, or the claims of a valid bearer token.                    *)
(***************************************************************************)
EXTENDS Naturals

CONSTANTS NoValue,           \* an absent claim: ""
          AuthEnabled,       \* AUTH_MODE is not none
          Unrestricted,      \* neither OAUTH_ALLOWED_EMAILS nor _DOMAINS is set
          AllowedEmails,     \* the emails those two lists admit
          Audiences,         \* OAUTH_AUDIENCES, or the client id
          MachineAudiences,  \* OAUTH_M2M_AUDIENCES; {}: those above
          MachineClients,    \* OAUTH_M2M_CLIENTS; {}: any
          MachineScopes,     \* OAUTH_M2M_SCOPES; {}: none required
          AdminEmails,       \* ENDPOINTS_ADMIN_EMAILS
          AdminClients,      \* ENDPOINTS_ADMIN_CLIENTS
          AdminScope         \* ENDPOINTS_ADMIN_SCOPE, or its default

\* envList drops empty entries, and an empty scope is replaced by the default.
ASSUME PolicyAssumption ==
  /\ {AuthEnabled, Unrestricted} \subseteq BOOLEAN
  /\ NoValue \notin AllowedEmails \union AdminEmails \union MachineClients
                      \union AdminClients

\* Absent and rejected identities.
Rejected  == [method |-> "none", email |-> NoValue, name |-> NoValue, scopes |-> {}]
Anonymous == Rejected

checkAllowed(email) == Unrestricted \/ email \in AllowedEmails

\* Mutant: the user claims of the token are not looked at.
isMachineTokenOfAnyone(c) ==
  \/ c.grant
  \/ c.client \in MachineClients
  \/ MachineScopes # {} /\ MachineScopes \subseteq c.scopes

\* A token is a machine's only if it carries no user claim, and then by its
\* grant, its client or its scopes.
isMachineToken(c) ==
  /\ c.email = NoValue
  /\ c.username = NoValue
  /\ \/ c.grant
     \/ c.client \in MachineClients
     \/ MachineScopes # {} /\ MachineScopes \subseteq c.scopes

checkAudience(c, machine) ==
  LET expected == IF machine /\ MachineAudiences # {} THEN MachineAudiences
                                                      ELSE Audiences
  IN  expected = {} \/ c.aud \intersect expected # {}

principalFromMachineClaims(c) ==
  IF /\ c.sub # NoValue \/ c.client # NoValue
     /\ MachineClients # {} => c.client \in MachineClients
     /\ MachineScopes \subseteq c.scopes
  THEN [method |-> "client_credentials",
        email  |-> NoValue,
        name   |-> IF c.client # NoValue THEN c.client ELSE c.sub,
        scopes |-> c.scopes]
  ELSE Rejected

principalFromHumanClaims(c, method) ==
  IF (c.sub # NoValue \/ c.email # NoValue) /\ checkAllowed(c.email)
  THEN [method |-> method, email |-> c.email, name |-> c.email, scopes |-> {}]
  ELSE Rejected

principalFromBearer(c) ==
  LET machine == isMachineToken(c) IN
    IF ~checkAudience(c, machine) THEN Rejected
    ELSE IF machine THEN principalFromMachineClaims(c)
    ELSE principalFromHumanClaims(c, "bearer")

authenticate(c) ==
  CASE c.kind = "none"    -> Anonymous
    [] c.kind = "session" -> principalFromHumanClaims(c, "session")
    [] c.kind = "bearer"  -> principalFromBearer(c)

\* Humans by the email allowlist, machines by client and scope.  Two empty
\* lists admit nobody.
authorizeEndpointAdmin(p) ==
  \/ /\ p.method = "client_credentials"
     /\ p.name \in AdminClients
     /\ AdminScope \in p.scopes
  \/ /\ p.method \in {"session", "bearer"}
     /\ p.email \in AdminEmails
=============================================================================
