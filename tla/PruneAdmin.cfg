\* One attempt, with every combination of claims.
SPECIFICATION Spec
CONSTANTS
  NoValue = NoValue
  AuthEnabled = TRUE
  Unrestricted = FALSE
  AllowedEmails = {alice, bob}
  Audiences = {api}
  MachineAudiences = {}
  MachineClients = {}
  MachineScopes = {"archview:read"}
  AdminEmails = {alice}
  AdminClients = {cron}
  AdminScope = "endpoints:admin"
  a1 = a1
  a2 = a2
  alice = alice
  bob = bob
  reader = reader
  cron = cron
  api = api
  other = other
  Attempts <- OneAttempt
  Requests <- AllRequests
  Endpoints = {host1}
  Unknown = nowhere
  Dangling = {dangling}
  Tagged = {tagged}
  InUse = {used}
  AdmitTimeout = 1
  Grace = 1
  WriteTimeout = 1
  CallTimeout = 2
INVARIANT PrunedOnlyForAdmin
