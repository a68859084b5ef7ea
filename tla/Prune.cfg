\* Two attempts on one host, an image of each kind.  The times keep their order:
\* a call may last longer than the grace of a stop and use up the time in which the
\* server writes, and authentication may take the whole grace.
SPECIFICATION Spec
CONSTANTS
  NoValue = NoValue
  AuthEnabled = TRUE
  Unrestricted = TRUE
  AllowedEmails = {}
  Audiences = {api}
  MachineAudiences = {}
  MachineClients = {}
  MachineScopes = {}
  AdminEmails = {alice}
  AdminClients = {cron}
  AdminScope = "endpoints:admin"
  a1 = a1
  a2 = a2
  alice = alice
  bob = bob
  reader = reader
  cron = cron
  api = api
  other = other
  Attempts <- MCAttempts
  Requests <- FewRequests
  Endpoints = {host1}
  Unknown = nowhere
  Dangling = {dangling}
  Tagged = {tagged}
  InUse = {used}
  AdmitTimeout = 1
  Grace = 1
  WriteTimeout = 2
  CallTimeout = 2
INVARIANTS TypeOK SuccessMeansPruned CallsAreAudited StopSparesQuickRequests
PROPERTIES ImplementsOrders HandlersEnd
