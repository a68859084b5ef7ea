\* One request after the other, with others around it; two kids and the key
\* without one, two key documents, with OAUTH_ISSUER and without, and one token
\* per check that can fail.  A tick is the skew; a reply may take two.
SPECIFICATION Spec
CONSTANTS
  NoValue = NoValue
  AuthEnabled = TRUE
  Unrestricted = TRUE
  AllowedEmails = {}
  Audiences = {api}
  MachineAudiences = {}
  MachineClients = {}
  MachineScopes = {}
  AdminEmails = {}
  AdminClients = {}
  AdminScope = "endpoints:admin"
  k1 = k1
  k2 = k2
  forger = forger
  alice = alice
  cron = cron
  api = api
  idp = idp
  rogue = rogue
  Requests = {r1}
  Tokens <- MCTokens
  Kids = {k1, k2}
  NoKid = NoKid
  NoIssuer = NoIssuer
  IssuerURLs <- MCIssuerURLs
  ProviderIssuer = idp
  Introspection = TRUE
  Skew = 1
  IssuedAhead = 1
  Timeout = 2
  MaxRevoked = 1
  MaxVersion = 2
  MaxTime = 5
PROPERTIES AcceptedInTime AcceptedByPublishedKey ActiveDuringRequest GoodTokensAccepted
