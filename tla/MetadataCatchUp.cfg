\* oauth2 mode, where a document may lack the jwks_uri.
SPECIFICATION FairSpec
CONSTANTS
  Requests = {r1, r2}
  Uris = {u1, u2}
  NoUri = NoUri
  Mode = "oauth2"
  JWKSURL = NoUri
  CacheTTL = 1
  Timeout = 1
  MaxVersion = 2
PROPERTIES KeysCatchUp
