\* Two requests in any handler, two key urls, three documents; a provider
\* request lasts at most one tick and the metadata two.
SPECIFICATION Spec
CONSTANTS
  Requests = {r1, r2}
  Uris = {u1, u2}
  NoUri = NoUri
  Mode = "oidc"
  JWKSURL = NoUri
  CacheTTL = 2
  Timeout = 1
  MaxVersion = 3
SYMMETRY Symmetry
INVARIANTS FreshMetadataRecent
PROPERTIES CallbackKeysRecent ReadyMeansReachedRecently KeysFoundAfterDiscovery
