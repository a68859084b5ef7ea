\* A client timeout above jwksMinRefetch: fetches overlap and an old document
\* can replace a newer one.
SPECIFICATION FairSpec
CONSTANTS
  Callers = {c1, c2}
  Kids = {k1}
  NoKid = NoKid
  CacheTTL = 2
  MinRefetch = 1
  FetchBound = 1
  MaxVersion = 2
PROPERTIES CacheConverges
