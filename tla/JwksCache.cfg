\* Two requests, a kid and the absent kid, three documents.  One tick is the
\* longest fetch; the throttle lasts two and the cache three, so every order
\* of FetchBound < MinRefetch < CacheTTL is strict and every age is crossed.
SPECIFICATION Spec
CONSTANTS
  Callers = {c1, c2}
  Kids = {k1}
  NoKid = NoKid
  CacheTTL = 3
  MinRefetch = 2
  FetchBound = 1
  MaxVersion = 3
SYMMETRY CallerSymmetry
INVARIANTS OneFetchInFlight FreshMeansRecent
PROPERTIES StaleKeyOnlyWhileThrottled NewKeyKnownSoon CachingKeepsAnswers
  ImplementsSigningKeys
