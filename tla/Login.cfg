SPECIFICATION Spec
CONSTANTS
  b1 = b1
  b2 = b2
  t1 = t1
  t2 = t2
  t3 = t3
  f1 = f1
  f2 = f2
  alice = alice
  bob = bob
  Browsers = {b1, b2}
  Tabs = {t1, t2, t3}
  BrowserOf <- ThreeTabs
  Users = {alice, bob}
  Nobody = Nobody
  Flows = {f1, f2}
  None = None
  StateTTL = 1
  SessionTTL = 1
  HandlerBound = 1
  MaxSecrets = 2
  Allowlists <- Everybody
  Settings <- NonceOrState
SYMMETRY Symmetry
INVARIANTS SignedInByOwnLogin ServedWithinLimits SecretOutlivesNoLogin
PROPERTIES OneSessionPerFlow ImplementsSessions
