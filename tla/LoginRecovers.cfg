\* One tab; the provider takes a code back once and compares verifiers.
SPECIFICATION FairSpec
CONSTANTS
  b1 = b1
  b2 = b2
  t1 = t1
  t2 = t2
  t3 = t3
  f1 = f1
  f2 = f2
  alice = alice
  bob = bob
  Browsers = {b1}
  Tabs = {t1}
  BrowserOf <- OneTab
  Users = {alice}
  Nobody = Nobody
  Flows = {f1, f2}
  None = None
  StateTTL = 1
  SessionTTL = 1
  HandlerBound = 1
  MaxSecrets = 2
  Allowlists <- AllOrNone
  Settings <- Verifier
PROPERTIES LoginRecovers
