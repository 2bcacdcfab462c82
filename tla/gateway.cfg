\* Requests at any moment on two paths, two of them open together; one client
\* goes before its answer.
SPECIFICATION GatewayFairSpec
CONSTANTS
  Paths = {home, test}
  Limit = 2
  Ttl = 2
  Requests = {1, 2}
  MaxGone = 1
INVARIANTS
  GatewayTypeOK
  GaugeAccounts
  TwoWindows
PROPERTIES
  ServedAgain
