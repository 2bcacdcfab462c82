\* Two tabs, of one browser or of two, with lost sessions and failures.
SPECIFICATION FairSpec
CONSTANTS
  Tabs = {1, 2}
  Browsers = {1, 2}
  Sids = {1, 2, 3, 4}
  Flows = {1, 2, 3, 4, 5, 6, 7, 8}
  MaxLosses = 1
  Faults = TRUE
  None = None
INVARIANTS
  TypeOK
  OwnLogin
  AloneSucceeds
PROPERTIES
  LoginEnds
