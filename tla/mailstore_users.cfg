\* Two users with copies of the same message; every request ends.
SPECIFICATION FairSpec
CONSTANTS
  Procs = {p1, p2}
  Users = {alice, bob}
  Mids = {m1}
  Ids = {e1, e2}
  Folders = {inbox}
  Kinds = {"fetch", "graph", "delete"}
  Providers = {"pop3"}
  PageMax = 1
  Faults = TRUE
  Nil = Nil
INVARIANTS
  ReturnsOwnMail
PROPERTIES
  TouchedByOwner
  RequestsEnd
