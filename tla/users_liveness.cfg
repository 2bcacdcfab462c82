\* Every request ends, and what can leave an entry stale, with crashes, configuration
\* changes and a cache that refuses deletions.
SPECIFICATION FairSpec
CONSTANTS
  Procs = {p1, p2}
  Ids = {i1}
  Seeded = {}
  Emails = {e1}
  Pws = {w1}
  MsIds = {m1}
  Ops = {"findAll", "remove", "create", "config", "chaos"}
  Faults = TRUE
  Nil = Nil
  Missing = Missing
PROPERTIES
  RequestsEnd
  StaleExplained
