\* Registrations, Microsoft logins, updates and removals, two at a time.
SPECIFICATION Spec
CONSTANTS
  Procs = {p1, p2}
  Ids = {i1, i2}
  Seeded = {i1}
  Emails = {e1, e2}
  Pws = {w1}
  MsIds = {m1}
  Ops = {"update", "remove", "create", "msLogin"}
  Faults = FALSE
  Nil = Nil
  Missing = Missing
SYMMETRY Interchangeable
INVARIANTS
  TypeOK
  ActiveEmailsUnique
  CacheEntriesSound
PROPERTIES
  RemovalStands
  StaleExplained
