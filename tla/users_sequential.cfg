\* One request at a time, a cache and a database that work.
SPECIFICATION Spec
CONSTANTS
  Procs = {p1}
  Ids = {i1, i2}
  Seeded = {i1}
  Emails = {e1, e2}
  Pws = {w1, w2}
  MsIds = {m1}
  Ops = {"findOne", "findByEmail", "findAll", "update", "remove", "msLogin", "login"}
  Faults = FALSE
  Nil = Nil
  Missing = Missing
SYMMETRY Interchangeable
INVARIANTS
  IdCoherent
  ListCoherent
