\* Can a new Microsoft user log in a second time?
SPECIFICATION Spec
CONSTANTS
  Procs = {p1}
  Ids = {i1, i2}
  Seeded = {}
  Emails = {e1}
  Pws = {w1}
  MsIds = {m1}
  Ops = {"msLogin"}
  Faults = FALSE
  Nil = Nil
  Missing = Missing
INVARIANTS
  MsLoginWorks
