\* POP3 fetches beside marks, moves and configuration changes, with faults and restarts.
SPECIFICATION Spec
CONSTANTS
  Procs = {p1, p2}
  Users = {alice}
  Mids = {m1, m2}
  Ids = {e1, e2}
  Folders = {inbox, archive}
  Kinds = {"fetch", "read", "delete", "move", "config"}
  Providers = {"pop3"}
  PageMax = 2
  Faults = TRUE
  Nil = Nil
SYMMETRY Interchangeable
INVARIANTS
  TypeOK
  OneRowPerMessage
  StoredOnOk
  MarkAcknowledged
PROPERTIES
  ImplementsMailbox
