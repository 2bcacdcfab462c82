\* Microsoft Graph pages saved by parallel transactions, beside IMAP and single messages.
SPECIFICATION Spec
CONSTANTS
  Procs = {p1, p2}
  Users = {alice}
  Mids = {m1, m2}
  Ids = {e1, e2}
  Folders = {inbox}
  Kinds = {"fetch", "graph", "byId", "details", "delete", "config"}
  Providers = {"imap"}
  PageMax = 2
  Faults = TRUE
  Nil = Nil
SYMMETRY Interchangeable
INVARIANTS
  OneRowPerMessage
  StoredOnOk
PROPERTIES
  ImplementsMailbox
