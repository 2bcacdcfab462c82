\* Does an IMAP fetch return the mail it fetched?
SPECIFICATION Spec
CONSTANTS
  Procs = {p1}
  Users = {alice}
  Mids = {m1}
  Ids = {e1}
  Folders = {inbox}
  Kinds = {"fetch"}
  Providers = {"imap"}
  PageMax = 1
  Faults = FALSE
  Nil = Nil
INVARIANTS
  ImapReturnsMail
