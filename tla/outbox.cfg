\* Sends, retries and configuration changes, with lost replies, failures and restarts.
SPECIFICATION FairSpec
CONSTANTS
  Procs = {p1, p2}
  Msgs = {m1}
  Confs <- SomeConfs
  MaxTries = 2
  Faults = TRUE
  Passwords = {w1, w2}
  Garbage = Garbage
  Keep = Keep
  Nil = Nil
INVARIANTS
  TypeOK
  RecordedWasSent
  OkIsDone
  PasswordKept
  UsesSavedPassword
PROPERTIES
  RequestsEnd
