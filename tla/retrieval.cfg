\* Walks through a mailbox of up to four messages that changes meanwhile.
SPECIFICATION FairSpec
CONSTANTS
  Methods = {"imap", "pop3", "graph", "db"}
  MaxMsgs = 4
  MaxLimit = 2
  Faults = TRUE
INVARIANTS
  TypeOK
  NothingMissed
  EachOnce
  PagesInOrder
PROPERTIES
  WalkEnds
