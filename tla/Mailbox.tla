------------------------------ MODULE Mailbox ------------------------------
(***************************************************************************)
(* What the mail store promises to a user, with the database, the mail     *)
(* protocols and the concurrent requests left out: every user has at most  *)
(* one copy of a message, a copy never vanishes and never loses its        *)
(* identity, and its flags change only by the operations the API offers.   *)
(* MailStore is shown to implement this.                                   *)
(***************************************************************************)
CONSTANTS Users, Mids, Folders,
          Absent,      \* a message the user has no copy of
          Synced       \* TRUE: a server copy may overwrite the local flags

VARIABLE box

Copy == [folder : Folders, read : BOOLEAN, deleted : BOOLEAN]

BoxTypeOK == box \in [Users -> [Mids -> Copy \cup {Absent}]]

Init == box \in [Users -> [Mids -> {Absent}]]

Put(u, m, c) == box' = [box EXCEPT ![u][m] = c]

\* A message arrives from a mail server; it is never delivered as deleted.
Deliver(u, m) ==
  /\ box[u][m] = Absent
  /\ \E f \in Folders, r \in BOOLEAN :
       Put(u, m, [folder |-> f, read |-> r, deleted |-> FALSE])

MarkRead(u, m) ==
  /\ box[u][m] # Absent
  /\ Put(u, m, [box[u][m] EXCEPT !.read = TRUE])

MarkDeleted(u, m) ==
  /\ box[u][m] # Absent
  /\ Put(u, m, [box[u][m] EXCEPT !.deleted = TRUE])

Move(u, m) ==
  /\ box[u][m] # Absent
  /\ \E f \in Folders : Put(u, m, [box[u][m] EXCEPT !.folder = f])

\* Microsoft Graph's copy of the flags replaces the local ones.
Sync(u, m) ==
  /\ Synced
  /\ box[u][m] # Absent
  /\ \E r \in BOOLEAN :
       Put(u, m, [box[u][m] EXCEPT !.read = r, !.deleted = FALSE])

Next == \E u \in Users, m \in Mids :
          \/ Deliver(u, m)
          \/ MarkRead(u, m)
          \/ MarkDeleted(u, m)
          \/ Move(u, m)
          \/ Sync(u, m)

Spec == Init /\ [][Next]_box
=============================================================================
