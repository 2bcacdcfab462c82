---------------------------- MODULE MailboxProofs ----------------------------
(***************************************************************************)
(* What a step of MailStore may do to the Email table: nothing, or one     *)
(* write, by a request of the owner of the row.  From it follow the action *)
(* property TouchedByOwner, that MailStore implements Mailbox, and, where  *)
(* Microsoft Graph is not in use, that acknowledged flags stay.            *)
(***************************************************************************)
EXTENDS MailStoreProofs

\* A row for a message its user had no copy of.
Inserts(id, row) ==
  rows[id] = Nil /\ ~Has(rows, row.user, row.mid) /\ ~row.deleted

\* New flags or a new folder for a row there is.
Edits(id, row) ==
  /\ rows[id] # Nil
  /\ \/ row = [rows[id] EXCEPT !.read = TRUE]
     \/ row = [rows[id] EXCEPT !.deleted = TRUE]
     \/ \E f \in Folders : row = [rows[id] EXCEPT !.folder = f]
     \/ GraphUsed /\ \E b \in BOOLEAN : row = [rows[id] EXCEPT !.read = b, !.deleted = FALSE]

\* The one write a request may do in a step.
Writes(p, id, row) ==
  /\ req[p].pc \notin {"idle", "done"} /\ row.user = req[p].user
  /\ rows' = [rows EXCEPT ![id] = row]
  /\ Inserts(id, row) \/ Edits(id, row)

WritesOnce(p) == \E id \in Ids, row \in Row : Writes(p, id, row)

-----------------------------------------------------------------------------
(* The writes of the handlers *)

\* create, accepted by the unique index, inserts.
LEMMA CreateWrites ==
  ASSUME IInv, NEW p \in Procs, req[p].pc \notin {"idle", "done"},
         NEW item \in Item, item.mid # Nil, NEW f \in Folders,
         LET row == NewRow(req[p].user, item, f) IN
           ~UniqueViolation(row) /\ InsertRow(row)
  PROVE  WritesOnce(p)
<1> DEFINE row == NewRow(req[p].user, item, f)
<1>1. req[p].user \in Users BY Moving
<1>2. row \in Row /\ row.user = req[p].user BY <1>1, NewRowOK
<1>3. ~row.deleted BY DEF NewRow
<1> HIDE DEF row
<1>4. ~Has(rows, row.user, row.mid) BY StoredHas DEF UniqueViolation, row
<1>5. PICK id \in Ids : rows[id] = Nil /\ rows' = [rows EXCEPT ![id] = row]
  BY DEF InsertRow, row
<1>6. Inserts(id, row) BY <1>3, <1>4, <1>5 DEF Inserts
<1>7. Writes(p, id, row) BY <1>2, <1>5, <1>6 DEF Writes
<1> QED BY <1>2, <1>7 DEF WritesOnce

\* The step SaveCreate writes at most once.
LEMMA SaveCreateWrites ==
  ASSUME IInv, NEW p \in Procs, SaveCreate(p) PROVE UNCHANGED rows \/ WritesOnce(p)
<1> DEFINE r == req[p]
<1>1. r.pc = "create" /\ ReqOK(r) /\ ReqInv(rows, r) BY Moving DEF SaveCreate
<1>2. /\ r.folder \in Folders /\ r.k <= Len(r.page) /\ r.page[r.k].mid # Nil
  BY <1>1 DEF ReqInv
<1>3. r.page[r.k] \in Item
  <2>1. r.k \in 1..Len(r.page) BY <1>1, <1>2, PageOfReq, PageAssumption DEF ReqOK
  <2> QED BY <1>1, <2>1, PageOfReq
<1>4. CASE UNCHANGED rows BY <1>4
<1>5. CASE LET row == NewRow(r.user, r.page[r.k], r.folder) IN
             ~UniqueViolation(row) /\ InsertRow(row)
  BY <1>1, <1>2, <1>3, <1>5, CreateWrites
<1> QED BY <1>4, <1>5 DEF SaveCreate

\* The step TxnCreate writes at most once.
LEMMA TxnCreateWrites ==
  ASSUME IInv, NEW p \in Procs, TxnCreate(p) PROVE UNCHANGED rows \/ WritesOnce(p)
<1> DEFINE r == req[p]
<1>1. PICK j \in DOMAIN r.txn :
        /\ InTxn(r, j, "create")
        /\ \/ UNCHANGED rows
           \/ LET row == NewRow(r.user, r.page[j], r.folder) IN
                ~UniqueViolation(row) /\ InsertRow(row)
  BY DEF TxnCreate
<1>2. r.pc \in {"txns", "drain"} /\ ReqOK(r) /\ ReqInv(rows, r)
  BY <1>1, Moving DEF InTxn
<1>3. /\ j \in DOMAIN r.page /\ r.page[j].mid # Nil /\ r.folder \in Folders
  BY <1>2 DEF ReqInv
<1>4. r.page[j] \in Item BY <1>2, <1>3, PageOfReq
<1>5. CASE UNCHANGED rows BY <1>5
<1>6. CASE LET row == NewRow(r.user, r.page[j], r.folder) IN
             ~UniqueViolation(row) /\ InsertRow(row)
  BY <1>2, <1>3, <1>4, <1>6, CreateWrites
<1> QED BY <1>1, <1>5, <1>6

\* The step DetailsCreate writes at most once.
LEMMA DetailsCreateWrites ==
  ASSUME IInv, NEW p \in Procs, DetailsCreate(p) PROVE UNCHANGED rows \/ WritesOnce(p)
<1> DEFINE r == req[p]
<1>1. r.pc = "detailsCreate" /\ ReqOK(r) /\ ReqInv(rows, r) BY Moving DEF DetailsCreate
<1>2. PICK f \in Folders, id \in Ids :
        \/ UNCHANGED rows
        \/ LET row == NewRow(r.user, r.page[1], f) IN
           ~UniqueViolation(row) /\ rows[id] = Nil /\ rows' = [rows EXCEPT ![id] = row]
  BY DEF DetailsCreate
<1>3. DOMAIN r.page = {1} /\ r.page[1].mid # Nil BY <1>1 DEF ReqInv
<1>4. r.page[1] \in Item BY <1>1, <1>3, PageOfReq
<1>5. CASE UNCHANGED rows BY <1>5
<1>6. CASE LET row == NewRow(r.user, r.page[1], f) IN
           ~UniqueViolation(row) /\ rows[id] = Nil /\ rows' = [rows EXCEPT ![id] = row]
  <2>1. LET row == NewRow(r.user, r.page[1], f) IN ~UniqueViolation(row) /\ InsertRow(row)
    BY <1>6 DEF InsertRow
  <2> QED BY <1>1, <1>3, <1>4, <2>1, CreateWrites
<1> QED BY <1>2, <1>5, <1>6

\* A row of the request's user, edited.
LEMMA EditWrites ==
  ASSUME IInv, NEW p \in Procs, req[p].pc \notin {"idle", "done"},
         NEW id \in Ids, rows[id] # Nil, rows[id].user = req[p].user,
         NEW row, Edits(id, row), rows' = [rows EXCEPT ![id] = row]
  PROVE  WritesOnce(p)
<1>1. rows[id] \in Row BY DEF IInv, TypeOK
<1>2. row \in Row /\ row.user = rows[id].user BY <1>1 DEF Edits, Row
<1>3. Writes(p, id, row) BY <1>2 DEF Writes
<1> QED BY <1>2, <1>3 DEF WritesOnce

\* The step TxnUpdate writes once; its requests are Graph's.
LEMMA TxnUpdateWrites == ASSUME IInv, NEW p \in Procs, TxnUpdate(p) PROVE WritesOnce(p)
<1> DEFINE r == req[p]
<1>1. PICK j \in DOMAIN r.txn :
        /\ InTxn(r, j, "update")
        /\ rows' = [rows EXCEPT ![r.txn[j].id] = SyncFlags(@, r.page[j])]
  BY DEF TxnUpdate
<1> DEFINE id  == r.txn[j].id
           row == SyncFlags(rows[id], r.page[j])
<1>2. r.pc \in {"txns", "drain"} /\ ReqOK(r) /\ ReqInv(rows, r) BY <1>1, Moving DEF InTxn
<1>3. /\ j \in DOMAIN r.page /\ Holds(rows, id, r.user, r.page[j].mid) /\ GraphUsed
  BY <1>1, <1>2 DEF ReqInv, InTxn
<1>4. id \in Ids /\ rows[id] # Nil /\ rows[id].user = r.user BY <1>3 DEF Holds
<1>5. r.page[j].read \in BOOLEAN BY <1>2, <1>3, PageOfReq DEF Item
<1>6. Edits(id, row) BY <1>3, <1>4, <1>5 DEF Edits, SyncFlags
<1>7. rows' = [rows EXCEPT ![id] = row] BY <1>1
<1> HIDE DEF row, id
<1> QED BY <1>2, <1>4, <1>6, <1>7, EditWrites

\* The step DetailsUpdate writes once.
LEMMA DetailsUpdateWrites == ASSUME IInv, NEW p \in Procs, DetailsUpdate(p) PROVE WritesOnce(p)
<1> DEFINE r   == req[p]
           row == [rows[r.id] EXCEPT !.read = TRUE]
<1>1. /\ r.pc = "detailsUpdate" /\ ReqInv(rows, r) /\ rows' = [rows EXCEPT ![r.id] = row]
  BY Moving DEF DetailsUpdate
<1>2. r.id \in Ids /\ rows[r.id] # Nil /\ rows[r.id].user = r.user
  BY <1>1 DEF ReqInv, Holds
<1>3. Edits(r.id, row) BY <1>2 DEF Edits
<1> HIDE DEF row
<1> QED BY <1>1, <1>2, <1>3, EditWrites

\* The step MarkUpdate writes once.
LEMMA MarkUpdateWrites == ASSUME IInv, NEW p \in Procs, MarkUpdate(p) PROVE WritesOnce(p)
<1> DEFINE r == req[p]
<1>1. /\ r.pc = "mark" /\ ReqInv(rows, r) /\ rows' = [rows EXCEPT ![r.id] = Marked(r)]
  BY Moving DEF MarkUpdate
<1>2. /\ r.kind \in {"read", "delete", "move"}
      /\ r.kind = "move" => r.folder \in Folders
      /\ r.id \in Ids /\ rows[r.id] # Nil /\ rows[r.id].user = r.user
  BY <1>1 DEF ReqInv, Own
<1>3. Edits(r.id, Marked(r))
  <2>1. CASE r.kind = "read" BY <1>2, <2>1 DEF Marked, Edits
  <2>2. CASE r.kind = "delete" BY <1>2, <2>2 DEF Marked, Edits
  <2>3. CASE r.kind = "move" BY <1>2, <2>3 DEF Marked, Edits
  <2> QED BY <1>2, <2>1, <2>2, <2>3
<1> QED BY <1>1, <1>2, <1>3, EditWrites

\* No step writes more than one row, and none writes outside these forms.
LEMMA StepWrites ==
  ASSUME IInv, [Next]_vars
  PROVE  UNCHANGED rows \/ \E p \in Procs : Step(p) /\ WritesOnce(p)
<1>1. ASSUME NEW p \in Procs, Arrive(p) PROVE UNCHANGED rows
  BY <1>1 DEF Arrive, FetchEmails, GraphEmails, GetEmailById, GetEmailDetails, MarkFind
<1>2. ASSUME NEW p \in Procs, Step(p) PROVE UNCHANGED rows \/ WritesOnce(p)
  <2>1. CASE SaveCreate(p) BY <2>1, SaveCreateWrites
  <2>2. CASE TxnCreate(p) BY <2>2, TxnCreateWrites
  <2>3. CASE DetailsCreate(p) BY <2>3, DetailsCreateWrites
  <2>4. CASE TxnUpdate(p) BY <2>4, TxnUpdateWrites
  <2>5. CASE DetailsUpdate(p) BY <2>5, DetailsUpdateWrites
  <2>6. CASE MarkUpdate(p) BY <2>6, MarkUpdateWrites
  <2> QED
    BY <1>2, <2>1, <2>2, <2>3, <2>4, <2>5, <2>6
    DEF Step, OpenFails, OpenImap, OpenPop3, OpenGraph, SaveSkip, SaveFind, SaveDone,
        ReadBack, TxnFind, TxnAll, GetEmailByIdFallback, DetailsFind, DbFails, Retire
<1> QED BY <1>1, <1>2 DEF Next, UpdateConfig, Restart, vars

-----------------------------------------------------------------------------
(* The action property *)

\* A row is only ever written by a step of a request of its owner, and stays its owner's.
THEOREM OnlyOwnersWrite == Spec => TouchedByOwner
<1> DEFINE Touch == \A id \in Ids : rows'[id] # rows[id] =>
                      /\ rows[id] # Nil => rows'[id].user = rows[id].user
                      /\ \E p \in Procs : Step(p) /\ req[p].user = rows'[id].user
<1>1. ASSUME IInv, [Next]_vars PROVE Touch
  <2>1. CASE UNCHANGED rows BY <2>1
  <2>2. ASSUME NEW p \in Procs, Step(p), WritesOnce(p) PROVE Touch
    <3>1. PICK id \in Ids, row \in Row : Writes(p, id, row) BY <2>2 DEF WritesOnce
    <3>2. \A a \in Ids : rows'[a] = IF a = id THEN row ELSE rows[a]
      BY <1>1, <3>1 DEF Writes, IInv, TypeOK
    <3>3. rows[id] # Nil => row.user = rows[id].user
      <4>1. rows[id] # Nil => rows[id] \in Row BY <1>1 DEF IInv, TypeOK
      <4> QED BY <3>1, <4>1 DEF Writes, Inserts, Edits, Row
    <3>4. row.user = req[p].user BY <3>1 DEF Writes
    <3> QED BY <2>2, <3>2, <3>3, <3>4
  <2> QED BY <1>1, <2>1, <2>2, StepWrites
<1>2. IInv /\ [Next]_vars => [Touch]_vars BY <1>1
<1> QED BY <1>2, Invariant, PTL DEF Spec, TouchedByOwner
-----------------------------------------------------------------------------
(* The refinement *)

\* The copy a table t holds for a user.
CopyAt(t, id) == [folder |-> t[id].folder, read |-> t[id].read, deleted |-> t[id].deleted]

CopyIn(t, u, m) ==
  LET found == {id \in Ids : t[id] # Nil /\ t[id].user = u /\ t[id].mid = m} IN
  IF found = {} THEN Nil ELSE CopyAt(t, CHOOSE id \in found : TRUE)

Box == [u \in Users |-> [m \in Mids |-> CopyOf(u, m)]]

\* A message a user does not have.
LEMMA CopyAbsent ==
  ASSUME NEW t, NEW u, NEW m, ~Has(t, u, m)
  PROVE  CopyIn(t, u, m) = Nil
BY DEF CopyIn, Has

\* The copy is the only row there is for a user and a message.
LEMMA CopyPresent ==
  ASSUME NEW t, Unique(t), NEW id \in Ids, t[id] # Nil
  PROVE  CopyIn(t, t[id].user, t[id].mid) = CopyAt(t, id)
<1> DEFINE found == {a \in Ids : t[a] # Nil /\ t[a].user = t[id].user /\ t[a].mid = t[id].mid}
<1>1. found = {id} BY DEF Unique
<1>2. (CHOOSE a \in found : TRUE) = id BY <1>1
<1> QED BY <1>1, <1>2 DEF CopyIn

\* Table s is t with a row written.
Written(s, t, id, row) == \A a \in Ids : s[a] = IF a = id THEN row ELSE t[a]

\* A row that is written changes the copy it is, and no other.
LEMMA CopyWritten ==
  ASSUME NEW t, TableOK(t), NEW s, TableOK(s), NEW id \in Ids, NEW row \in Row,
         Written(s, t, id, row),
         t[id] # Nil => t[id].user = row.user /\ t[id].mid = row.mid,
         NEW u, NEW m
  PROVE  CopyIn(s, u, m) = IF u = row.user /\ m = row.mid THEN CopyAt(s, id)
                           ELSE CopyIn(t, u, m)
<1>2. row # Nil /\ s[id] = row BY NilAssumption DEF Written
<1>3. CASE u = row.user /\ m = row.mid
  BY <1>2, <1>3, CopyPresent DEF TableOK
<1>4. CASE ~(u = row.user /\ m = row.mid)
  <2>1. ASSUME NEW a \in Ids, t[a] # Nil, t[a].user = u, t[a].mid = m
        PROVE  CopyIn(s, u, m) = CopyIn(t, u, m)
    <3>1. s[a] = t[a] BY <1>4, <2>1 DEF Written
    <3>2. CopyIn(t, u, m) = CopyAt(t, a) BY <2>1, CopyPresent DEF TableOK
    <3>3. CopyIn(s, u, m) = CopyAt(s, a) BY <2>1, <3>1, CopyPresent DEF TableOK
    <3> QED BY <3>1, <3>2, <3>3 DEF CopyAt
  <2>2. ASSUME ~Has(t, u, m) PROVE CopyIn(s, u, m) = CopyIn(t, u, m)
    <3>1. ~Has(s, u, m) BY <1>2, <1>4, <2>2 DEF Has, Written
    <3> QED BY <2>2, <3>1, CopyAbsent
  <2>3. CopyIn(s, u, m) = CopyIn(t, u, m) BY <2>1, <2>2 DEF Has
  <2> QED BY <1>4, <2>3
<1> QED BY <1>3, <1>4

\* The mapping is CopyIn of the table, before and after a step.
LEMMA BoxIs ==
  /\ Box = [u \in Users |-> [m \in Mids |-> CopyIn(rows, u, m)]]
  /\ Box' = [u \in Users |-> [m \in Mids |-> CopyIn(rows', u, m)]]
<1>1. \A u, m : CopyOf(u, m) = CopyIn(rows, u, m)
  BY DEF CopyOf, CopyIn, CopyAt, Stored
<1>2. \A u, m : CopyOf(u, m)' = CopyIn(rows', u, m)
  BY DEF CopyOf, CopyIn, CopyAt, Stored
<1> QED BY <1>1, <1>2 DEF Box

\* A write of a row puts its new copy in its owner's box.
LEMMA BoxPut ==
  ASSUME IInv, IInv', NEW id \in Ids, NEW row \in Row, rows' = [rows EXCEPT ![id] = row],
         rows[id] # Nil => rows[id].user = row.user /\ rows[id].mid = row.mid
  PROVE  M!Put(row.user, row.mid, CopyAt(rows', id))
<1> DEFINE c == CopyAt(rows', id)
<1>1. /\ TableOK(rows) /\ TableOK(rows')
      /\ Written(rows', rows, id, row)
  BY DEF IInv, TypeOK, TableOK, Unique, Written
<1>2. \A u, m : CopyIn(rows', u, m) = IF u = row.user /\ m = row.mid THEN c
                                    ELSE CopyIn(rows, u, m)
  BY <1>1, CopyWritten
<1> HIDE DEF c
<1>3. row.user \in Users /\ row.mid \in Mids BY DEF Row
<1>4. Box' = [Box EXCEPT ![row.user][row.mid] = c]
  <2> DEFINE old(v) == [n \in Mids |-> CopyIn(rows, v, n)]
             new(v) == [n \in Mids |-> CopyIn(rows', v, n)]
  <2>1. Box = [v \in Users |-> old(v)] /\ Box' = [v \in Users |-> new(v)] BY BoxIs
  <2>2. \A v : v # row.user => new(v) = old(v) BY <1>2
  <2>3. new(row.user) = [old(row.user) EXCEPT ![row.mid] = c] BY <1>2, <1>3
  <2> HIDE DEF old, new
  <2> QED BY <1>3, <2>1, <2>2, <2>3
<1> QED BY <1>4 DEF M!Put, Box, c

\* A new row is a delivery.
LEMMA InsertDelivers ==
  ASSUME IInv, IInv', NEW p \in Procs, NEW id \in Ids, NEW row \in Row, Writes(p, id, row),
         Inserts(id, row)
  PROVE  M!Deliver(row.user, row.mid)
<1>1. row.user \in Users /\ row.mid \in Mids /\ row.folder \in Folders /\ row.read \in BOOLEAN
  BY DEF Row
<1>2. Box[row.user][row.mid] = Nil
  BY <1>1, CopyAbsent, BoxIs DEF Inserts
<1>3. rows'[id] = row BY DEF Writes, IInv, TypeOK
<1>4. CopyAt(rows', id) = [folder |-> row.folder, read |-> row.read, deleted |-> FALSE]
  BY <1>3 DEF CopyAt, Inserts, Row
<1>5. M!Put(row.user, row.mid, CopyAt(rows', id)) BY BoxPut DEF Writes, Inserts
<1> QED BY <1>1, <1>2, <1>4, <1>5 DEF M!Deliver, Box

\* New flags or a new folder are one of the other operations of the mailbox.
LEMMA EditMaps ==
  ASSUME IInv, IInv', NEW p \in Procs, NEW id \in Ids, NEW row \in Row, Writes(p, id, row),
         Edits(id, row)
  PROVE  \/ M!MarkRead(row.user, row.mid) \/ M!MarkDeleted(row.user, row.mid)
         \/ M!Move(row.user, row.mid) \/ M!Sync(row.user, row.mid)
<1> DEFINE u == row.user
           m == row.mid
           c == CopyAt(rows, id)
           d == CopyAt(rows', id)
<1>1. u \in Users /\ m \in Mids BY DEF Row
<1>2. rows[id] # Nil /\ rows[id] \in Row BY DEF Edits, IInv, TypeOK
<1>3. rows[id].user = u /\ rows[id].mid = m BY <1>2 DEF Edits, Row
<1>4. M!Put(u, m, d) BY <1>3, BoxPut DEF Writes
<1>5. c \in [folder : Folders, read : BOOLEAN, deleted : BOOLEAN]
  BY <1>2 DEF CopyAt, Row
<1>6. Box[u][m] = c /\ c # Nil
  <2>1. CopyIn(rows, u, m) = c BY <1>2, <1>3, CopyPresent DEF IInv
  <2> QED BY <1>1, <1>5, <2>1, BoxIs, NilAssumption
<1>7. rows'[id] = row BY DEF Writes, IInv, TypeOK
<1> DEFINE yes == TRUE
           no  == FALSE
<1>8. CASE row = [rows[id] EXCEPT !.read = TRUE]
  <2>1. d = [c EXCEPT !.read = yes]
    <3>1. row = [rows[id] EXCEPT !.read = yes] BY <1>8
    <3> HIDE DEF yes
    <3> QED BY <1>2, <1>7, <3>1 DEF CopyAt, Row
  <2> QED BY <1>4, <1>6, <2>1 DEF M!MarkRead, Box
<1>9. CASE row = [rows[id] EXCEPT !.deleted = TRUE]
  <2>1. d = [c EXCEPT !.deleted = yes]
    <3>1. row = [rows[id] EXCEPT !.deleted = yes] BY <1>9
    <3> HIDE DEF yes
    <3> QED BY <1>2, <1>7, <3>1 DEF CopyAt, Row
  <2> QED BY <1>4, <1>6, <2>1 DEF M!MarkDeleted, Box
<1>10. ASSUME NEW f \in Folders, row = [rows[id] EXCEPT !.folder = f]
       PROVE  M!Move(u, m)
  <2>1. d = [c EXCEPT !.folder = f] BY <1>2, <1>7, <1>10 DEF CopyAt, Row
  <2> QED BY <1>4, <1>6, <2>1 DEF M!Move, Box
<1>11. ASSUME GraphUsed, NEW b, b \in BOOLEAN,
              row = [rows[id] EXCEPT !.read = b, !.deleted = FALSE]
       PROVE  M!Sync(u, m)
  <2>1. d = [c EXCEPT !.read = b, !.deleted = no]
    <3>1. rows'[id] = [rows[id] EXCEPT !.read = b, !.deleted = no] BY <1>7, <1>11
    <3> HIDE DEF no
    <3> HIDE DEF c
    <3>2. rows'[id].folder = rows[id].folder /\ rows'[id].read = b /\ rows'[id].deleted = no
      BY <1>2, <3>1 DEF Row
    <3>3. d = [folder |-> rows[id].folder, read |-> b, deleted |-> no] BY <3>2 DEF CopyAt
    <3> DEFINE a == [c EXCEPT !.read = b]
    <3>4. a = [folder |-> rows[id].folder, read |-> b, deleted |-> rows[id].deleted]
      BY DEF c, CopyAt
    <3>5. [c EXCEPT !.read = b, !.deleted = no] = [a EXCEPT !.deleted = no] OBVIOUS
    <3> HIDE DEF a
    <3>6. [a EXCEPT !.deleted = no] = [folder |-> rows[id].folder, read |-> b, deleted |-> no]
      BY <3>4
    <3> QED BY <3>3, <3>5, <3>6
  <2> QED BY <1>4, <1>6, <1>11, <2>1 DEF M!Sync, Box
<1> QED BY <1>8, <1>9, <1>10, <1>11 DEF Edits

\* Every step of the server is a step of the mailbox, or leaves it as it is.
LEMMA StepMaps == ASSUME IInv, [Next]_vars PROVE [M!Next]_Box
<1>1. IInv' BY NextInv
<1>2. CASE UNCHANGED rows BY <1>2, BoxIs
<1>3. CASE \E p \in Procs : Step(p) /\ WritesOnce(p)
  <2>1. PICK p \in Procs, id \in Ids, row \in Row : Writes(p, id, row)
    BY <1>3 DEF WritesOnce
  <2>2. row.user \in Users /\ row.mid \in Mids BY DEF Row
  <2>3. CASE Inserts(id, row)
    BY <1>1, <2>1, <2>2, <2>3, InsertDelivers DEF M!Next
  <2>4. CASE Edits(id, row)
    BY <1>1, <2>1, <2>2, <2>4, EditMaps DEF M!Next
  <2> QED BY <2>1, <2>3, <2>4 DEF Writes
<1> QED BY <1>2, <1>3, StepWrites

\* The Email table, whatever the handlers do to it concurrently and wherever they
\* fail, is the mailbox Mailbox promises.
THEOREM MailboxImplemented == Spec => ImplementsMailbox
<1>1. Init => M!Init
  <2> SUFFICES ASSUME Init PROVE M!Init
    OBVIOUS
  <2>1. \A u, m : ~Has(rows, u, m) BY DEF Init, Has
  <2>2. \A u, m : CopyIn(rows, u, m) = Nil BY <2>1, CopyAbsent
  <2>3. Box \in [Users -> [Mids -> {Nil}]] BY <2>2, BoxIs
  <2> QED BY <2>3 DEF M!Init, Box
<1>2. IInv /\ [Next]_vars => [M!Next]_Box BY StepMaps
<1> QED BY <1>1, <1>2, Invariant, PTL DEF Spec, ImplementsMailbox, M!Spec, Box
-----------------------------------------------------------------------------
(* Acknowledged marks *)

\* A request that may tell its client that a flag is set.
Marks(r) == r.resp = "ok" /\ r.kind \in {"read", "delete"}

\* What such an answer is about, and still is: the row it returned.
Acknowledged(t, r) ==
  Marks(r) => /\ r.id \in r.got
              /\ r.kind = "read"   => t[r.id].read
              /\ r.kind = "delete" => t[r.id].deleted

MarksInv == \A p \in Procs : Acknowledged(rows, req[p])

\* Only MarkUpdate acknowledges a mark.
LEMMA OnlyMarkUpdate ==
  ASSUME IInv, [Next]_vars, NEW q \in Procs, Marks(req'[q])
  PROVE  req'[q] = req[q] \/ MarkUpdate(q)
<1> DEFINE Goal == req'[q] = req[q] \/ MarkUpdate(q)
<1>1. ASSUME NEW p \in Procs, NEW r, Set(p, r), ~Marks(r) PROVE Goal
  <2>1. req'[q] = IF q = p THEN r ELSE req[q] BY <1>1 DEF Set, IInv, TypeOK
  <2> QED BY <1>1, <2>1
<1>2. ASSUME NEW p \in Procs, NEW r, NEW resp, NEW got, NEW raw,
             Set(p, Answer(r, resp, got, raw)), ReqOK(r),
             resp # "ok" \/ r.kind \notin {"read", "delete"}
      PROVE  Goal
  <2> DEFINE a == Answer(r, resp, got, raw)
  <2>1. a.resp = resp /\ a.kind = r.kind BY <1>2 DEF Answer, ReqOK, Idle
  <2>2. ~Marks(a) BY <1>2, <2>1 DEF Marks
  <2> QED BY <1>1, <1>2, <2>2
<1>3. ASSUME NEW p \in Procs, NEW r, Set(p, r), r.resp = req[p].resp, req[p].pc # "done"
      PROVE  Goal
  <2>1. ~Marks(r) BY <1>3, Moving DEF Marks, ReqInv
  <2> QED BY <1>1, <1>3, <2>1
<1> HIDE DEF Goal
<1>4. ASSUME NEW p \in Procs, Arrive(p) PROVE Goal
  <2>1. ASSUME NEW kind, NEW pc, NEW u, NEW f
        PROVE  LET c == Call(kind, pc, u, f) IN c.kind = kind /\ c.resp = "none"
    BY DEF Call, Idle
  <2>2. ASSUME NEW kind, NEW pc, NEW u, NEW f, NEW resp, NEW got, NEW raw
        PROVE  LET a == Answer(Call(kind, pc, u, f), resp, got, raw) IN
               a.kind = kind /\ a.resp = resp
    BY DEF Answer, Call, Idle
  <2>3. CASE FetchEmails(p)
    BY <1>1, <2>1, <2>2, <2>3 DEF FetchEmails, Marks
  <2>4. CASE GraphEmails(p)
    BY <1>1, <2>1, <2>4 DEF GraphEmails, Marks
  <2>5. CASE GetEmailById(p)
    <3> DEFINE call(u, m) == [Call("byId", "byId", u, Nil)
                                EXCEPT !.page = <<[mid |-> m, read |-> FALSE]>>]
    <3>1. PICK u, m : Set(p, IF Stored(u, m) = {} THEN call(u, m)
                             ELSE Answer(call(u, m), "ok", Stored(u, m), FALSE))
      BY <2>5 DEF GetEmailById
    <3>2. call(u, m).kind = "byId" BY DEF Call, Idle
    <3>3. Answer(call(u, m), "ok", Stored(u, m), FALSE).kind = "byId" BY DEF Answer, Call, Idle
    <3> HIDE DEF call
    <3> QED BY <1>1, <3>1, <3>2, <3>3 DEF Marks
  <2>6. CASE GetEmailDetails(p)
    <3> DEFINE call(u, m) == [Call("details", "details", u, Nil)
                                EXCEPT !.page = <<[mid |-> m, read |-> TRUE]>>]
    <3>1. PICK u, m : \/ Set(p, call(u, m))
                      \/ Set(p, Answer(call(u, m), "error", {}, FALSE))
      BY <2>6 DEF GetEmailDetails
    <3>2. call(u, m).kind = "details" BY DEF Call, Idle
    <3>3. Answer(call(u, m), "error", {}, FALSE).kind = "details" BY DEF Answer, Call, Idle
    <3> HIDE DEF call
    <3> QED BY <1>1, <3>1, <3>2, <3>3 DEF Marks
  <2>7. CASE MarkFind(p)
    <3> DEFINE call(kind, u, f, id) == [Call(kind, "mark", u, f) EXCEPT !.id = id]
    <3>1. PICK kind, u, f, id :
            Set(p, IF Owns(u, id) THEN call(kind, u, f, id)
                   ELSE Answer(call(kind, u, f, id), "notfound", {}, FALSE))
      BY <2>7 DEF MarkFind
    <3>2. call(kind, u, f, id).resp = "none" BY DEF Call, Idle
    <3>3. Answer(call(kind, u, f, id), "notfound", {}, FALSE).resp = "notfound"
      BY DEF Answer, Call, Idle
    <3> HIDE DEF call
    <3> QED BY <1>1, <3>1, <3>2, <3>3 DEF Marks
  <2> QED BY <1>4, <2>3, <2>4, <2>5, <2>6, <2>7 DEF Arrive
<1>5. ASSUME NEW p \in Procs, Step(p) PROVE Goal
  <2> DEFINE r == req[p]
  <2>1. ReqOK(r) /\ ReqInv(rows, r) BY Moving
  <2>2. CASE OpenFails(p) BY <1>2, <2>1, <2>2 DEF OpenFails
  <2>3. CASE SaveSkip(p)
    BY <1>3, <2>1, <2>3 DEF SaveSkip, Saving, ReqOK, Idle
  <2>4. CASE SaveFind(p)
    BY <1>3, <2>1, <2>4 DEF SaveFind, Saving, ReqOK, Idle
  <2>5. ASSUME r.pc \in {"save", "create", "readback"}, Set(p, SaveFailed(r)) PROVE Goal
    BY <1>2, <2>1, <2>5 DEF SaveFailed, ReqInv
  <2>6. CASE SaveCreate(p)
    BY <1>3, <2>1, <2>5, <2>6 DEF SaveCreate, ReqOK, Idle
  <2>7. CASE SaveDone(p)
    BY <1>2, <1>3, <2>1, <2>7 DEF SaveDone, ReqOK, Idle, ReqInv
  <2>8. CASE ReadBack(p)
    BY <1>2, <2>1, <2>8 DEF ReadBack, ReqInv
  <2>9. CASE OpenImap(p)
    BY <1>2, <1>3, <2>1, <2>9 DEF OpenImap, ReqOK, Idle
  <2>10. CASE OpenPop3(p)
    BY <1>2, <1>3, <2>1, <2>10 DEF OpenPop3, ReqOK, Idle
  <2>11. CASE OpenGraph(p)
    BY <1>2, <1>3, <2>1, <2>11 DEF OpenGraph, ReqOK, Idle
  <2>12. ASSUME NEW j, NEW st, NEW id, r.pc \in {"txns", "drain"}, Set(p, Advance(r, j, st, id))
         PROVE Goal
    BY <1>3, <2>1, <2>12 DEF Advance, ReqOK, Idle
  <2>13. ASSUME NEW j, Set(p, Reject(r, j)) PROVE Goal
    BY <1>1, <2>1, <2>13 DEF Reject, Advance, ReqOK, Idle, Marks
  <2>14. CASE TxnFind(p) BY <2>12, <2>14 DEF TxnFind, InTxn
  <2>15. CASE TxnUpdate(p) BY <2>12, <2>15 DEF TxnUpdate, InTxn
  <2>16. CASE TxnCreate(p) BY <2>12, <2>13, <2>16 DEF TxnCreate, InTxn
  <2>17. CASE TxnAll(p)
    BY <1>3, <2>1, <2>17 DEF TxnAll, ReqOK, Idle
  <2>18. CASE GetEmailByIdFallback(p)
    <3> DEFINE c(page) == [r EXCEPT !.page = page]
    <3>1. PICK page \in {r.page, <<>>}, resp \in {"notfound", "error"} :
            Set(p, Answer(c(page), resp, {}, FALSE))
      BY <2>18 DEF GetEmailByIdFallback
    <3>2. Answer(c(page), resp, {}, FALSE).resp = resp BY <2>1 DEF Answer, ReqOK, Idle
    <3> HIDE DEF c
    <3> QED BY <1>1, <3>1, <3>2 DEF Marks
  <2>19. CASE DetailsFind(p)
    BY <1>3, <2>1, <2>19 DEF DetailsFind, ReqOK, Idle
  <2>20. CASE DetailsUpdate(p)
    BY <1>2, <2>1, <2>20 DEF DetailsUpdate, ReqInv
  <2>21. CASE DetailsCreate(p)
    BY <1>2, <2>1, <2>21 DEF DetailsCreate, ReqInv
  <2>22. CASE MarkUpdate(p)
    <3>1. p # q => req'[q] = req[q] BY <2>22 DEF MarkUpdate, Set, IInv, TypeOK
    <3> QED BY <2>22, <3>1 DEF Goal
  <2>23. CASE DbFails(p)
    BY <1>2, <2>1, <2>5, <2>13, <2>23 DEF DbFails, Saving
  <2>24. CASE Retire(p)
    BY <1>1, <2>24 DEF Retire, Idle, Marks
  <2> QED
    BY <1>5, <2>2, <2>3, <2>4, <2>6, <2>7, <2>8, <2>9, <2>10, <2>11, <2>14, <2>15, <2>16,
       <2>17, <2>18, <2>19, <2>20, <2>21, <2>22, <2>23, <2>24
    DEF Step
<1>6. CASE Restart
  <2>1. req'[q] = Idle BY <1>6 DEF Restart
  <2> QED BY <2>1 DEF Marks, Idle
<1> QED BY <1>4, <1>5, <1>6 DEF Goal, Next, UpdateConfig, vars

\* A step without Graph never takes a flag back.
LEMMA FlagsStay ==
  ASSUME IInv, [Next]_vars, ~GraphUsed, NEW id \in Ids, rows[id] # Nil
  PROVE  /\ rows[id].read => rows'[id].read
         /\ rows[id].deleted => rows'[id].deleted
<1>1. CASE UNCHANGED rows BY <1>1
<1>2. CASE \E p \in Procs : Step(p) /\ WritesOnce(p)
  <2>1. PICK p \in Procs, a \in Ids, row \in Row : Writes(p, a, row) BY <1>2 DEF WritesOnce
  <2>2. rows'[id] = IF id = a THEN row ELSE rows[id] BY <2>1 DEF Writes, IInv, TypeOK
  <2>3. rows[id] \in Row BY DEF IInv, TypeOK
  <2>4. CASE id # a BY <2>2, <2>4
  <2>5. CASE id = a
    <3>1. Edits(id, row) BY <2>1, <2>5 DEF Writes, Inserts
    <3>2. /\ rows[id].read => row.read
          /\ rows[id].deleted => row.deleted
      BY <2>3, <3>1 DEF Edits, Row
    <3> QED BY <2>2, <2>5, <3>2
  <2> QED BY <2>4, <2>5
<1> QED BY <1>1, <1>2, StepWrites

\* Every step preserves MarksInv.
LEMMA MarksInvNext == ASSUME IInv, MarksInv, [Next]_vars, ~GraphUsed PROVE MarksInv'
<1> SUFFICES ASSUME NEW q \in Procs, Marks(req'[q]) PROVE Acknowledged(rows', req'[q])
  BY DEF MarksInv, Acknowledged, Marks
<1>1. CASE req'[q] = req[q]
  <2> DEFINE r == req[q]
  <2>1. Marks(r) /\ Acknowledged(rows, r) /\ Own(rows, r.got, r.user)
    BY <1>1 DEF MarksInv, IInv, ReqInv
  <2>2. r.id \in r.got /\ r.id \in Ids /\ rows[r.id] # Nil BY <2>1 DEF Acknowledged, Own
  <2>3. /\ rows[r.id].read => rows'[r.id].read
        /\ rows[r.id].deleted => rows'[r.id].deleted
    BY <2>2, FlagsStay
  <2>4. Acknowledged(rows', r) BY <2>1, <2>2, <2>3 DEF Acknowledged
  <2> QED BY <1>1, <2>4
<1>2. CASE MarkUpdate(q)
  <2> DEFINE r == req[q]
             a == Answer(r, "ok", {r.id}, FALSE)
  <2>1. /\ r.pc = "mark" /\ rows' = [rows EXCEPT ![r.id] = Marked(r)] /\ Set(q, a)
        /\ ReqOK(r) /\ ReqInv(rows, r)
    BY <1>2, Moving DEF MarkUpdate
  <2>2. r.id \in Ids /\ rows[r.id] # Nil BY <2>1 DEF ReqInv, Own
  <2>3. rows'[r.id] = Marked(r) /\ rows[r.id] \in Row BY <2>1, <2>2 DEF IInv, TypeOK
  <2>4. a.kind = r.kind /\ a.id = r.id /\ a.got = {r.id}
    BY <2>1 DEF Answer, ReqOK, Idle
  <2>5. req'[q] = a BY <2>1 DEF Set, IInv, TypeOK
  <2>6. r.kind = "read" => Marked(r).read BY <2>3 DEF Marked, Row
  <2>7. r.kind = "delete" => Marked(r).deleted BY <2>3 DEF Marked, Row
  <2> HIDE DEF a
  <2> QED BY <2>3, <2>4, <2>5, <2>6, <2>7 DEF Acknowledged
<1> QED BY <1>1, <1>2, OnlyMarkUpdate

\* Where mail is read over POP3 and IMAP only, a mark that was answered with
\* success is in the table for as long as its answer is known.  (Microsoft Graph
\* writes its own flags over it; Mailbox's Sync allows just that.)
THEOREM MarksAreKept == ASSUME ~GraphUsed PROVE Spec => []MarkAcknowledged
<1>1. Init => MarksInv BY DEF Init, MarksInv, Acknowledged, Marks, Idle
<1>2. IInv /\ MarksInv /\ [Next]_vars => MarksInv' BY MarksInvNext
<1>3. MarksInv => MarkAcknowledged BY DEF MarksInv, Acknowledged, Marks, MarkAcknowledged
<1> QED BY <1>1, <1>2, <1>3, Invariant, PTL DEF Spec
=============================================================================
