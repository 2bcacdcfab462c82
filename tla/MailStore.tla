----------------------------- MODULE MailStore -----------------------------
(***************************************************************************)
(* The Email table and the HTTP requests that read and write it:           *)
(* EmailService's fetch (POP3, IMAP, Microsoft Graph), mark and move       *)
(* handlers, and MicrosoftGraphEmailService's fetchEmails, getEmailById    *)
(* and getEmailDetails.                                                    *)
(*                                                                         *)
(* Node runs one handler until it awaits, so an action here is the code    *)
(* between two database round trips; requests interleave at every await.   *)
(* The conversation with a mail server changes nothing in the database: it *)
(* is the single step in which the server's answer, a page of messages or  *)
(* a failure, arrives.  A crash of the process loses every request and     *)
(* keeps the rows.                                                         *)
(***************************************************************************)
EXTENDS Naturals, Sequences, FiniteSets

CONSTANTS
  Procs,      \* requests the process can have in flight
  Users,      \* accounts
  Mids,       \* Message-IDs
  Ids,        \* uuids of Email rows
  Folders,
  Kinds,      \* the routes clients call in this instance
  Providers,  \* the retrieval methods a user may enable in this instance
  PageMax,    \* longest page a server answers with
  Faults,     \* TRUE: database calls may fail and the process may restart
  Nil         \* null / undefined

AllKinds == {"fetch", "graph", "byId", "details", "read", "delete", "move", "config"}
AllProviders == {"graph", "imap", "pop3"}

Item == [mid : Mids \cup {Nil}, read : BOOLEAN]
Row  == [user : Users, mid : Mids, folder : Folders, read : BOOLEAN, deleted : BOOLEAN]

ASSUME KindsAssumption == Kinds \subseteq AllKinds /\ Providers \subseteq AllProviders
ASSUME PageAssumption  == PageMax \in Nat \ {0}
ASSUME FaultsAssumption == Faults \in BOOLEAN
ASSUME NilAssumption ==
  /\ Nil \notin Users \cup Mids \cup Ids \cup Folders
  /\ Nil \notin Row
  /\ Nil \notin [folder : Folders, read : BOOLEAN, deleted : BOOLEAN]
\* a fresh uuid never collides, so there is always one left for a new message
ASSUME IdsAssumption ==
  IsFiniteSet(Ids) /\ IsFiniteSet(Users) /\ IsFiniteSet(Mids)
    => Cardinality(Ids) >= Cardinality(Users) * Cardinality(Mids)

VARIABLES
  rows,   \* the Email table: id -> row, Nil for an id not in use
  cfg,    \* per user, the methods enabled in the User row
  req     \* the request each process of Procs is serving

vars == <<rows, cfg, req>>

-----------------------------------------------------------------------------
(* Pages: what a server may answer *)

Seqs(S) == UNION {[1..n -> S] : n \in 0..PageMax}

\* fetchEmailsIMAP asks for these header fields, then reads 'message-id'.
ImapHeaderFields == {"FROM", "TO", "CC", "BCC", "SUBJECT", "DATE"}
ImapMessageId(m) == IF "MESSAGE-ID" \in ImapHeaderFields THEN m ELSE Nil

\* A POP3 message may lack a Message-ID, and the mailbox may hold it twice.
Pop3Pages == Seqs([mid : Mids \cup {Nil}, read : {FALSE}])
ImapPages == Seqs([mid : {ImapMessageId(m) : m \in Mids}, read : {FALSE}])
GraphPages == {s \in Seqs([mid : Mids, read : BOOLEAN]) :
                 \A i, j \in DOMAIN s : s[i].mid = s[j].mid => i = j}

MidsOf(page) == {page[i].mid : i \in DOMAIN page} \ {Nil}

(* Queries *)

\* findFirst({messageId, userId})
Stored(u, m) == {id \in Ids : rows[id] # Nil /\ rows[id].user = u /\ rows[id].mid = m}

\* Mutant of Owns: the lookup forgets the user.
OwnsAnyone(u, id) == rows[id] # Nil

\* findFirst({id, userId})
Owns(u, id) == rows[id] # Nil /\ rows[id].user = u

\* Mutant of ReadBackOf: the query forgets the user.
ReadBackOfAnyone(r) == {id \in Ids : /\ rows[id] # Nil
                                     /\ rows[id].folder = r.folder
                                     /\ rows[id].mid \in MidsOf(r.page)}

\* findMany({userId, folder, messageId in ...})
ReadBackOf(r) == {id \in Ids : /\ rows[id] # Nil
                               /\ rows[id].user = r.user
                               /\ rows[id].folder = r.folder
                               /\ rows[id].mid \in MidsOf(r.page)}

\* Mutant of UniqueViolation: the migration without the index.
NoUniqueIndex(row) == FALSE

\* create: the unique index on (messageId, userId) refuses a second copy
UniqueViolation(row) == Stored(row.user, row.mid) # {}

InsertRow(row) == \E id \in Ids : rows[id] = Nil /\ rows' = [rows EXCEPT ![id] = row]

\* Mutant of NewRow: the data passed to create lacks the messageId.
NewRowWithoutId(u, item, f) ==
  [user |-> u, mid |-> Nil, folder |-> f, read |-> item.read, deleted |-> FALSE]

NewRow(u, item, f) ==
  [user |-> u, mid |-> item.mid, folder |-> f, read |-> item.read, deleted |-> FALSE]

-----------------------------------------------------------------------------
(* Requests *)

PCs == {"idle", "open", "save", "create", "txns", "drain", "readback",
        "byId", "details", "detailsUpdate", "detailsCreate", "mark", "done"}
TxnStates == {"find", "update", "create", "ok", "failed"}
Responses == {"none", "ok", "error", "notfound"}

Idle == [kind |-> "none", pc |-> "idle", user |-> Nil, folder |-> Nil, page |-> <<>>,
         k |-> 1, txn |-> <<>>, id |-> Nil, resp |-> "none", got |-> {}, raw |-> FALSE]

Call(kind, pc, u, f) == [Idle EXCEPT !.kind = kind, !.pc = pc, !.user = u, !.folder = f]

\* The handler returns or throws: its locals are gone, the response is sent.
Answer(r, resp, got, raw) ==
  [r EXCEPT !.pc = "done", !.k = 1, !.txn = <<>>, !.resp = resp, !.got = got, !.raw = raw]

Set(p, r) == req' = [req EXCEPT ![p] = r]

Init ==
  /\ rows = [id \in Ids |-> Nil]
  /\ cfg \in [Users -> SUBSET Providers]
  /\ req = [p \in Procs |-> Idle]

Starts(p, kind) == req[p].pc = "idle" /\ kind \in Kinds

\* fetchEmails reads the user and picks the method.
Dispatch(enabled) == IF "graph" \in enabled THEN "graph"
                     ELSE IF "imap" \in enabled THEN "imap"
                     ELSE IF "pop3" \in enabled THEN "pop3"
                     ELSE "none"

FetchEmails(p) ==
  /\ Starts(p, "fetch")
  /\ \E u \in Users, f \in Folders :
       LET method == Dispatch(cfg[u])
           call   == Call(method, "open", u, f)
       IN  Set(p, IF method = "none" THEN Answer(call, "notfound", {}, FALSE) ELSE call)
  /\ UNCHANGED <<rows, cfg>>

\* GET /microsoft-graph/emails does not look at the user's configuration.
GraphEmails(p) ==
  /\ Starts(p, "graph")
  /\ \E u \in Users, f \in Folders : Set(p, Call("graph", "open", u, f))
  /\ UNCHANGED <<rows, cfg>>

\* updateUserEmailConfig overwrites the enabled methods.
UpdateConfig(u) ==
  /\ "config" \in Kinds
  /\ \E enabled \in SUBSET Providers : cfg' = [cfg EXCEPT ![u] = enabled]
  /\ UNCHANGED <<rows, req>>

-----------------------------------------------------------------------------
(* Retrieval: the user is read again, then the server answers *)

\* No connection, no login, an incomplete configuration, ...
OpenFails(p) ==
  /\ req[p].pc = "open"
  /\ Set(p, Answer(req[p], "error", {}, FALSE))
  /\ UNCHANGED <<rows, cfg>>

OpenImap(p) ==
  LET r == req[p] IN
  /\ r.pc = "open" /\ r.kind = "imap"
  /\ IF "imap" \notin cfg[r.user]
     THEN Set(p, Answer(r, "notfound", {}, FALSE))
     ELSE \E page \in ImapPages :
            Set(p, IF page = <<>> THEN Answer(r, "ok", {}, FALSE)
                   ELSE [r EXCEPT !.pc = "save", !.page = page])
  /\ UNCHANGED <<rows, cfg>>

OpenPop3(p) ==
  LET r == req[p] IN
  /\ r.pc = "open" /\ r.kind = "pop3"
  /\ IF "pop3" \notin cfg[r.user]
     THEN Set(p, Answer(r, "error", {}, FALSE))
     ELSE \E page \in Pop3Pages : Set(p, [r EXCEPT !.pc = "save", !.page = page])
  /\ UNCHANGED <<rows, cfg>>

\* One transaction per message of the page, all started before the first await.
OpenGraph(p) ==
  LET r == req[p] IN
  /\ r.pc = "open" /\ r.kind = "graph"
  /\ \E page \in GraphPages :
       Set(p, [r EXCEPT !.pc = "txns", !.page = page,
                        !.txn = [j \in DOMAIN page |-> [st |-> "find", id |-> Nil]]])
  /\ UNCHANGED <<rows, cfg>>

-----------------------------------------------------------------------------
(* EmailService.saveEmailsToDatabase: one message after the other *)

Saving(r) == r.pc = "save" /\ r.k <= Len(r.page)

\* Mutant of SaveSkip: the loop does not go past a message without an id.
SaveSkipStays(p) == Saving(req[p]) /\ req[p].page[req[p].k].mid = Nil /\ UNCHANGED vars

SaveSkip(p) ==
  LET r == req[p] IN
  /\ Saving(r) /\ r.page[r.k].mid = Nil
  /\ Set(p, [r EXCEPT !.k = @ + 1])
  /\ UNCHANGED <<rows, cfg>>

SaveFind(p) ==
  LET r == req[p] IN
  /\ Saving(r) /\ r.page[r.k].mid # Nil
  /\ Set(p, IF Stored(r.user, r.page[r.k].mid) # {}
            THEN [r EXCEPT !.k = @ + 1]
            ELSE [r EXCEPT !.pc = "create"])
  /\ UNCHANGED <<rows, cfg>>

\* Mutant of SaveFailed: POP3 resolves too, as IMAP does.
SaveFailedResolves(r) == Answer(r, "ok", {}, TRUE)

\* POP3 rejects with the error; IMAP answers with the unsaved messages.
SaveFailed(r) == IF r.kind = "imap" THEN Answer(r, "ok", {}, TRUE)
                                    ELSE Answer(r, "error", {}, FALSE)

SaveCreate(p) ==
  LET r   == req[p]
      row == NewRow(r.user, r.page[r.k], r.folder)
  IN
  /\ r.pc = "create"
  /\ \/ /\ UniqueViolation(row)
        /\ Set(p, SaveFailed(r))
        /\ UNCHANGED rows
     \/ /\ ~UniqueViolation(row)
        /\ InsertRow(row)
        /\ Set(p, [r EXCEPT !.pc = "save", !.k = @ + 1])
  /\ UNCHANGED cfg

SaveDone(p) ==
  LET r == req[p] IN
  /\ r.pc = "save" /\ r.k > Len(r.page)
  /\ Set(p, IF r.kind = "imap" THEN [r EXCEPT !.pc = "readback"]
                               ELSE Answer(r, "ok", {}, TRUE))
  /\ UNCHANGED <<rows, cfg>>

ReadBack(p) ==
  /\ req[p].pc = "readback"
  /\ Set(p, Answer(req[p], "ok", ReadBackOf(req[p]), FALSE))
  /\ UNCHANGED <<rows, cfg>>

-----------------------------------------------------------------------------
(* MicrosoftGraphEmailService.saveEmailsToDatabase: transactions in parallel *)

InTxn(r, j, st) == /\ r.pc \in {"txns", "drain"}
                   /\ j \in DOMAIN r.txn
                   /\ r.txn[j].st = st

Advance(r, j, st, id) == [r EXCEPT !.txn[j] = [st |-> st, id |-> id]]

\* Promise.all rejects at the first failure: the client gets its error while
\* the other transactions of the page keep running.
Reject(r, j) == [Advance(r, j, "failed", Nil) EXCEPT !.pc = "drain", !.resp = "error"]

TxnFind(p) ==
  LET r == req[p] IN
  /\ \E j \in DOMAIN r.txn :
       /\ InTxn(r, j, "find")
       /\ LET hits == Stored(r.user, r.page[j].mid) IN
          \/ hits = {} /\ Set(p, Advance(r, j, "create", Nil))
          \/ \E id \in hits : Set(p, Advance(r, j, "update", id))
  /\ UNCHANGED <<rows, cfg>>

\* Mutant of SyncFlags: isRead and isDeleted are swapped.
SyncFlagsSwapped(row, item) == [row EXCEPT !.read = FALSE, !.deleted = item.read]

\* isDeleted, isFlagged and isSpam come from the fetched copy: never deleted.
SyncFlags(row, item) == [row EXCEPT !.read = item.read, !.deleted = FALSE]

TxnUpdate(p) ==
  LET r == req[p] IN
  /\ \E j \in DOMAIN r.txn :
       /\ InTxn(r, j, "update")
       /\ rows' = [rows EXCEPT ![r.txn[j].id] = SyncFlags(@, r.page[j])]
       /\ Set(p, Advance(r, j, "ok", Nil))
  /\ UNCHANGED cfg

TxnCreate(p) ==
  LET r == req[p] IN
  /\ \E j \in DOMAIN r.txn :
       LET row == NewRow(r.user, r.page[j], r.folder) IN
       /\ InTxn(r, j, "create")
       /\ \/ /\ UniqueViolation(row)
             /\ Set(p, Reject(r, j))
             /\ UNCHANGED rows
          \/ /\ ~UniqueViolation(row)
             /\ InsertRow(row)
             /\ Set(p, Advance(r, j, "ok", Nil))
  /\ UNCHANGED cfg

\* Mutant of TxnAll: Promise.all is not awaited.
TxnAllNotAwaited(p) ==
  /\ req[p].pc = "txns"
  /\ Set(p, [req[p] EXCEPT !.pc = "readback"])
  /\ UNCHANGED <<rows, cfg>>

TxnAll(p) ==
  LET r == req[p] IN
  /\ r.pc = "txns"
  /\ \A j \in DOMAIN r.txn : r.txn[j].st = "ok"
  /\ Set(p, [r EXCEPT !.pc = "readback"])
  /\ UNCHANGED <<rows, cfg>>

-----------------------------------------------------------------------------
(* getEmailById and getEmailDetails *)

GetEmailById(p) ==
  /\ Starts(p, "byId")
  /\ \E u \in Users, m \in Mids :
       LET call == [Call("byId", "byId", u, Nil) EXCEPT !.page = <<[mid |-> m, read |-> FALSE]>>]
       IN  Set(p, IF Stored(u, m) = {} THEN call
                  ELSE Answer(call, "ok", Stored(u, m), FALSE))
  /\ UNCHANGED <<rows, cfg>>

\* No Graph client is an error of its own.  Otherwise Graph has the message
\* (then page keeps it) or not, and the answer is the same: the raw answer is saved
\* as it came: it has no messageId, and its 'from' is an object where the Email
\* model wants a string, so prisma.email.create refuses it.
GetEmailByIdFallback(p) ==
  LET r == req[p] IN
  /\ r.pc = "byId"
  /\ \E served \in {r.page, <<>>} :
     \E resp \in {"notfound", "error"} :
       /\ resp = "error" => served = <<>>
       /\ Set(p, Answer([r EXCEPT !.page = served], resp, {}, FALSE))
  /\ UNCHANGED <<rows, cfg>>

\* Graph's answer and the first query; every failure becomes one Error.
GetEmailDetails(p) ==
  /\ Starts(p, "details")
  /\ \E u \in Users, m \in Mids :
       LET call == [Call("details", "details", u, Nil)
                      EXCEPT !.page = <<[mid |-> m, read |-> TRUE]>>]
       IN  \/ Set(p, call)
           \/ Set(p, Answer(call, "error", {}, FALSE))
  /\ UNCHANGED <<rows, cfg>>

DetailsFind(p) ==
  LET r == req[p]
      hits == Stored(r.user, r.page[1].mid)
  IN
  /\ r.pc = "details"
  /\ \/ hits = {} /\ Set(p, [r EXCEPT !.pc = "detailsCreate"])
     \/ \E id \in hits : Set(p, [r EXCEPT !.pc = "detailsUpdate", !.id = id])
  /\ UNCHANGED <<rows, cfg>>

DetailsUpdate(p) ==
  LET r == req[p] IN
  /\ r.pc = "detailsUpdate"
  /\ rows' = [rows EXCEPT ![r.id].read = TRUE]
  /\ Set(p, Answer(r, "ok", {r.id}, FALSE))
  /\ UNCHANGED cfg

\* The folder is the literal 'inbox', here any one of Folders.
DetailsCreate(p) ==
  LET r == req[p] IN
  /\ r.pc = "detailsCreate"
  /\ \E f \in Folders, id \in Ids :
       LET row == NewRow(r.user, r.page[1], f) IN
       \/ /\ UniqueViolation(row)
          /\ Set(p, Answer(r, "error", {}, FALSE))
          /\ UNCHANGED rows
       \/ /\ ~UniqueViolation(row)
          /\ rows[id] = Nil
          /\ rows' = [rows EXCEPT ![id] = row]
          /\ Set(p, Answer(r, "ok", {id}, FALSE))
  /\ UNCHANGED cfg

-----------------------------------------------------------------------------
(* markEmailAsRead, markEmailAsDeleted, moveEmailToFolder *)

MarkFind(p) ==
  /\ \E kind \in {"read", "delete", "move"}, u \in Users, id \in Ids :
     \E f \in IF kind = "move" THEN Folders ELSE {Nil} :
       LET call == [Call(kind, "mark", u, f) EXCEPT !.id = id] IN
       /\ Starts(p, kind)
       /\ Set(p, IF Owns(u, id) THEN call ELSE Answer(call, "notfound", {}, FALSE))
  /\ UNCHANGED <<rows, cfg>>

\* Mutants of Marked: marking as deleted writes isRead; marking as read writes
\* the other flags back to their defaults.
MarkedSwapped(r) == CASE r.kind = "move" -> [rows[r.id] EXCEPT !.folder = r.folder]
                      [] OTHER -> [rows[r.id] EXCEPT !.read = TRUE]
MarkedDefaults(r) == CASE r.kind = "read"   -> [rows[r.id] EXCEPT !.read = TRUE, !.deleted = FALSE]
                       [] r.kind = "delete" -> [rows[r.id] EXCEPT !.deleted = TRUE]
                       [] r.kind = "move"   -> [rows[r.id] EXCEPT !.folder = r.folder]

Marked(r) == CASE r.kind = "read"   -> [rows[r.id] EXCEPT !.read = TRUE]
               [] r.kind = "delete" -> [rows[r.id] EXCEPT !.deleted = TRUE]
               [] r.kind = "move"   -> [rows[r.id] EXCEPT !.folder = r.folder]

MarkUpdate(p) ==
  LET r == req[p] IN
  /\ r.pc = "mark"
  /\ rows' = [rows EXCEPT ![r.id] = Marked(r)]
  /\ Set(p, Answer(r, "ok", {r.id}, FALSE))
  /\ UNCHANGED cfg

-----------------------------------------------------------------------------
(* Failures, and the end of a request *)

\* A database call throws: what each handler makes of it.
DbFails(p) ==
  LET r == req[p] IN
  /\ Faults
  /\ \/ /\ Saving(r) /\ r.page[r.k].mid # Nil
        /\ Set(p, SaveFailed(r))
     \/ /\ r.pc = "create"
        /\ Set(p, SaveFailed(r))
     \/ /\ r.pc = "readback"
        /\ Set(p, SaveFailed(r))
     \/ \E j \in DOMAIN r.txn :
          /\ \E st \in {"find", "update", "create"} : InTxn(r, j, st)
          /\ Set(p, Reject(r, j))
     \/ /\ r.pc \in {"details", "detailsUpdate", "detailsCreate", "mark"}
        /\ Set(p, Answer(r, "error", {}, FALSE))
  /\ UNCHANGED <<rows, cfg>>

\* The response is out and nothing of the request is left running.
Retire(p) ==
  LET r == req[p] IN
  /\ \/ r.pc = "done"
     \/ r.pc = "drain" /\ \A j \in DOMAIN r.txn : r.txn[j].st \in {"ok", "failed"}
  /\ Set(p, Idle)
  /\ UNCHANGED <<rows, cfg>>

\* The process crashes and starts again: open transactions are rolled back.
Restart ==
  /\ Faults
  /\ req' = [p \in Procs |-> Idle]
  /\ UNCHANGED <<rows, cfg>>

Arrive(p) == \/ FetchEmails(p) \/ GraphEmails(p) \/ GetEmailById(p)
             \/ GetEmailDetails(p) \/ MarkFind(p)

Step(p) == \/ OpenFails(p) \/ OpenImap(p) \/ OpenPop3(p) \/ OpenGraph(p)
           \/ SaveSkip(p) \/ SaveFind(p) \/ SaveCreate(p) \/ SaveDone(p) \/ ReadBack(p)
           \/ TxnFind(p) \/ TxnUpdate(p) \/ TxnCreate(p) \/ TxnAll(p)
           \/ GetEmailByIdFallback(p)
           \/ DetailsFind(p) \/ DetailsUpdate(p) \/ DetailsCreate(p)
           \/ MarkUpdate(p) \/ DbFails(p) \/ Retire(p)

Next == \/ \E p \in Procs : Arrive(p) \/ Step(p)
        \/ \E u \in Users : UpdateConfig(u)
        \/ Restart

Spec == Init /\ [][Next]_vars

\* Mail servers answer and node's event loop serves every ready request.
FairSpec == Spec /\ \A p \in Procs : WF_vars(Step(p))

-----------------------------------------------------------------------------
(* Properties *)

\* The shape of the tables and of every request.
ReqOK(r) ==
  /\ r.kind \in (AllKinds \cup AllProviders \cup {"none"}) /\ r.pc \in PCs
  /\ r.user \in Users \cup {Nil} /\ r.folder \in Folders \cup {Nil}
  /\ r.page \in Seqs(Item)
  /\ r.k \in 1..(PageMax + 1)
  /\ r.txn \in Seqs([st : TxnStates, id : Ids \cup {Nil}])
  /\ r.id \in Ids \cup {Nil}
  /\ r.resp \in Responses /\ r.got \subseteq Ids /\ r.raw \in BOOLEAN
  /\ r.pc # "idle" => r.user \in Users
  /\ DOMAIN r = DOMAIN Idle

TypeOK ==
  /\ rows \in [Ids -> Row \cup {Nil}]
  /\ cfg \in [Users -> SUBSET Providers]
  /\ DOMAIN req = Procs /\ \A p \in Procs : ReqOK(req[p])

\* Concurrent fetches of the same mailbox never leave two copies of a message
\* with one user (schema.prisma: @@unique([messageId, userId])).
OneRowPerMessage ==
  \A a, b \in Ids : /\ rows[a] # Nil /\ rows[b] # Nil
                    /\ rows[a].user = rows[b].user /\ rows[a].mid = rows[b].mid
                    => a = b

\* A fetch that answers success has stored, for the user who asked, every
\* message of the page that has a Message-ID, whoever created the row.
StoredOnOk ==
  \A p \in Procs :
    req[p].resp = "ok" /\ req[p].kind \in {"pop3", "graph", "details"}
      => \A m \in MidsOf(req[p].page) : Stored(req[p].user, m) # {}

\* A request only ever returns rows of its own user.
ReturnsOwnMail ==
  \A p \in Procs : \A id \in req[p].got :
    rows[id] # Nil /\ rows[id].user = req[p].user

\* A row changes only in a step of a request of its owner, and stays its owner's,
\* though the handlers check the owner in one step and write by id in a later one.
TouchedByOwner ==
  [][\A id \in Ids : rows'[id] # rows[id] =>
       /\ rows[id] # Nil => rows'[id].user = rows[id].user
       /\ \E p \in Procs : Step(p) /\ req[p].user = rows'[id].user]_vars

\* When mark-as-read or mark-as-deleted answers success the flag is set, and
\* no later POP3 or IMAP fetch, mark or move takes it back.
MarkAcknowledged ==
  \A p \in Procs : req[p].resp = "ok" =>
    /\ req[p].kind = "read"   => rows[req[p].id].read
    /\ req[p].kind = "delete" => rows[req[p].id].deleted

\* fetchEmailsIMAP: "Fetch the saved emails from the database to return with
\* proper IDs": messages were fetched, so some come back.
ImapReturnsMail ==
  \A p \in Procs : req[p].resp = "ok" /\ req[p].kind = "imap" /\ req[p].page # <<>>
    => req[p].raw \/ req[p].got # {}

\* Every request is answered and leaves nothing running, whatever fails and
\* whoever else writes.
RequestsEnd == \A p \in Procs : req[p].pc # "idle" ~> req[p].pc = "idle"

GraphUsed == "graph" \in Kinds \cup Providers

CopyOf(u, m) ==
  IF Stored(u, m) = {} THEN Nil
  ELSE LET row == rows[CHOOSE id \in Stored(u, m) : TRUE]
       IN  [folder |-> row.folder, read |-> row.read, deleted |-> row.deleted]

M == INSTANCE Mailbox WITH
       box <- [u \in Users |-> [m \in Mids |-> CopyOf(u, m)]],
       Absent <- Nil, Synced <- GraphUsed

\* The table, looked up by user and Message-ID, is the promised mailbox: only
\* with Microsoft Graph in use may a flag be taken back.
ImplementsMailbox == M!Spec
=============================================================================
