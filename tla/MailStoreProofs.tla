-------------------------- MODULE MailStoreProofs --------------------------
(***************************************************************************)
(* Proofs about MailStore, for every number of requests, users, messages   *)
(* and folders: the type invariant, one row per message, that a fetch that *)
(* answered success has stored its page, and that a request returns only   *)
(* rows of its own user.                                                   *)
(***************************************************************************)
EXTENDS MailStore, TLAPS

\* Facts about a table t given as a value, so that they can be stated for the
\* table before and after a step.
Has(t, u, m) == \E id \in Ids : t[id] # Nil /\ t[id].user = u /\ t[id].mid = m

Holds(t, id, u, m) == id \in Ids /\ t[id] # Nil /\ t[id].user = u /\ t[id].mid = m

Unique(t) == \A a, b \in Ids : /\ t[a] # Nil /\ t[b] # Nil
                               /\ t[a].user = t[b].user /\ t[a].mid = t[b].mid
                               => a = b

TableOK(t) == t \in [Ids -> Row \cup {Nil}] /\ Unique(t)

\* No row disappears or changes its owner or its Message-ID.
Keeps(t, s) == \A id \in Ids : t[id] # Nil =>
                 s[id] # Nil /\ s[id].user = t[id].user /\ s[id].mid = t[id].mid

\* Rows of one user.
Own(t, ids, u) == \A id \in ids : id \in Ids /\ t[id] # Nil /\ t[id].user = u

AllHeld(t, r) == \A i \in DOMAIN r.page : r.page[i].mid # Nil => Has(t, r.user, r.page[i].mid)

\* What a request in the middle of its handler knows about the table.
ReqInv(t, r) ==
  /\ r.pc = "open" => r.kind \in AllProviders /\ r.k = 1
  /\ r.pc \in {"save", "create"} =>
       /\ r.kind \in {"imap", "pop3"}
       /\ r.k <= Len(r.page) + 1
       /\ \A i \in 1..(r.k - 1) : r.page[i].mid # Nil => Has(t, r.user, r.page[i].mid)
  /\ r.pc = "create" => r.k <= Len(r.page) /\ r.page[r.k].mid # Nil /\ r.folder \in Folders
  /\ r.pc \in {"open", "save", "txns", "drain"} => r.folder \in Folders
  /\ r.pc \in {"txns", "drain"} =>
       /\ r.kind = "graph" /\ DOMAIN r.txn = DOMAIN r.page
       /\ \A j \in DOMAIN r.page :
            /\ r.page[j].mid # Nil
            /\ r.txn[j].st = "ok" => Has(t, r.user, r.page[j].mid)
            /\ r.txn[j].st = "update" => Holds(t, r.txn[j].id, r.user, r.page[j].mid)
  /\ r.pc = "readback" => r.kind \in {"imap", "graph"} /\ AllHeld(t, r)
  /\ r.pc \in {"details", "detailsUpdate", "detailsCreate"} =>
       /\ r.kind = "details" /\ DOMAIN r.page = {1} /\ r.page[1].mid # Nil
  /\ r.pc = "detailsUpdate" => Holds(t, r.id, r.user, r.page[1].mid)
  /\ r.pc = "mark" => /\ r.kind \in {"read", "delete", "move"}
                      /\ r.kind = "move" => r.folder \in Folders
                      /\ Own(t, {r.id}, r.user)
  /\ r.kind = "graph" => GraphUsed
  /\ Own(t, r.got, r.user)
  /\ r.pc = "byId" => r.kind = "byId"
  /\ r.resp = "ok" => r.pc = "done"
  /\ r.resp = "ok" /\ r.kind \in {"pop3", "graph", "details"} => AllHeld(t, r)

\* The inductive invariant.
IInv ==
  /\ TypeOK
  /\ Unique(rows)
  /\ \A p \in Procs : ReqInv(rows, req[p])

-----------------------------------------------------------------------------
(* Tables *)

\* Stored finds a row exactly when the table has one.
LEMMA StoredHas ==
  ASSUME NEW u, NEW m
  PROVE  Stored(u, m) # {} <=> Has(rows, u, m)
BY DEF Stored, Has

\* A table keeps its own messages.
LEMMA KeepsRefl == ASSUME NEW t PROVE Keeps(t, t)
BY DEF Keeps

\* A message kept by a later table is still there.
LEMMA KeepsHas ==
  ASSUME NEW t, NEW s, Keeps(t, s), NEW u, NEW m, Has(t, u, m)
  PROVE  Has(s, u, m)
BY DEF Keeps, Has

\* A row for a message its user did not have yet.
LEMMA InsertTable ==
  ASSUME NEW t, TableOK(t), NEW id \in Ids, t[id] = Nil, NEW row \in Row,
         ~Has(t, row.user, row.mid)
  PROVE  LET s == [t EXCEPT ![id] = row] IN
         TableOK(s) /\ Keeps(t, s) /\ Has(s, row.user, row.mid)
<1> DEFINE s == [t EXCEPT ![id] = row]
<1>1. row # Nil BY NilAssumption
<1>2. s \in [Ids -> Row \cup {Nil}] BY DEF TableOK
<1>3. \A a \in Ids : s[a] = IF a = id THEN row ELSE t[a] BY DEF TableOK
<1>4. Unique(s) BY <1>1, <1>3 DEF Unique, TableOK, Has
<1>5. Keeps(t, s) BY <1>3 DEF Keeps
<1>6. Has(s, row.user, row.mid) BY <1>1, <1>3 DEF Has
<1> QED BY <1>2, <1>4, <1>5, <1>6 DEF TableOK

\* New flags or a new folder for a row.
LEMMA EditTable ==
  ASSUME NEW t, TableOK(t), NEW id \in Ids, t[id] # Nil, NEW row \in Row,
         row.user = t[id].user, row.mid = t[id].mid
  PROVE  LET s == [t EXCEPT ![id] = row] IN TableOK(s) /\ Keeps(t, s)
<1> DEFINE s == [t EXCEPT ![id] = row]
<1>1. row # Nil BY NilAssumption
<1>2. s \in [Ids -> Row \cup {Nil}] BY DEF TableOK
<1>3. \A a \in Ids : s[a] = IF a = id THEN row ELSE t[a] BY DEF TableOK
<1>4. Unique(s) BY <1>1, <1>3 DEF Unique, TableOK
<1>5. Keeps(t, s) BY <1>1, <1>3 DEF Keeps
<1> QED BY <1>2, <1>4, <1>5 DEF TableOK

-----------------------------------------------------------------------------
(* Requests *)

\* What a request knows survives the steps of the others.
LEMMA KeepsReqInv ==
  ASSUME NEW t, NEW s, Keeps(t, s), NEW r, ReqInv(t, r)
  PROVE  ReqInv(s, r)
<1>1. \A u, m : Has(t, u, m) => Has(s, u, m) BY KeepsHas
<1>2. \A id, u, m : Holds(t, id, u, m) => Holds(s, id, u, m) BY DEF Holds, Keeps
<1>3. AllHeld(t, r) => AllHeld(s, r) BY <1>1 DEF AllHeld
<1>4. \A ids, u : Own(t, ids, u) => Own(s, ids, u) BY DEF Own, Keeps
<1> QED BY <1>1, <1>2, <1>3, <1>4 DEF ReqInv

\* A process without a request satisfies the invariant.
LEMMA IdleOK ==
  ASSUME NEW t
  PROVE  ReqOK(Idle) /\ ReqInv(t, Idle)
<1>1. <<>> \in Seqs(Item) /\ <<>> \in Seqs([st : TxnStates, id : Ids \cup {Nil}])
  BY PageAssumption DEF Seqs
<1>2. ReqOK(Idle)
  BY <1>1, PageAssumption DEF ReqOK, Idle, AllKinds, PCs, Responses
<1>3. ReqInv(t, Idle) BY DEF ReqInv, Idle, Own
<1> QED BY <1>2, <1>3

\* An answer without rows returns nobody else's.
LEMMA OwnNone == ASSUME NEW t, NEW u PROVE Own(t, {}, u)
BY DEF Own

\* A response, given that a success of a fetch comes with its page stored.
LEMMA AnswerOK ==
  ASSUME NEW t, NEW r, ReqOK(r), r.user \in Users,
         r.kind = "graph" => GraphUsed,
         NEW resp \in Responses, NEW got, Own(t, got, r.user), NEW raw \in BOOLEAN,
         resp = "ok" /\ r.kind \in {"pop3", "graph", "details"} => AllHeld(t, r)
  PROVE  LET a == Answer(r, resp, got, raw) IN ReqOK(a) /\ ReqInv(t, a)
<1> DEFINE a == Answer(r, resp, got, raw)
<1>1. <<>> \in Seqs([st : TxnStates, id : Ids \cup {Nil}])
  BY PageAssumption DEF Seqs
<1>2. /\ a.pc = "done" /\ a.k = 1 /\ a.txn = <<>> /\ a.resp = resp /\ a.got = got
      /\ a.raw = raw /\ a.kind = r.kind /\ a.user = r.user /\ a.folder = r.folder
      /\ a.page = r.page /\ a.id = r.id /\ DOMAIN a = DOMAIN r
  BY DEF Answer, ReqOK, Idle
<1>3. ReqOK(a) BY <1>1, <1>2, PageAssumption DEF ReqOK, PCs, Own
<1>4. AllHeld(t, a) <=> AllHeld(t, r) BY <1>2 DEF AllHeld
<1>5. ReqInv(t, a) BY <1>2, <1>4 DEF ReqInv
<1> QED BY <1>3, <1>5

\* One request moves on, perhaps writing a row: what is left to show.
LEMMA OneMoves ==
  ASSUME IInv, NEW p \in Procs, NEW r, Set(p, r),
         TableOK(rows'), Keeps(rows, rows'), cfg' = cfg,
         ReqOK(r), ReqInv(rows', r)
  PROVE  IInv'
<1>1. DOMAIN req' = Procs /\ \A q \in Procs : req'[q] = IF q = p THEN r ELSE req[q]
  BY DEF Set, IInv, TypeOK
<1>2. \A q \in Procs : ReqOK(req'[q]) BY <1>1 DEF IInv, TypeOK
<1>3. \A q \in Procs : ReqInv(rows', req'[q])
  BY <1>1, KeepsReqInv DEF IInv
<1>4. TypeOK'
  <2>1. (\A q \in Procs : ReqOK(req[q]))' BY <1>2 DEF ReqOK
  <2> QED BY <1>1, <2>1 DEF IInv, TypeOK, TableOK
<1>5. Unique(rows') BY DEF TableOK
<1> QED BY <1>3, <1>4, <1>5 DEF IInv, ReqInv, Unique

\* The facts about the request that moves, and about a table left alone.
LEMMA Moving ==
  ASSUME IInv, NEW p \in Procs
  PROVE  /\ ReqOK(req[p]) /\ ReqInv(rows, req[p]) /\ TableOK(rows)
         /\ req[p].pc # "idle" => req[p].user \in Users
         /\ UNCHANGED rows => TableOK(rows') /\ Keeps(rows, rows')
<1>1. TableOK(rows) BY DEF IInv, TypeOK, TableOK
<1>2. UNCHANGED rows => TableOK(rows') /\ Keeps(rows, rows')
  BY <1>1, KeepsRefl
<1> QED BY <1>1, <1>2 DEF IInv, TypeOK, ReqOK

\* The sequences of Seqs(S) are bounded sequences over S.
LEMMA SeqsFacts ==
  ASSUME NEW S, NEW s \in Seqs(S)
  PROVE  /\ Len(s) \in 0..PageMax /\ DOMAIN s = 1..Len(s)
         /\ \A i \in 1..Len(s) : s[i] \in S
<1>1. PICK n \in 0..PageMax : s \in [1..n -> S] BY DEF Seqs
<1>2. Len(s) = n BY <1>1, PageAssumption
<1> QED BY <1>1, <1>2

\* A bounded function on 1..n is one of Seqs(S).
LEMMA SeqsIntro ==
  ASSUME NEW S, NEW n \in 0..PageMax, NEW s \in [1..n -> S]
  PROVE  s \in Seqs(S)
BY DEF Seqs

\* An answer given without touching the table.
LEMMA Answers ==
  ASSUME IInv, NEW p \in Procs, req[p].pc # "idle", UNCHANGED <<rows, cfg>>,
         NEW resp \in Responses, NEW got, Own(rows, got, req[p].user), NEW raw \in BOOLEAN,
         Set(p, Answer(req[p], resp, got, raw)),
         resp = "ok" /\ req[p].kind \in {"pop3", "graph", "details"} => AllHeld(rows, req[p])
  PROVE  IInv'
<1> DEFINE a == Answer(req[p], resp, got, raw)
<1>1. ReqOK(a) /\ ReqInv(rows, a) BY Moving, AnswerOK DEF ReqInv
<1>2. TableOK(rows') /\ Keeps(rows, rows') BY Moving
<1>3. ReqInv(rows', a) BY <1>1, <1>2, KeepsReqInv
<1> QED BY <1>1, <1>2, <1>3, OneMoves

-----------------------------------------------------------------------------
(* The steps *)

\* A new call, before it is answered or waits for its first result.
LEMMA CallOK ==
  ASSUME NEW kind \in AllKinds \cup AllProviders \cup {"none"}, NEW pc \in PCs,
         NEW u \in Users, NEW f \in Folders \cup {Nil}
  PROVE  LET c == Call(kind, pc, u, f) IN
         /\ ReqOK(c) /\ c.kind = kind /\ c.pc = pc /\ c.user = u /\ c.folder = f
         /\ c.page = <<>> /\ c.id = Nil /\ c.resp = "none" /\ c.k = 1 /\ c.got = {}
<1> DEFINE c == Call(kind, pc, u, f)
<1>1. /\ c.kind = kind /\ c.pc = pc /\ c.user = u /\ c.folder = f
      /\ c.page = <<>> /\ c.id = Nil /\ c.resp = "none" /\ c.txn = <<>>
      /\ c.k = 1 /\ c.got = {} /\ c.raw = FALSE /\ DOMAIN c = DOMAIN Idle
  BY DEF Call, Idle
<1>2. <<>> \in Seqs(Item) /\ <<>> \in Seqs([st : TxnStates, id : Ids \cup {Nil}])
  BY PageAssumption DEF Seqs
<1> HIDE DEF c
<1>3. c.page \in Seqs(Item) /\ c.txn \in Seqs([st : TxnStates, id : Ids \cup {Nil}])
  BY <1>1, <1>2
<1>4. c.k \in 1..(PageMax + 1) BY <1>1, PageAssumption
<1>5. ReqOK(c) BY <1>1, <1>3, <1>4 DEF ReqOK, Responses
<1> QED BY <1>1, <1>5 DEF c

\* ... about one message
LEMMA CallOneOK ==
  ASSUME NEW c, ReqOK(c), c.pc # "idle", NEW m \in Mids, NEW rd \in BOOLEAN
  PROVE  LET d == [c EXCEPT !.page = <<[mid |-> m, read |-> rd]>>] IN
         /\ ReqOK(d) /\ d.kind = c.kind /\ d.pc = c.pc /\ d.user = c.user
         /\ d.folder = c.folder /\ d.resp = c.resp /\ d.got = c.got /\ d.page = <<[mid |-> m, read |-> rd]>>
         /\ DOMAIN d.page = {1} /\ d.page[1].mid = m
<1> DEFINE d == [c EXCEPT !.page = <<[mid |-> m, read |-> rd]>>]
<1>1. /\ d.kind = c.kind /\ d.pc = c.pc /\ d.user = c.user /\ d.folder = c.folder
      /\ d.page = <<[mid |-> m, read |-> rd]>> /\ d.id = c.id /\ d.resp = c.resp
      /\ d.txn = c.txn /\ d.k = c.k /\ d.got = c.got /\ d.raw = c.raw
      /\ DOMAIN d = DOMAIN c
  BY DEF ReqOK, Idle
<1>2. d.page \in Seqs(Item)
  <2>1. [mid |-> m, read |-> rd] \in Item BY DEF Item
  <2>2. <<[mid |-> m, read |-> rd]>> \in [1..1 -> Item] BY <2>1
  <2>3. 1 \in 0..PageMax BY PageAssumption
  <2>4. <<[mid |-> m, read |-> rd]>> \in Seqs(Item) BY <2>2, <2>3, SeqsIntro
  <2> QED BY <1>1, <2>4
<1>3. ReqOK(d) BY <1>1, <1>2 DEF ReqOK
<1> QED BY <1>1, <1>3

\* A call answered at once with something other than stored mail.
LEMMA CallAnswered ==
  ASSUME IInv, NEW p \in Procs, UNCHANGED <<rows, cfg>>, NEW c, ReqOK(c), c.pc # "idle",
         c.kind = "graph" => GraphUsed,
         NEW resp \in Responses, NEW got, Own(rows, got, c.user), NEW raw \in BOOLEAN,
         Set(p, Answer(c, resp, got, raw)),
         resp = "ok" => c.kind \notin {"pop3", "graph", "details"}
  PROVE  IInv'
<1> DEFINE a == Answer(c, resp, got, raw)
<1>1. c.user \in Users BY DEF ReqOK
<1>2. ReqOK(a) /\ ReqInv(rows, a) BY <1>1, AnswerOK
<1>3. TableOK(rows') /\ Keeps(rows, rows') BY Moving
<1>4. ReqInv(rows', a) BY <1>2, <1>3, KeepsReqInv
<1> QED BY <1>2, <1>3, <1>4, OneMoves

\* A call that now waits.
LEMMA Waits ==
  ASSUME IInv, NEW p \in Procs, UNCHANGED <<rows, cfg>>, NEW r, ReqOK(r), ReqInv(rows, r),
         Set(p, r)
  PROVE  IInv'
<1>1. TableOK(rows') /\ Keeps(rows, rows') BY Moving
<1>2. ReqInv(rows', r) BY <1>1, KeepsReqInv
<1> QED BY <1>1, <1>2, OneMoves

\* The step FetchEmails preserves the invariant.
LEMMA FetchEmailsInv == ASSUME IInv, NEW p \in Procs, FetchEmails(p) PROVE IInv'
<1>1. PICK u \in Users, f \in Folders :
        LET method == Dispatch(cfg[u])
            call   == Call(method, "open", u, f)
        IN  Set(p, IF method = "none" THEN Answer(call, "notfound", {}, FALSE) ELSE call)
  BY DEF FetchEmails
<1> DEFINE method == Dispatch(cfg[u])
           call   == Call(method, "open", u, f)
<1>2. /\ method \in AllProviders \cup {"none"}
      /\ method = "graph" => GraphUsed
  BY DEF Dispatch, AllProviders, GraphUsed, IInv, TypeOK
<1>3. UNCHANGED <<rows, cfg>> BY DEF FetchEmails
<1>4. /\ ReqOK(call) /\ call.kind = method /\ call.pc = "open" /\ call.folder = f
      /\ call.resp = "none" /\ call.k = 1 /\ call.got = {}
  BY <1>2, CallOK DEF PCs
<1>5. CASE method = "none"
  <2>1. Set(p, Answer(call, "notfound", {}, FALSE)) BY <1>1, <1>5
  <2> QED BY <2>1, <1>3, <1>4, <1>5, CallAnswered, OwnNone DEF Responses
<1>6. CASE method # "none"
  <2>1. ReqInv(rows, call) BY <1>2, <1>4, <1>6, OwnNone DEF ReqInv
  <2>2. Set(p, call) BY <1>1, <1>6
  <2> QED BY <2>1, <2>2, <1>3, <1>4, Waits
<1> QED BY <1>5, <1>6

\* The step GraphEmails preserves the invariant.
LEMMA GraphEmailsInv == ASSUME IInv, NEW p \in Procs, GraphEmails(p) PROVE IInv'
<1>1. PICK u \in Users, f \in Folders : Set(p, Call("graph", "open", u, f))
  BY DEF GraphEmails
<1> DEFINE call == Call("graph", "open", u, f)
<1>2. /\ ReqOK(call) /\ call.kind = "graph" /\ call.pc = "open" /\ call.folder = f
      /\ call.resp = "none" /\ call.k = 1 /\ call.got = {}
  <2>1. "graph" \in AllKinds \cup AllProviders \cup {"none"} BY DEF AllProviders
  <2>2. "open" \in PCs BY DEF PCs
  <2> QED BY <2>1, <2>2, CallOK
<1>3. GraphUsed BY DEF GraphEmails, Starts, GraphUsed
<1>4. ReqInv(rows, call) BY <1>2, <1>3, OwnNone DEF ReqInv, AllProviders
<1> QED BY <1>1, <1>2, <1>4, Waits DEF GraphEmails

\* The step GetEmailById preserves the invariant.
LEMMA GetEmailByIdInv == ASSUME IInv, NEW p \in Procs, GetEmailById(p) PROVE IInv'
<1> DEFINE call(u, m) == [Call("byId", "byId", u, Nil)
                            EXCEPT !.page = <<[mid |-> m, read |-> FALSE]>>]
<1>1. PICK u \in Users, m \in Mids :
        Set(p, IF Stored(u, m) = {} THEN call(u, m)
               ELSE Answer(call(u, m), "ok", Stored(u, m), FALSE))
  BY DEF GetEmailById
<1>2. /\ ReqOK(call(u, m)) /\ call(u, m).kind = "byId" /\ call(u, m).pc = "byId"
      /\ call(u, m).resp = "none" /\ call(u, m).got = {} /\ call(u, m).user = u
  <2> DEFINE c == Call("byId", "byId", u, Nil)
  <2>1. /\ ReqOK(c) /\ c.kind = "byId" /\ c.pc = "byId" /\ c.resp = "none" /\ c.got = {}
        /\ c.user = u
    BY CallOK DEF PCs, AllKinds
  <2> HIDE DEF c
  <2>2. LET d == [c EXCEPT !.page = <<[mid |-> m, read |-> FALSE]>>] IN
        /\ ReqOK(d) /\ d.kind = c.kind /\ d.pc = c.pc /\ d.resp = c.resp /\ d.got = c.got
        /\ d.user = c.user
    BY <2>1, CallOneOK
  <2> QED BY <2>1, <2>2 DEF c
<1>3. UNCHANGED <<rows, cfg>> BY DEF GetEmailById
<1> HIDE DEF call
<1>4. CASE Stored(u, m) = {}
  <2>1. ReqInv(rows, call(u, m)) BY <1>2, OwnNone DEF ReqInv
  <2> QED BY <2>1, <1>1, <1>2, <1>3, <1>4, Waits
<1>5. CASE Stored(u, m) # {}
  <2>1. Own(rows, Stored(u, m), u) BY DEF Stored, Own
  <2>2. Set(p, Answer(call(u, m), "ok", Stored(u, m), FALSE)) BY <1>1, <1>5
  <2> QED BY <2>1, <2>2, <1>2, <1>3, CallAnswered DEF Responses
<1> QED BY <1>4, <1>5

\* The step GetEmailDetails preserves the invariant.
LEMMA GetEmailDetailsInv == ASSUME IInv, NEW p \in Procs, GetEmailDetails(p) PROVE IInv'
<1> DEFINE call(u, m) == [Call("details", "details", u, Nil)
                            EXCEPT !.page = <<[mid |-> m, read |-> TRUE]>>]
<1>1. PICK u \in Users, m \in Mids : \/ Set(p, call(u, m))
                                     \/ Set(p, Answer(call(u, m), "error", {}, FALSE))
  BY DEF GetEmailDetails
<1>2. /\ ReqOK(call(u, m)) /\ call(u, m).kind = "details" /\ call(u, m).pc = "details"
      /\ call(u, m).resp = "none" /\ call(u, m).got = {}
      /\ DOMAIN call(u, m).page = {1} /\ call(u, m).page[1].mid = m
  <2> DEFINE c == Call("details", "details", u, Nil)
  <2>1. /\ ReqOK(c) /\ c.kind = "details" /\ c.pc = "details" /\ c.resp = "none"
        /\ c.got = {}
    BY CallOK DEF PCs, AllKinds
  <2> HIDE DEF c
  <2>2. LET d == [c EXCEPT !.page = <<[mid |-> m, read |-> TRUE]>>] IN
        /\ ReqOK(d) /\ d.kind = c.kind /\ d.pc = c.pc /\ d.resp = c.resp /\ d.got = c.got
        /\ DOMAIN d.page = {1} /\ d.page[1].mid = m
    BY <2>1, CallOneOK
  <2> QED BY <2>1, <2>2 DEF c
<1>3. UNCHANGED <<rows, cfg>> BY DEF GetEmailDetails
<1> HIDE DEF call
<1>4. m # Nil BY NilAssumption
<1>5. CASE Set(p, call(u, m))
  <2>1. ReqInv(rows, call(u, m)) BY <1>2, <1>4, OwnNone DEF ReqInv
  <2> QED BY <2>1, <1>2, <1>3, <1>5, Waits
<1>6. CASE Set(p, Answer(call(u, m), "error", {}, FALSE))
  BY <1>2, <1>3, <1>6, CallAnswered, OwnNone DEF Responses
<1> QED BY <1>1, <1>5, <1>6

\* The step MarkFind preserves the invariant.
LEMMA MarkFindInv == ASSUME IInv, NEW p \in Procs, MarkFind(p) PROVE IInv'
<1> DEFINE call(kind, u, id, f) == [Call(kind, "mark", u, f) EXCEPT !.id = id]
<1>1. PICK kind \in {"read", "delete", "move"}, u \in Users, id \in Ids :
        \E f \in IF kind = "move" THEN Folders ELSE {Nil} :
          Set(p, IF Owns(u, id) THEN call(kind, u, id, f)
                 ELSE Answer(call(kind, u, id, f), "notfound", {}, FALSE))
  BY DEF MarkFind
<1>2. PICK f \in IF kind = "move" THEN Folders ELSE {Nil} :
        Set(p, IF Owns(u, id) THEN call(kind, u, id, f)
               ELSE Answer(call(kind, u, id, f), "notfound", {}, FALSE))
  BY <1>1
<1> DEFINE r == call(kind, u, id, f)
<1>3. /\ ReqOK(r) /\ r.kind = kind /\ r.pc = "mark" /\ r.folder = f /\ r.id = id
      /\ r.user = u /\ r.resp = "none" /\ r.got = {}
  <2> DEFINE c == Call(kind, "mark", u, f)
  <2>1. f \in Folders \cup {Nil} BY <1>2
  <2>2. kind \in AllKinds BY <1>1 DEF AllKinds
  <2>3. /\ ReqOK(c) /\ c.kind = kind /\ c.pc = "mark" /\ c.folder = f /\ c.user = u
        /\ c.resp = "none" /\ c.got = {}
    BY <2>1, <2>2, CallOK DEF PCs
  <2> HIDE DEF c
  <2> DEFINE d == [c EXCEPT !.id = id]
  <2>4. /\ d.kind = c.kind /\ d.pc = c.pc /\ d.user = c.user /\ d.folder = c.folder
        /\ d.page = c.page /\ d.id = id /\ d.resp = c.resp /\ d.txn = c.txn
        /\ d.k = c.k /\ d.got = c.got /\ d.raw = c.raw /\ DOMAIN d = DOMAIN c
    BY <2>3 DEF ReqOK, Idle
  <2>5. ReqOK(d) BY <2>3, <2>4 DEF ReqOK
  <2> QED BY <2>3, <2>4, <2>5 DEF c
<1>4. UNCHANGED <<rows, cfg>> BY DEF MarkFind
<1> HIDE DEF r, call
<1>5. CASE Owns(u, id)
  <2>1. Own(rows, {r.id}, r.user) BY <1>3, <1>5 DEF Own, Owns
  <2>3. ReqInv(rows, r) BY <1>2, <1>3, <2>1, OwnNone DEF ReqInv
  <2>2. Set(p, r) BY <1>2, <1>5 DEF r
  <2> QED BY <2>2, <2>3, <1>3, <1>4, Waits
<1>6. CASE ~Owns(u, id)
  <2>1. Set(p, Answer(r, "notfound", {}, FALSE)) BY <1>2, <1>6 DEF r
  <2> QED BY <2>1, <1>3, <1>4, CallAnswered, OwnNone DEF Responses
<1> QED BY <1>5, <1>6

\* The step OpenFails preserves the invariant.
LEMMA OpenFailsInv == ASSUME IInv, NEW p \in Procs, OpenFails(p) PROVE IInv'
BY Answers, OwnNone DEF OpenFails, Responses

\* The step GetEmailByIdFallback preserves the invariant.
LEMMA GetEmailByIdFallbackInv ==
  ASSUME IInv, NEW p \in Procs, GetEmailByIdFallback(p) PROVE IInv'
<1> DEFINE r == req[p]
<1>1. PICK served \in {r.page, <<>>}, resp \in {"notfound", "error"} :
        Set(p, Answer([r EXCEPT !.page = served], resp, {}, FALSE))
  BY DEF GetEmailByIdFallback
<1> DEFINE c == [r EXCEPT !.page = served]
<1>2. ReqOK(r) /\ r.pc = "byId" BY Moving DEF GetEmailByIdFallback
<1>3. <<>> \in Seqs(Item) BY PageAssumption DEF Seqs
<1> HIDE DEF r
<1>4. /\ c.kind = r.kind /\ c.pc = r.pc /\ c.user = r.user /\ c.folder = r.folder
      /\ c.page = served /\ c.id = r.id /\ c.resp = r.resp /\ c.txn = r.txn
      /\ c.k = r.k /\ c.got = r.got /\ c.raw = r.raw /\ DOMAIN c = DOMAIN r
  BY <1>2 DEF ReqOK, Idle
<1>5. ReqOK(c) /\ c.pc # "idle" BY <1>1, <1>2, <1>3, <1>4 DEF ReqOK
<1>6. UNCHANGED <<rows, cfg>> BY DEF GetEmailByIdFallback
<1> HIDE DEF c
<1>7. Set(p, Answer(c, resp, {}, FALSE)) BY <1>1 DEF c
<1>8. c.kind # "graph" BY <1>2, <1>4, Moving DEF r, ReqInv
<1> QED BY <1>1, <1>5, <1>6, <1>7, <1>8, CallAnswered, OwnNone DEF Responses

\* A request that fills in its page, its place in it, its transactions or its
\* row: s is r with those fields changed.
SameCall(r, s) == /\ DOMAIN s = DOMAIN r
                  /\ s.kind = r.kind /\ s.user = r.user /\ s.folder = r.folder
                  /\ s.got = r.got /\ s.raw = r.raw

\* A request that moves on within the same call keeps its shape.
LEMMA ProgressOK ==
  ASSUME NEW r, ReqOK(r), r.pc # "idle", NEW s, SameCall(r, s),
         s.pc \in PCs, s.page \in Seqs(Item), s.k \in 1..(PageMax + 1),
         s.txn \in Seqs([st : TxnStates, id : Ids \cup {Nil}]),
         s.id \in Ids \cup {Nil}, s.resp \in Responses
  PROVE  ReqOK(s)
BY DEF ReqOK, SameCall

\* Every page a POP3 or IMAP server answers is a page of items.
LEMMA PagesAreItems ==
  /\ Pop3Pages \subseteq Seqs(Item)
  /\ ImapPages \subseteq Seqs(Item)
  /\ \A s \in GraphPages : s \in Seqs(Item) /\ \A i \in DOMAIN s : s[i].mid # Nil
<1>1. \A S, T : S \subseteq T => Seqs(S) \subseteq Seqs(T) BY DEF Seqs
<1>2. [mid : Mids \cup {Nil}, read : {FALSE}] \subseteq Item BY DEF Item
<1>3. [mid : {ImapMessageId(m) : m \in Mids}, read : {FALSE}] \subseteq Item
  BY DEF Item, ImapMessageId
<1>4. [mid : Mids, read : BOOLEAN] \subseteq Item BY DEF Item
<1>5. ASSUME NEW s \in GraphPages
      PROVE  s \in Seqs(Item) /\ \A i \in DOMAIN s : s[i].mid # Nil
  <2>1. s \in Seqs([mid : Mids, read : BOOLEAN]) BY DEF GraphPages
  <2>2. \A i \in DOMAIN s : s[i] \in [mid : Mids, read : BOOLEAN] BY <2>1, SeqsFacts
  <2>3. \A i \in DOMAIN s : s[i].mid # Nil BY <2>2, NilAssumption
  <2> QED BY <2>1, <2>3, <1>1, <1>4
<1> QED BY <1>1, <1>2, <1>3, <1>5 DEF Pop3Pages, ImapPages

\* A page arrives and its messages are about to be saved one by one.
LEMMA SavesPage ==
  ASSUME IInv, NEW p \in Procs, UNCHANGED <<rows, cfg>>, req[p].pc = "open",
         req[p].kind \in {"imap", "pop3"}, NEW page \in Seqs(Item),
         Set(p, [req[p] EXCEPT !.pc = "save", !.page = page])
  PROVE  IInv'
<1> DEFINE r == req[p]
           s == [r EXCEPT !.pc = "save", !.page = page]
<1>1. r.pc = "open" /\ ReqOK(r) /\ ReqInv(rows, r) BY Moving
<1>2. /\ SameCall(r, s) /\ s.pc = "save" /\ s.page = page
      /\ s.k = r.k /\ s.txn = r.txn /\ s.id = r.id /\ s.resp = r.resp
  BY <1>1 DEF ReqOK, Idle, SameCall
<1>3. Set(p, s) OBVIOUS
<1> HIDE DEF s
<1>4. ReqOK(s) BY <1>1, <1>2, ProgressOK DEF ReqOK, PCs
<1>5. Len(page) \in Nat BY SeqsFacts, PageAssumption
<1>6. ReqInv(rows, s) BY <1>1, <1>2, <1>5 DEF ReqInv, SameCall
<1> QED BY <1>3, <1>4, <1>6, Waits

\* The step OpenImap preserves the invariant.
LEMMA OpenImapInv == ASSUME IInv, NEW p \in Procs, OpenImap(p) PROVE IInv'
<1> DEFINE r == req[p]
<1>1. r.pc = "open" /\ r.kind = "imap" /\ UNCHANGED <<rows, cfg>> BY DEF OpenImap
<1>2. CASE "imap" \notin cfg[r.user]
  BY <1>1, <1>2, Answers, OwnNone DEF OpenImap, Responses
<1>3. CASE "imap" \in cfg[r.user]
  <2>1. PICK page \in ImapPages :
          Set(p, IF page = <<>> THEN Answer(r, "ok", {}, FALSE)
                 ELSE [r EXCEPT !.pc = "save", !.page = page])
    BY <1>3 DEF OpenImap
  <2>2. CASE page = <<>>
    BY <1>1, <2>1, <2>2, Answers, OwnNone DEF Responses
  <2>3. CASE page # <<>>
    BY <1>1, <2>1, <2>3, SavesPage, PagesAreItems
  <2> QED BY <2>2, <2>3
<1> QED BY <1>2, <1>3

\* The step OpenPop3 preserves the invariant.
LEMMA OpenPop3Inv == ASSUME IInv, NEW p \in Procs, OpenPop3(p) PROVE IInv'
<1> DEFINE r == req[p]
<1>1. r.pc = "open" /\ r.kind = "pop3" /\ UNCHANGED <<rows, cfg>> BY DEF OpenPop3
<1>2. CASE "pop3" \notin cfg[r.user]
  BY <1>1, <1>2, Answers, OwnNone DEF OpenPop3, Responses
<1>3. CASE "pop3" \in cfg[r.user]
  <2>1. PICK page \in Pop3Pages : Set(p, [r EXCEPT !.pc = "save", !.page = page])
    BY <1>3 DEF OpenPop3
  <2> QED BY <1>1, <2>1, SavesPage, PagesAreItems
<1> QED BY <1>2, <1>3

\* The step OpenGraph preserves the invariant.
LEMMA OpenGraphInv == ASSUME IInv, NEW p \in Procs, OpenGraph(p) PROVE IInv'
<1> DEFINE r == req[p]
           txnOf(page) == [j \in DOMAIN page |-> [st |-> "find", id |-> Nil]]
<1>1. /\ r.pc = "open" /\ r.kind = "graph" /\ UNCHANGED <<rows, cfg>>
      /\ ReqOK(r) /\ ReqInv(rows, r)
  BY Moving DEF OpenGraph
<1>2. PICK page \in GraphPages :
        Set(p, [r EXCEPT !.pc = "txns", !.page = page, !.txn = txnOf(page)])
  BY DEF OpenGraph
<1> DEFINE s == [r EXCEPT !.pc = "txns", !.page = page, !.txn = txnOf(page)]
<1>3. page \in Seqs(Item) /\ \A i \in DOMAIN page : page[i].mid # Nil BY PagesAreItems
<1>4. txnOf(page) \in Seqs([st : TxnStates, id : Ids \cup {Nil}])
  <2>1. Len(page) \in 0..PageMax /\ DOMAIN page = 1..Len(page) BY <1>3, SeqsFacts
  <2>2. [st |-> "find", id |-> Nil] \in [st : TxnStates, id : Ids \cup {Nil}]
    BY DEF TxnStates
  <2>3. txnOf(page) \in [1..Len(page) -> [st : TxnStates, id : Ids \cup {Nil}]]
    BY <2>1, <2>2
  <2> QED BY <2>1, <2>3, SeqsIntro
<1>5. /\ SameCall(r, s) /\ s.pc = "txns" /\ s.page = page /\ s.txn = txnOf(page)
      /\ s.k = r.k /\ s.id = r.id /\ s.resp = r.resp
  BY <1>1 DEF ReqOK, Idle, SameCall
<1>6. /\ DOMAIN txnOf(page) = DOMAIN page
      /\ \A j \in DOMAIN page : txnOf(page)[j].st = "find"
  OBVIOUS
<1>7. Set(p, s) BY <1>2
<1> HIDE DEF s, txnOf
<1>8. ReqOK(s) BY <1>1, <1>3, <1>4, <1>5, ProgressOK DEF ReqOK, PCs
<1>9. ReqInv(rows, s) BY <1>1, <1>3, <1>5, <1>6 DEF ReqInv, SameCall
<1> QED BY <1>1, <1>7, <1>8, <1>9, Waits

\* The page of a request is a bounded sequence of items.
LEMMA PageOfReq ==
  ASSUME NEW r, ReqOK(r)
  PROVE  /\ Len(r.page) \in 0..PageMax /\ DOMAIN r.page = 1..Len(r.page)
         /\ \A i \in DOMAIN r.page : r.page[i] \in Item
BY SeqsFacts DEF ReqOK

\* The save loop goes on with the next message, the current one being stored or
\* without a Message-ID.
LEMMA NextMessage ==
  ASSUME NEW t, NEW r, ReqOK(r), ReqInv(t, r), r.pc \in {"save", "create"}, r.k <= Len(r.page),
         r.page[r.k].mid # Nil => Has(t, r.user, r.page[r.k].mid),
         NEW s, SameCall(r, s), s.pc = "save", s.k = r.k + 1, s.page = r.page,
         s.txn = r.txn, s.id = r.id, s.resp = r.resp
  PROVE  ReqOK(s) /\ ReqInv(t, s)
<1>1. /\ Len(r.page) \in 0..PageMax /\ PageMax \in Nat /\ r.k \in 1..(PageMax + 1)
  BY PageOfReq, PageAssumption DEF ReqOK
<1>2. s.k \in 1..(PageMax + 1) /\ s.k <= Len(s.page) + 1 BY <1>1
<1>3. ReqOK(s) BY <1>2, ProgressOK DEF ReqOK, PCs
<1>4. \A i \in 1..(s.k - 1) : i = r.k \/ i \in 1..(r.k - 1) BY <1>1
<1>5. \A i \in 1..(s.k - 1) : s.page[i].mid # Nil => Has(t, s.user, s.page[i].mid)
  BY <1>4 DEF ReqInv, SameCall
<1>6. ReqInv(t, s) BY <1>2, <1>5 DEF ReqInv, SameCall
<1> QED BY <1>3, <1>6

\* The step SaveSkip preserves the invariant.
LEMMA SaveSkipInv == ASSUME IInv, NEW p \in Procs, SaveSkip(p) PROVE IInv'
<1> DEFINE r == req[p]
           s == [r EXCEPT !.k = @ + 1]
<1>1. /\ r.pc = "save" /\ r.k <= Len(r.page) /\ r.page[r.k].mid = Nil
      /\ UNCHANGED <<rows, cfg>> /\ Set(p, s) /\ ReqOK(r) /\ ReqInv(rows, r)
  BY Moving DEF SaveSkip, Saving
<1>2. /\ SameCall(r, s) /\ s.pc = "save" /\ s.k = r.k + 1 /\ s.page = r.page
      /\ s.txn = r.txn /\ s.id = r.id /\ s.resp = r.resp
  BY <1>1 DEF ReqOK, Idle, SameCall
<1> HIDE DEF s
<1>3. ReqOK(s) /\ ReqInv(rows, s) BY <1>1, <1>2, NextMessage
<1> QED BY <1>1, <1>3, Waits

\* The step SaveFind preserves the invariant.
LEMMA SaveFindInv == ASSUME IInv, NEW p \in Procs, SaveFind(p) PROVE IInv'
<1> DEFINE r == req[p]
           next == [r EXCEPT !.k = @ + 1]
           miss == [r EXCEPT !.pc = "create"]
<1>1. /\ r.pc = "save" /\ r.k <= Len(r.page) /\ r.page[r.k].mid # Nil
      /\ UNCHANGED <<rows, cfg>> /\ ReqOK(r) /\ ReqInv(rows, r)
  BY Moving DEF SaveFind, Saving
<1>2. Set(p, IF Stored(r.user, r.page[r.k].mid) # {} THEN next ELSE miss)
  BY DEF SaveFind
<1>3. CASE Stored(r.user, r.page[r.k].mid) # {}
  <2>1. Has(rows, r.user, r.page[r.k].mid) BY <1>3, StoredHas
  <2>2. /\ SameCall(r, next) /\ next.pc = "save" /\ next.k = r.k + 1 /\ next.page = r.page
        /\ next.txn = r.txn /\ next.id = r.id /\ next.resp = r.resp
    BY <1>1 DEF ReqOK, Idle, SameCall
  <2>3. Set(p, next) BY <1>2, <1>3
  <2> HIDE DEF next
  <2>4. ReqOK(next) /\ ReqInv(rows, next) BY <1>1, <2>1, <2>2, NextMessage
  <2> QED BY <1>1, <2>3, <2>4, Waits
<1>4. CASE Stored(r.user, r.page[r.k].mid) = {}
  <2>1. /\ SameCall(r, miss) /\ miss.pc = "create" /\ miss.k = r.k /\ miss.page = r.page
        /\ miss.txn = r.txn /\ miss.id = r.id /\ miss.resp = r.resp
    BY <1>1 DEF ReqOK, Idle, SameCall
  <2>2. Set(p, miss) BY <1>2, <1>4
  <2> HIDE DEF miss
  <2>3. ReqOK(miss) BY <1>1, <2>1, ProgressOK DEF ReqOK, PCs
  <2>4. ReqInv(rows, miss) BY <1>1, <2>1 DEF ReqInv, SameCall
  <2> QED BY <1>1, <2>2, <2>3, <2>4, Waits
<1> QED BY <1>3, <1>4

\* Neither protocol reports stored mail when saving failed.
LEMMA SaveFailedInv ==
  ASSUME IInv, NEW p \in Procs, req[p].pc \in {"save", "create", "readback"},
         UNCHANGED <<rows, cfg>>, Set(p, SaveFailed(req[p]))
  PROVE  IInv'
<1>1. CASE req[p].kind = "imap"
  <2>1. Set(p, Answer(req[p], "ok", {}, TRUE)) BY <1>1 DEF SaveFailed
  <2> QED BY <1>1, <2>1, Answers, OwnNone DEF Responses
<1>2. CASE req[p].kind # "imap"
  <2>1. Set(p, Answer(req[p], "error", {}, FALSE)) BY <1>2 DEF SaveFailed
  <2> QED BY <2>1, Answers, OwnNone DEF Responses
<1> QED BY <1>1, <1>2

\* The row created for an item is a row of that user and that message.
LEMMA NewRowOK ==
  ASSUME NEW u \in Users, NEW item \in Item, item.mid # Nil, NEW f \in Folders
  PROVE  /\ NewRow(u, item, f) \in Row
         /\ NewRow(u, item, f).user = u /\ NewRow(u, item, f).mid = item.mid
BY DEF NewRow, Row, Item

\* create, when the unique index accepts it, adds the message and keeps the others.
LEMMA InsertRowOK ==
  ASSUME IInv, NEW row \in Row, ~UniqueViolation(row), InsertRow(row)
  PROVE  TableOK(rows') /\ Keeps(rows, rows') /\ Has(rows', row.user, row.mid)
<1>1. PICK id \in Ids : rows[id] = Nil /\ rows' = [rows EXCEPT ![id] = row]
  BY DEF InsertRow
<1>2. ~Has(rows, row.user, row.mid) BY StoredHas DEF UniqueViolation
<1>3. TableOK(rows) BY DEF IInv, TypeOK, TableOK
<1> QED BY <1>1, <1>2, <1>3, InsertTable

\* The step SaveCreate preserves the invariant.
LEMMA SaveCreateInv == ASSUME IInv, NEW p \in Procs, SaveCreate(p) PROVE IInv'
<1> DEFINE r   == req[p]
           row == NewRow(r.user, r.page[r.k], r.folder)
           s   == [r EXCEPT !.pc = "save", !.k = @ + 1]
<1>1. r.pc = "create" /\ ReqOK(r) /\ ReqInv(rows, r) /\ cfg' = cfg
  BY Moving DEF SaveCreate
<1>2. CASE UniqueViolation(row) /\ Set(p, SaveFailed(r)) /\ UNCHANGED rows
  BY <1>1, <1>2, SaveFailedInv
<1>3. CASE ~UniqueViolation(row) /\ InsertRow(row) /\ Set(p, s)
  <2>1. /\ r.user \in Users /\ r.folder \in Folders /\ r.k <= Len(r.page)
        /\ r.page[r.k].mid # Nil
    BY <1>1 DEF ReqOK, ReqInv
  <2>2. r.page[r.k] \in Item
    <3>1. r.k \in 1..Len(r.page) BY <1>1, <2>1, PageOfReq, PageAssumption DEF ReqOK
    <3> QED BY <1>1, <3>1, PageOfReq
  <2>3. row \in Row /\ row.user = r.user /\ row.mid = r.page[r.k].mid
    BY <2>1, <2>2, NewRowOK
  <2>4. /\ SameCall(r, s) /\ s.pc = "save" /\ s.k = r.k + 1 /\ s.page = r.page
        /\ s.txn = r.txn /\ s.id = r.id /\ s.resp = r.resp
    BY <1>1 DEF ReqOK, Idle, SameCall
  <2> HIDE DEF s, row
  <2>5. TableOK(rows') /\ Keeps(rows, rows') /\ Has(rows', r.user, r.page[r.k].mid)
    BY <1>3, <2>3, InsertRowOK
  <2>6. ReqInv(rows', r) BY <1>1, <2>5, KeepsReqInv
  <2>7. ReqOK(s) /\ ReqInv(rows', s) BY <1>1, <2>1, <2>4, <2>5, <2>6, NextMessage
  <2> QED BY <1>1, <1>3, <2>5, <2>7, OneMoves
<1> QED BY <1>2, <1>3 DEF SaveCreate

\* The step SaveDone preserves the invariant.
LEMMA SaveDoneInv == ASSUME IInv, NEW p \in Procs, SaveDone(p) PROVE IInv'
<1> DEFINE r == req[p]
           s == [r EXCEPT !.pc = "readback"]
<1>1. /\ r.pc = "save" /\ r.k > Len(r.page) /\ UNCHANGED <<rows, cfg>>
      /\ Set(p, IF r.kind = "imap" THEN s ELSE Answer(r, "ok", {}, TRUE))
      /\ ReqOK(r) /\ ReqInv(rows, r)
  BY Moving DEF SaveDone
<1>2. AllHeld(rows, r)
  <2>1. \A i \in DOMAIN r.page : i \in 1..(r.k - 1)
    BY <1>1, PageOfReq, PageAssumption DEF ReqOK
  <2> QED BY <1>1, <2>1 DEF AllHeld, ReqInv
<1>3. CASE r.kind = "imap"
  <2>1. /\ SameCall(r, s) /\ s.pc = "readback" /\ s.k = r.k /\ s.page = r.page
        /\ s.txn = r.txn /\ s.id = r.id /\ s.resp = r.resp
    BY <1>1 DEF ReqOK, Idle, SameCall
  <2>2. Set(p, s) BY <1>1, <1>3
  <2> HIDE DEF s
  <2>3. ReqOK(s) BY <1>1, <2>1, ProgressOK DEF ReqOK, PCs
  <2>4. ReqInv(rows, s) BY <1>1, <1>2, <1>3, <2>1 DEF ReqInv, SameCall, AllHeld
  <2> QED BY <1>1, <2>2, <2>3, <2>4, Waits
<1>4. CASE r.kind # "imap"
  BY <1>1, <1>2, <1>4, Answers, OwnNone DEF Responses
<1> QED BY <1>3, <1>4

\* The step ReadBack preserves the invariant.
LEMMA ReadBackInv == ASSUME IInv, NEW p \in Procs, ReadBack(p) PROVE IInv'
<1>1. req[p].pc = "readback" /\ ReqInv(rows, req[p]) BY Moving DEF ReadBack
<1>2. AllHeld(rows, req[p]) BY <1>1 DEF ReqInv
<1>3. Own(rows, ReadBackOf(req[p]), req[p].user) BY DEF ReadBackOf, Own
<1> QED BY <1>1, <1>2, <1>3, Answers, OwnNone DEF ReadBack, Responses

\* One transaction of a page reaches state st, its row id being id.
LEMMA AdvanceOK ==
  ASSUME NEW t, NEW r, ReqOK(r), ReqInv(t, r), NEW j \in DOMAIN r.txn,
         r.pc \in {"txns", "drain"}, NEW st \in TxnStates, NEW id \in Ids \cup {Nil},
         st = "ok" => Has(t, r.user, r.page[j].mid),
         st = "update" => Holds(t, id, r.user, r.page[j].mid)
  PROVE  LET s == Advance(r, j, st, id) IN
         /\ ReqOK(s) /\ ReqInv(t, s) /\ SameCall(r, s) /\ s.pc = r.pc /\ s.page = r.page
         /\ s.k = r.k /\ s.id = r.id /\ s.resp = r.resp /\ s.txn = [r.txn EXCEPT ![j] = [st |-> st, id |-> id]]
<1> DEFINE s == Advance(r, j, st, id)
           x == [st |-> st, id |-> id]
<1>1. /\ SameCall(r, s) /\ s.pc = r.pc /\ s.page = r.page /\ s.k = r.k /\ s.id = r.id
      /\ s.resp = r.resp /\ s.txn = [r.txn EXCEPT ![j] = x]
  BY DEF Advance, ReqOK, Idle, SameCall
<1>2. PICK n \in 0..PageMax : r.txn \in [1..n -> [st : TxnStates, id : Ids \cup {Nil}]]
  BY DEF ReqOK, Seqs
<1>3. x \in [st : TxnStates, id : Ids \cup {Nil}] OBVIOUS
<1>4. [r.txn EXCEPT ![j] = x] \in [1..n -> [st : TxnStates, id : Ids \cup {Nil}]]
  BY <1>2, <1>3
<1>5. s.txn \in Seqs([st : TxnStates, id : Ids \cup {Nil}]) BY <1>1, <1>4, SeqsIntro
<1>6. /\ DOMAIN s.txn = DOMAIN r.txn
      /\ \A i \in DOMAIN r.txn : s.txn[i] = IF i = j THEN x ELSE r.txn[i]
  BY <1>1, <1>2
<1> HIDE DEF s
<1>7. ReqOK(s) BY <1>1, <1>5, ProgressOK DEF ReqOK
<1>8. /\ r.kind = "graph" /\ r.folder \in Folders /\ DOMAIN r.txn = DOMAIN r.page
      /\ \A i \in DOMAIN r.page :
           /\ r.page[i].mid # Nil
           /\ r.txn[i].st = "ok" => Has(t, r.user, r.page[i].mid)
           /\ r.txn[i].st = "update" => Holds(t, r.txn[i].id, r.user, r.page[i].mid)
      /\ r.resp # "ok"
  BY DEF ReqInv
<1>9. \A i \in DOMAIN s.page :
        /\ s.page[i].mid # Nil
        /\ s.txn[i].st = "ok" => Has(t, s.user, s.page[i].mid)
        /\ s.txn[i].st = "update" => Holds(t, s.txn[i].id, s.user, s.page[i].mid)
  BY <1>1, <1>6, <1>8 DEF SameCall
<1>10. ReqInv(t, s)
  BY <1>1, <1>6, <1>8, <1>9 DEF ReqInv, SameCall
<1> QED BY <1>1, <1>7, <1>10 DEF s

\* A transaction that fails leaves the request an error, and every claim true.
LEMMA RejectOK ==
  ASSUME NEW t, NEW r, ReqOK(r), ReqInv(t, r), NEW j \in DOMAIN r.txn,
         r.pc \in {"txns", "drain"}
  PROVE  ReqOK(Reject(r, j)) /\ ReqInv(t, Reject(r, j))
<1> DEFINE a == Advance(r, j, "failed", Nil)
           s == [a EXCEPT !.pc = "drain", !.resp = "error"]
<1>1. ReqOK(a) /\ ReqInv(t, a)
  <2>1. "failed" \in TxnStates /\ Nil \in Ids \cup {Nil} BY DEF TxnStates
  <2> QED BY <2>1, AdvanceOK
<1> HIDE DEF a
<1>2. /\ SameCall(a, s) /\ s.pc = "drain" /\ s.k = a.k /\ s.page = a.page
      /\ s.txn = a.txn /\ s.id = a.id /\ s.resp = "error"
  BY <1>1 DEF ReqOK, Idle, SameCall
<1>3. Reject(r, j) = s BY DEF Reject, a
<1> HIDE DEF s
<1>4. a.pc = r.pc BY DEF a, Advance, ReqOK, Idle
<1>5. ReqOK(s) BY <1>1, <1>2, <1>4, ProgressOK DEF ReqOK, PCs, Responses
<1>6. ReqInv(t, s) BY <1>1, <1>2, <1>4 DEF ReqInv, SameCall
<1> QED BY <1>3, <1>5, <1>6

\* The step TxnFind preserves the invariant.
LEMMA TxnFindInv == ASSUME IInv, NEW p \in Procs, TxnFind(p) PROVE IInv'
<1> DEFINE r == req[p]
<1>1. PICK j \in DOMAIN r.txn :
        /\ InTxn(r, j, "find")
        /\ LET hits == Stored(r.user, r.page[j].mid) IN
           \/ hits = {} /\ Set(p, Advance(r, j, "create", Nil))
           \/ \E id \in hits : Set(p, Advance(r, j, "update", id))
  BY DEF TxnFind
<1>2. r.pc \in {"txns", "drain"} /\ UNCHANGED <<rows, cfg>> /\ ReqOK(r) /\ ReqInv(rows, r)
  BY <1>1, Moving DEF InTxn, TxnFind
<1>3. CASE Set(p, Advance(r, j, "create", Nil))
  <2>1. ReqOK(Advance(r, j, "create", Nil)) /\ ReqInv(rows, Advance(r, j, "create", Nil))
    BY <1>2, AdvanceOK DEF TxnStates
  <2> QED BY <1>2, <1>3, <2>1, Waits
<1>4. ASSUME NEW id \in Stored(r.user, r.page[j].mid), Set(p, Advance(r, j, "update", id))
      PROVE  IInv'
  <2>1. id \in Ids /\ Holds(rows, id, r.user, r.page[j].mid) BY DEF Stored, Holds
  <2>2. ReqOK(Advance(r, j, "update", id)) /\ ReqInv(rows, Advance(r, j, "update", id))
    BY <1>2, <2>1, AdvanceOK DEF TxnStates
  <2> QED BY <1>2, <1>4, <2>2, Waits
<1> QED BY <1>1, <1>3, <1>4

\* The step TxnUpdate preserves the invariant.
LEMMA TxnUpdateInv == ASSUME IInv, NEW p \in Procs, TxnUpdate(p) PROVE IInv'
<1> DEFINE r == req[p]
<1>1. PICK j \in DOMAIN r.txn :
        /\ InTxn(r, j, "update")
        /\ rows' = [rows EXCEPT ![r.txn[j].id] = SyncFlags(@, r.page[j])]
        /\ Set(p, Advance(r, j, "ok", Nil))
  BY DEF TxnUpdate
<1> DEFINE id  == r.txn[j].id
           row == SyncFlags(rows[id], r.page[j])
<1>2. /\ r.pc \in {"txns", "drain"} /\ cfg' = cfg /\ ReqOK(r) /\ ReqInv(rows, r)
      /\ TableOK(rows)
  BY <1>1, Moving DEF InTxn, TxnUpdate
<1>3. j \in DOMAIN r.page /\ Holds(rows, id, r.user, r.page[j].mid)
  BY <1>1, <1>2 DEF ReqInv, InTxn
<1>4. r.page[j] \in Item BY <1>2, <1>3, PageOfReq
<1>5. id \in Ids /\ rows[id] # Nil /\ rows[id] \in Row BY <1>2, <1>3 DEF Holds, TableOK
<1>6. row \in Row /\ row.user = rows[id].user /\ row.mid = rows[id].mid
  BY <1>4, <1>5 DEF SyncFlags, Row, Item
<1>7. rows' = [rows EXCEPT ![id] = row] BY <1>1
<1> HIDE DEF row
<1>8. TableOK(rows') /\ Keeps(rows, rows') BY <1>2, <1>5, <1>6, <1>7, EditTable
<1>9. Has(rows', r.user, r.page[j].mid)
  <2>1. Has(rows, r.user, r.page[j].mid) BY <1>3 DEF Holds, Has
  <2> QED BY <1>8, <2>1, KeepsHas
<1>10. ReqInv(rows', r) BY <1>2, <1>8, KeepsReqInv
<1>11. ReqOK(Advance(r, j, "ok", Nil)) /\ ReqInv(rows', Advance(r, j, "ok", Nil))
  BY <1>2, <1>9, <1>10, AdvanceOK DEF TxnStates
<1> QED BY <1>1, <1>2, <1>8, <1>11, OneMoves

\* The step TxnCreate preserves the invariant.
LEMMA TxnCreateInv == ASSUME IInv, NEW p \in Procs, TxnCreate(p) PROVE IInv'
<1> DEFINE r == req[p]
           row(j) == NewRow(r.user, r.page[j], r.folder)
<1>1. PICK j \in DOMAIN r.txn :
        /\ InTxn(r, j, "create")
        /\ \/ /\ UniqueViolation(row(j))
              /\ Set(p, Reject(r, j))
              /\ UNCHANGED rows
           \/ /\ ~UniqueViolation(row(j))
              /\ InsertRow(row(j))
              /\ Set(p, Advance(r, j, "ok", Nil))
  BY DEF TxnCreate
<1>2. r.pc \in {"txns", "drain"} /\ cfg' = cfg /\ ReqOK(r) /\ ReqInv(rows, r)
  BY <1>1, Moving DEF InTxn, TxnCreate
<1>3. CASE UniqueViolation(row(j)) /\ Set(p, Reject(r, j)) /\ UNCHANGED rows
  <2>1. ReqOK(Reject(r, j)) /\ ReqInv(rows, Reject(r, j)) BY <1>2, RejectOK
  <2> QED BY <1>2, <1>3, <2>1, Waits
<1>4. CASE ~UniqueViolation(row(j)) /\ InsertRow(row(j)) /\ Set(p, Advance(r, j, "ok", Nil))
  <2>1. /\ j \in DOMAIN r.page /\ r.page[j].mid # Nil /\ r.folder \in Folders
        /\ r.user \in Users
    BY <1>2 DEF ReqInv, ReqOK
  <2>2. r.page[j] \in Item BY <1>2, <2>1, PageOfReq
  <2>3. row(j) \in Row /\ row(j).user = r.user /\ row(j).mid = r.page[j].mid
    BY <2>1, <2>2, NewRowOK
  <2> HIDE DEF row
  <2>4. TableOK(rows') /\ Keeps(rows, rows') /\ Has(rows', r.user, r.page[j].mid)
    BY <1>4, <2>3, InsertRowOK
  <2>5. ReqInv(rows', r) BY <1>2, <2>4, KeepsReqInv
  <2>6. ReqOK(Advance(r, j, "ok", Nil)) /\ ReqInv(rows', Advance(r, j, "ok", Nil))
    BY <1>2, <2>4, <2>5, AdvanceOK DEF TxnStates
  <2> QED BY <1>2, <1>4, <2>4, <2>6, OneMoves
<1> QED BY <1>1, <1>3, <1>4

\* The step TxnAll preserves the invariant.
LEMMA TxnAllInv == ASSUME IInv, NEW p \in Procs, TxnAll(p) PROVE IInv'
<1> DEFINE r == req[p]
           s == [r EXCEPT !.pc = "readback"]
<1>1. /\ r.pc = "txns" /\ \A j \in DOMAIN r.txn : r.txn[j].st = "ok"
      /\ Set(p, s) /\ UNCHANGED <<rows, cfg>> /\ ReqOK(r) /\ ReqInv(rows, r)
  BY Moving DEF TxnAll
<1>2. AllHeld(rows, r) BY <1>1 DEF AllHeld, ReqInv
<1>3. /\ SameCall(r, s) /\ s.pc = "readback" /\ s.k = r.k /\ s.page = r.page
      /\ s.txn = r.txn /\ s.id = r.id /\ s.resp = r.resp
  BY <1>1 DEF ReqOK, Idle, SameCall
<1> HIDE DEF s
<1>4. ReqOK(s) BY <1>1, <1>3, ProgressOK DEF ReqOK, PCs
<1>5. ReqInv(rows, s) BY <1>1, <1>2, <1>3 DEF ReqInv, SameCall, AllHeld
<1> QED BY <1>1, <1>4, <1>5, Waits

\* The step DetailsFind preserves the invariant.
LEMMA DetailsFindInv == ASSUME IInv, NEW p \in Procs, DetailsFind(p) PROVE IInv'
<1> DEFINE r    == req[p]
           hits == Stored(r.user, r.page[1].mid)
           miss == [r EXCEPT !.pc = "detailsCreate"]
           hit(id) == [r EXCEPT !.pc = "detailsUpdate", !.id = id]
<1>1. /\ r.pc = "details" /\ UNCHANGED <<rows, cfg>> /\ ReqOK(r) /\ ReqInv(rows, r)
      /\ \/ Set(p, miss)
         \/ \E id \in hits : Set(p, hit(id))
  BY Moving DEF DetailsFind
<1>2. CASE Set(p, miss)
  <2>1. /\ SameCall(r, miss) /\ miss.pc = "detailsCreate" /\ miss.k = r.k
        /\ miss.page = r.page /\ miss.txn = r.txn /\ miss.id = r.id /\ miss.resp = r.resp
    BY <1>1 DEF ReqOK, Idle, SameCall
  <2> HIDE DEF miss
  <2>2. ReqOK(miss) BY <1>1, <2>1, ProgressOK DEF ReqOK, PCs
  <2>3. ReqInv(rows, miss) BY <1>1, <2>1 DEF ReqInv, SameCall, AllHeld
  <2> QED BY <1>1, <1>2, <2>2, <2>3, Waits
<1>3. ASSUME NEW id \in hits, Set(p, hit(id)) PROVE IInv'
  <2>1. id \in Ids /\ Holds(rows, id, r.user, r.page[1].mid) BY DEF Stored, Holds
  <2> DEFINE s == hit(id)
  <2>2. /\ SameCall(r, s) /\ s.pc = "detailsUpdate" /\ s.k = r.k
        /\ s.page = r.page /\ s.txn = r.txn /\ s.id = id /\ s.resp = r.resp
    BY <1>1 DEF ReqOK, Idle, SameCall
  <2>3. Set(p, s) BY <1>3
  <2> HIDE DEF s
  <2>4. ReqOK(s) BY <1>1, <2>1, <2>2, ProgressOK DEF ReqOK, PCs
  <2>5. ReqInv(rows, s) BY <1>1, <2>1, <2>2 DEF ReqInv, SameCall, AllHeld
  <2> QED BY <1>1, <2>3, <2>4, <2>5, Waits
<1> QED BY <1>1, <1>2, <1>3

\* A response that goes out together with a write of the table.
LEMMA AnswersWrite ==
  ASSUME IInv, NEW p \in Procs, req[p].pc # "idle", cfg' = cfg,
         TableOK(rows'), Keeps(rows, rows'),
         NEW resp \in Responses, NEW got, Own(rows', got, req[p].user), NEW raw \in BOOLEAN,
         Set(p, Answer(req[p], resp, got, raw)),
         resp = "ok" /\ req[p].kind \in {"pop3", "graph", "details"} => AllHeld(rows', req[p])
  PROVE  IInv'
<1>1. /\ ReqOK(Answer(req[p], resp, got, raw))
      /\ ReqInv(rows', Answer(req[p], resp, got, raw))
  BY Moving, AnswerOK DEF ReqInv
<1> QED BY <1>1, OneMoves

\* The step DetailsUpdate preserves the invariant.
LEMMA DetailsUpdateInv == ASSUME IInv, NEW p \in Procs, DetailsUpdate(p) PROVE IInv'
<1> DEFINE r   == req[p]
           row == [rows[r.id] EXCEPT !.read = TRUE]
<1>1. /\ r.pc = "detailsUpdate" /\ cfg' = cfg /\ rows' = [rows EXCEPT ![r.id].read = TRUE]
      /\ Set(p, Answer(r, "ok", {r.id}, FALSE)) /\ ReqInv(rows, r) /\ TableOK(rows)
  BY Moving DEF DetailsUpdate
<1>2. Holds(rows, r.id, r.user, r.page[1].mid) /\ DOMAIN r.page = {1} BY <1>1 DEF ReqInv
<1>3. r.id \in Ids /\ rows[r.id] # Nil /\ rows[r.id] \in Row BY <1>1, <1>2 DEF Holds, TableOK
<1>4. row \in Row /\ row.user = rows[r.id].user /\ row.mid = rows[r.id].mid
  BY <1>3 DEF Row
<1>5. rows' = [rows EXCEPT ![r.id] = row] BY <1>1
<1> HIDE DEF row
<1>6. TableOK(rows') /\ Keeps(rows, rows')
  <2> DEFINE t == [rows EXCEPT ![r.id] = row]
  <2>1. TableOK(t) /\ Keeps(rows, t) BY <1>1, <1>3, <1>4, EditTable
  <2> QED BY <2>1, <1>5
<1>7. AllHeld(rows', r)
  <2>1. Has(rows, r.user, r.page[1].mid) BY <1>2 DEF Holds, Has
  <2>2. Has(rows', r.user, r.page[1].mid) BY <2>1, <1>6, KeepsHas
  <2> QED BY <2>2, <1>2 DEF AllHeld
<1>8. Own(rows', {r.id}, r.user) BY <1>2, <1>6 DEF Holds, Keeps, Own
<1> QED BY <1>1, <1>6, <1>7, <1>8, AnswersWrite DEF Responses

\* The step DetailsCreate preserves the invariant.
LEMMA DetailsCreateInv == ASSUME IInv, NEW p \in Procs, DetailsCreate(p) PROVE IInv'
<1> DEFINE r      == req[p]
           row(f) == NewRow(r.user, r.page[1], f)
<1>1. r.pc = "detailsCreate" /\ cfg' = cfg /\ ReqOK(r) /\ ReqInv(rows, r) /\ TableOK(rows)
  BY Moving DEF DetailsCreate
<1>2. PICK f \in Folders, id \in Ids :
        \/ /\ UniqueViolation(row(f))
           /\ Set(p, Answer(r, "error", {}, FALSE))
           /\ UNCHANGED rows
        \/ /\ ~UniqueViolation(row(f))
           /\ rows[id] = Nil
           /\ rows' = [rows EXCEPT ![id] = row(f)]
           /\ Set(p, Answer(r, "ok", {id}, FALSE))
  BY DEF DetailsCreate
<1>3. CASE Set(p, Answer(r, "error", {}, FALSE)) /\ UNCHANGED rows
  BY <1>1, <1>3, Answers, OwnNone DEF Responses
<1>4. CASE /\ ~UniqueViolation(row(f)) /\ rows[id] = Nil
           /\ rows' = [rows EXCEPT ![id] = row(f)]
           /\ Set(p, Answer(r, "ok", {id}, FALSE))
  <2>1. DOMAIN r.page = {1} /\ r.page[1].mid # Nil /\ r.user \in Users
    BY <1>1 DEF ReqInv, ReqOK
  <2>2. r.page[1] \in Item BY <1>1, <2>1, PageOfReq
  <2>3. row(f) \in Row /\ row(f).user = r.user /\ row(f).mid = r.page[1].mid
    BY <2>1, <2>2, NewRowOK
  <2> HIDE DEF row
  <2>4. ~Has(rows, row(f).user, row(f).mid) BY <1>4, StoredHas DEF UniqueViolation
  <2>5. TableOK(rows') /\ Keeps(rows, rows') /\ Has(rows', r.user, r.page[1].mid)
    BY <1>1, <1>4, <2>3, <2>4, InsertTable
  <2>6. AllHeld(rows', r) BY <2>1, <2>5 DEF AllHeld
  <2>7. Own(rows', {id}, r.user)
    <3>1. row(f) # Nil BY <2>3, NilAssumption
    <3>2. rows'[id] = row(f) BY <1>1, <1>4 DEF TableOK
    <3> QED BY <3>1, <3>2, <2>3 DEF Own
  <2> QED BY <1>1, <1>4, <2>5, <2>6, <2>7, AnswersWrite DEF Responses
<1> QED BY <1>2, <1>3, <1>4

\* The step MarkUpdate preserves the invariant.
LEMMA MarkUpdateInv == ASSUME IInv, NEW p \in Procs, MarkUpdate(p) PROVE IInv'
<1> DEFINE r == req[p]
<1>1. /\ r.pc = "mark" /\ cfg' = cfg /\ rows' = [rows EXCEPT ![r.id] = Marked(r)]
      /\ Set(p, Answer(r, "ok", {r.id}, FALSE)) /\ ReqInv(rows, r) /\ TableOK(rows)
  BY Moving DEF MarkUpdate
<1>2. /\ r.kind \in {"read", "delete", "move"}
      /\ r.kind = "move" => r.folder \in Folders
      /\ r.id \in Ids /\ rows[r.id] # Nil /\ Own(rows, {r.id}, r.user)
  BY <1>1 DEF ReqInv, Own
<1>3. rows[r.id] \in Row BY <1>1, <1>2 DEF TableOK
<1>4. /\ Marked(r) \in Row /\ Marked(r).user = rows[r.id].user
      /\ Marked(r).mid = rows[r.id].mid
  <2>1. CASE r.kind = "read" BY <1>3, <2>1 DEF Marked, Row
  <2>2. CASE r.kind = "delete" BY <1>3, <2>2 DEF Marked, Row
  <2>3. CASE r.kind = "move" BY <1>2, <1>3, <2>3 DEF Marked, Row
  <2> QED BY <1>2, <2>1, <2>2, <2>3
<1>5. TableOK(rows') /\ Keeps(rows, rows') BY <1>1, <1>2, <1>4, EditTable
<1>6. r.kind \notin {"pop3", "graph", "details"} BY <1>2
<1>7. "ok" \in Responses /\ Own(rows', {r.id}, r.user)
  BY <1>2, <1>5 DEF Responses, Own, Keeps
<1> QED BY <1>1, <1>5, <1>6, <1>7, AnswersWrite

\* The step DbFails preserves the invariant.
LEMMA DbFailsInv == ASSUME IInv, NEW p \in Procs, DbFails(p) PROVE IInv'
<1> DEFINE r == req[p]
<1>1. UNCHANGED <<rows, cfg>> /\ ReqOK(r) /\ ReqInv(rows, r) BY Moving DEF DbFails
<1>2. CASE r.pc \in {"save", "create", "readback"} /\ Set(p, SaveFailed(r))
  BY <1>1, <1>2, SaveFailedInv
<1>3. ASSUME NEW j \in DOMAIN r.txn, NEW st, InTxn(r, j, st), Set(p, Reject(r, j)) PROVE IInv'
  <2>1. ReqOK(Reject(r, j)) /\ ReqInv(rows, Reject(r, j)) BY <1>1, <1>3, RejectOK DEF InTxn
  <2> QED BY <1>1, <1>3, <2>1, Waits
<1>4. CASE /\ r.pc \in {"details", "detailsUpdate", "detailsCreate", "mark"}
           /\ Set(p, Answer(r, "error", {}, FALSE))
  BY <1>1, <1>4, Answers, OwnNone DEF Responses
<1> QED BY <1>2, <1>3, <1>4 DEF DbFails, Saving

\* The step Retire preserves the invariant.
LEMMA RetireInv == ASSUME IInv, NEW p \in Procs, Retire(p) PROVE IInv'
BY IdleOK, Waits DEF Retire

\* The step UpdateConfig preserves the invariant.
LEMMA UpdateConfigInv == ASSUME IInv, NEW u \in Users, UpdateConfig(u) PROVE IInv'
<1>1. UNCHANGED <<rows, req>> /\ cfg' \in [Users -> SUBSET Providers]
  BY DEF UpdateConfig, IInv, TypeOK
<1>2. TypeOK' BY <1>1 DEF IInv, TypeOK, ReqOK
<1> QED BY <1>1, <1>2 DEF IInv, Unique, ReqInv

\* The step Restart preserves the invariant.
LEMMA RestartInv == ASSUME IInv, Restart PROVE IInv'
<1>1. UNCHANGED <<rows, cfg>> /\ req' = [p \in Procs |-> Idle] BY DEF Restart
<1>2. \A p \in Procs : ReqOK(req'[p]) /\ ReqInv(rows', req'[p]) BY <1>1, IdleOK
<1>3. TypeOK'
  <2>1. (\A p \in Procs : ReqOK(req[p]))' BY <1>2 DEF ReqOK
  <2> QED BY <1>1, <2>1 DEF IInv, TypeOK
<1> QED BY <1>1, <1>2, <1>3 DEF IInv, Unique, ReqInv

-----------------------------------------------------------------------------
(* The theorems *)

\* The empty table and the idle server satisfy the invariant.
LEMMA InitInv == ASSUME Init PROVE IInv
<1>1. TypeOK
  <2>1. \A p \in Procs : ReqOK(req[p]) BY IdleOK DEF Init
  <2> QED BY <2>1 DEF Init, TypeOK
<1>2. Unique(rows) BY DEF Init, Unique
<1>3. \A p \in Procs : ReqInv(rows, req[p]) BY IdleOK DEF Init
<1> QED BY <1>1, <1>2, <1>3 DEF IInv

\* Every step of the server preserves the invariant.
LEMMA NextInv == ASSUME IInv, [Next]_vars PROVE IInv'
<1>1. ASSUME NEW p \in Procs, Arrive(p) PROVE IInv'
  BY <1>1, FetchEmailsInv, GraphEmailsInv, GetEmailByIdInv, GetEmailDetailsInv, MarkFindInv
  DEF Arrive
<1>2. ASSUME NEW p \in Procs, Step(p) PROVE IInv'
  BY <1>2, OpenFailsInv, OpenImapInv, OpenPop3Inv, OpenGraphInv, SaveSkipInv, SaveFindInv,
     SaveCreateInv, SaveDoneInv, ReadBackInv, TxnFindInv, TxnUpdateInv, TxnCreateInv,
     TxnAllInv, GetEmailByIdFallbackInv, DetailsFindInv, DetailsUpdateInv, DetailsCreateInv,
     MarkUpdateInv, DbFailsInv, RetireInv
  DEF Step
<1>3. CASE UNCHANGED vars
  <2>1. TypeOK' BY <1>3 DEF vars, IInv, TypeOK, ReqOK
  <2> QED BY <1>3, <2>1 DEF vars, IInv, Unique, ReqInv
<1> QED BY <1>1, <1>2, <1>3, UpdateConfigInv, RestartInv DEF Next

\* IInv holds in every reachable state of every instance.
THEOREM Invariant == Spec => []IInv
BY InitInv, NextInv, PTL DEF Spec

\* The tables and the requests of the server always have their shape.
THEOREM TypeCorrect == Spec => []TypeOK
<1>1. IInv => TypeOK BY DEF IInv
<1> QED BY <1>1, Invariant, PTL

\* However many requests save the same mailbox at once, with failures and
\* restarts in between, a user never has two copies of a message.
THEOREM NoDuplicateMail == Spec => []OneRowPerMessage
<1>1. IInv => OneRowPerMessage BY DEF IInv, Unique, OneRowPerMessage
<1> QED BY <1>1, Invariant, PTL

\* A POP3 or Graph fetch, or a details request, that answered success has
\* stored its page: no message of it is lost between the server and the table.
THEOREM SuccessMeansStored == Spec => []StoredOnOk
<1>1. IInv => StoredOnOk
  <2> SUFFICES ASSUME IInv, NEW p \in Procs, req[p].resp = "ok",
                      req[p].kind \in {"pop3", "graph", "details"},
                      NEW m \in MidsOf(req[p].page)
               PROVE  Stored(req[p].user, m) # {}
    BY DEF StoredOnOk
  <2>1. AllHeld(rows, req[p]) BY DEF IInv, ReqInv
  <2>2. Has(rows, req[p].user, m) BY <2>1 DEF MidsOf, AllHeld
  <2> QED BY <2>2, StoredHas
<1> QED BY <1>1, Invariant, PTL

\* A request never returns a row of another user, nor one that is not there.
THEOREM OnlyOwnMail == Spec => []ReturnsOwnMail
<1>1. IInv => ReturnsOwnMail BY DEF IInv, ReqInv, Own, ReturnsOwnMail
<1> QED BY <1>1, Invariant, PTL

=============================================================================
