------------------------ MODULE UserDirectoryProofs ------------------------
(***************************************************************************)
(* Proofs about UserDirectory, for every number of requests, accounts,     *)
(* emails and Microsoft identities, with or without failures and chaos:    *)
(* the type invariant, one active account per email, what a cache entry    *)
(* may say, what can leave one stale, and that removals stand; and for     *)
(* requests one at a time, that the cache is invalidated in time.          *)
(***************************************************************************)
EXTENDS UserDirectory, TLAPS

\* Facts about a table t given as a value, so that they can be stated for the
\* table before and after a step.
ActiveIn(t, i) == t[i] # Nil /\ ~t[i].deleted

OnePerEmail(t) ==
  \A i, j \in Ids : ActiveIn(t, i) /\ ActiveIn(t, j) /\ t[i].email = t[j].email => i = j

TableOK(t) == t \in [Ids -> Account \cup {Nil}] /\ OnePerEmail(t)

\* No account disappears from the table: removal is a flag.
Keeps(t, s) == \A i \in Ids : t[i] # Nil => s[i] # Nil

\* What a factory returned for a key, now or at any time before.
EntryOK(t, key, v) ==
  /\ key[1] = "id" => /\ v \in Snapshot /\ v.id = key[2] /\ ~v.deleted /\ v.pw = Nil
                      /\ v # Nil /\ t[key[2]] # Nil
  /\ key[1] = "email" => v = Nil \/ (v \in Snapshot /\ v.email = key[2] /\ ~v.deleted)
  /\ key[1] = "ms" => v = Nil \/ (v \in Snapshot /\ v.ms = key[2] /\ ~v.deleted)
  /\ key[1] = "all" => v \subseteq Snapshot /\ \A a \in v : ~a.deleted /\ a.pw = Nil

CacheOK(t, c) ==
  DOMAIN c = Keys /\ \A key \in Keys : c[key] = Missing \/ EntryOK(t, key, c[key])

Reading == {"lookup", "load", "fill"}

\* The key a request asks the cache for belongs to its operation.
Asks(r) ==
  \/ r.op \in {"findOne", "update", "remove"} /\ r.id \in Ids /\ r.key = IdKey(r.id)
  \/ r.op \in {"findByEmail", "login"} /\ r.email \in Emails /\ r.key = EmailKey(r.email)
  \/ r.op = "findAll" /\ r.key = AllKey
  \/ /\ r.op = "msLogin"
     /\ \/ r.ms \in MsIds /\ r.key = MsKey(r.ms)
        \/ r.key = EmailKey(r.email)
        \/ r.id \in Ids /\ r.key = IdKey(r.id)

\* What a request in the middle of its handler knows.
ReqInv(t, r) ==
  /\ r.pc \in Reading => Asks(r)
  /\ r.pc = "fill" => EntryOK(t, r.key, r.val)
  /\ r.op = "msLogin" => r.email \in Emails /\ r.pw \in Pws
  /\ r.pc = "write" => /\ r.op \in {"update", "remove", "msLogin", "config"}
                       /\ r.id \in Ids /\ t[r.id] # Nil
                       /\ r.op # "config" => /\ r.val \in Snapshot /\ r.val.id = r.id
                                             /\ ~r.val.deleted
  /\ r.pc \in {"check", "insert"} => /\ r.op \in {"create", "msLogin"}
                                     /\ r.email \in Emails /\ r.pw \in Pws
  /\ r.pc = "inval" => r.todo \in Seq(Keys) /\ r.todo # <<>>

RedisOK == redis \in [on : BOOLEAN, chaos : {"never", "sometimes", "always"}]

\* The inductive invariant.
IInv ==
  /\ TableOK(users)
  /\ CacheOK(users, cache)
  /\ RedisOK
  /\ DOMAIN req = Procs /\ \A p \in Procs : ReqOK(req[p]) /\ ReqInv(users, req[p])

-----------------------------------------------------------------------------
(* Keys and entries *)

\* A key is of one of four kinds.
LEMMA KeyKinds ==
  ASSUME NEW key \in Keys
  PROVE  \/ key[1] = "id" /\ key[2] \in Ids /\ key = IdKey(key[2])
         \/ key[1] = "email" /\ key[2] \in Emails /\ key = EmailKey(key[2])
         \/ key[1] = "ms" /\ key[2] \in MsIds /\ key = MsKey(key[2])
         \/ key[1] = "all" /\ key = AllKey
BY DEF Keys, IdKey, EmailKey, MsKey, AllKey

LEMMA KeysOf ==
  /\ \A i \in Ids : IdKey(i) \in Keys /\ IdKey(i)[1] = "id" /\ IdKey(i)[2] = i
  /\ \A e \in Emails : EmailKey(e) \in Keys /\ EmailKey(e)[1] = "email" /\ EmailKey(e)[2] = e
  /\ \A m \in MsIds : MsKey(m) \in Keys /\ MsKey(m)[1] = "ms" /\ MsKey(m)[2] = m
  /\ AllKey \in Keys /\ AllKey[1] = "all"
BY DEF Keys, IdKey, EmailKey, MsKey, AllKey

\* What an account looks like to a query.
LEMMA PublicIs ==
  ASSUME TableOK(users), NEW i \in Active
  PROVE  /\ Full(i) \in Snapshot /\ Full(i).id = i /\ ~Full(i).deleted
         /\ Full(i).email = users[i].email /\ Full(i).ms = users[i].ms
         /\ Public(i) \in Snapshot /\ Public(i).id = i /\ ~Public(i).deleted
         /\ Public(i).pw = Nil
<1>1. i \in Ids /\ users[i] \in Account /\ users[i] # Nil /\ ~users[i].deleted
  BY DEF Active, TableOK
<1> QED BY <1>1 DEF Full, Public, Snapshot, Account

\* A query's result is a sound entry; only the one for an id can find nothing and throw.
LEMMA QueryOK ==
  ASSUME TableOK(users), NEW key \in Keys, NEW v \in Query(key)
  PROVE  (key[1] = "id" /\ v = Nil) \/ EntryOK(users, key, v)
<1>1. CASE key[1] = "id" /\ key[2] \in Active /\ v # Nil
  <2>1. v = Public(key[2]) BY <1>1 DEF Query
  <2>2. users[key[2]] # Nil BY <1>1 DEF Active
  <2> QED BY <1>1, <2>1, <2>2, PublicIs DEF EntryOK
<1>2. CASE key[1] = "id" /\ (key[2] \notin Active \/ v = Nil)
  BY <1>2 DEF Query
<1>3. CASE key[1] = "email"
  <2>1. v \in FirstOf({i \in Active : users[i].email = key[2]}) BY <1>3 DEF Query
  <2>2. v = Nil \/ \E i \in Active : users[i].email = key[2] /\ v = Full(i)
    BY <2>1 DEF FirstOf
  <2> QED BY <1>3, <2>2, PublicIs DEF EntryOK
<1>4. CASE key[1] = "ms"
  <2>1. v \in FirstOf({i \in Active : users[i].ms = key[2]}) BY <1>4 DEF Query
  <2>2. v = Nil \/ \E i \in Active : users[i].ms = key[2] /\ v = Full(i)
    BY <2>1 DEF FirstOf
  <2> QED BY <1>4, <2>2, PublicIs DEF EntryOK
<1>5. CASE key[1] = "all"
  <2>1. v = {Public(i) : i \in Active} BY <1>5 DEF Query
  <2> QED BY <1>5, <2>1, PublicIs DEF EntryOK
<1> QED BY <1>1, <1>2, <1>3, <1>4, <1>5, KeyKinds

\* A sound entry has the type of its key's values.
LEMMA EntryType ==
  ASSUME NEW t, NEW key \in Keys, NEW v, EntryOK(t, key, v)
  PROVE  IF key = AllKey THEN v \subseteq Snapshot ELSE v \in Snapshot \cup {Nil}
BY KeyKinds, KeysOf DEF EntryOK

\* Entries and requests stay sound while accounts only change.
LEMMA KeepsEntry ==
  ASSUME NEW t, NEW s, Keeps(t, s), NEW key \in Keys, NEW v, EntryOK(t, key, v)
  PROVE  EntryOK(s, key, v)
BY KeyKinds DEF EntryOK, Keeps

LEMMA KeepsCache ==
  ASSUME NEW t, NEW s, Keeps(t, s), NEW c, CacheOK(t, c)
  PROVE  CacheOK(s, c)
BY KeepsEntry DEF CacheOK

LEMMA KeepsReq ==
  ASSUME NEW t, NEW s, Keeps(t, s), NEW r, ReqOK(r), ReqInv(t, r)
  PROVE  ReqInv(s, r)
<1>1. r.key \in Keys BY DEF ReqOK
<1>2. EntryOK(t, r.key, r.val) => EntryOK(s, r.key, r.val) BY <1>1, KeepsEntry
<1>3. r.id \in Ids /\ t[r.id] # Nil => s[r.id] # Nil BY DEF Keeps
<1> QED BY <1>2, <1>3 DEF ReqInv

LEMMA KeepsRefl == ASSUME NEW t PROVE Keeps(t, t)
BY DEF Keeps

\* A new account under an email no active account has.
LEMMA InsertTable ==
  ASSUME NEW t, TableOK(t), NEW i \in Ids, t[i] = Nil, NEW row \in Account,
         \A j \in Ids : ActiveIn(t, j) => t[j].email # row.email
  PROVE  LET s == [t EXCEPT ![i] = row] IN TableOK(s) /\ Keeps(t, s)
<1> DEFINE s == [t EXCEPT ![i] = row]
<1>1. row # Nil BY AccountAssumption
<1>2. s \in [Ids -> Account \cup {Nil}] BY DEF TableOK
<1>3. \A a \in Ids : s[a] = IF a = i THEN row ELSE t[a] BY DEF TableOK
<1>4. OnePerEmail(s) BY <1>1, <1>3 DEF OnePerEmail, TableOK, ActiveIn
<1>5. Keeps(t, s) BY <1>1, <1>3 DEF Keeps
<1> QED BY <1>2, <1>4, <1>5 DEF TableOK

\* Another value for an account, which if active has no one's email.
LEMMA EditTable ==
  ASSUME NEW t, TableOK(t), NEW i \in Ids, NEW row \in Account,
         ~row.deleted => \A j \in Ids \ {i} : ActiveIn(t, j) => t[j].email # row.email
  PROVE  LET s == [t EXCEPT ![i] = row] IN TableOK(s) /\ Keeps(t, s)
<1> DEFINE s == [t EXCEPT ![i] = row]
<1>1. row # Nil BY AccountAssumption
<1>2. s \in [Ids -> Account \cup {Nil}] BY DEF TableOK
<1>3. \A a \in Ids : s[a] = IF a = i THEN row ELSE t[a] BY DEF TableOK
<1>4. OnePerEmail(s) BY <1>1, <1>3 DEF OnePerEmail, TableOK, ActiveIn
<1>5. Keeps(t, s) BY <1>1, <1>3 DEF Keeps
<1> QED BY <1>2, <1>4, <1>5 DEF TableOK

-----------------------------------------------------------------------------
(* Requests *)

\* The fields of a request, as facts.
LEMMA IdleOK ==
  ASSUME NEW t
  PROVE  ReqOK(Idle) /\ ReqInv(t, Idle)
<1>1. ReqOK(Idle) BY KeysOf DEF ReqOK, Idle, AllOps, PCs, Responses
<1>2. ReqInv(t, Idle) BY DEF ReqInv, Idle, Reading
<1> QED BY <1>1, <1>2

\* A response of the type the operation returns.
LEMMA AnswerOK ==
  ASSUME NEW t, NEW r, ReqOK(r), r.op = "msLogin" => r.email \in Emails /\ r.pw \in Pws,
         NEW resp \in Responses, NEW v,
         IF r.op = "findAll" THEN v = Nil \/ v \subseteq Snapshot ELSE v \in Snapshot \cup {Nil}
  PROVE  ReqOK(Answer(r, resp, v)) /\ ReqInv(t, Answer(r, resp, v))
<1> DEFINE a == Answer(r, resp, v)
<1>1. /\ a.pc = "done" /\ a.resp = resp /\ a.val = v /\ a.key = AllKey /\ a.fill = FALSE
      /\ a.todo = <<>> /\ a.op = r.op /\ a.id = r.id /\ a.email = r.email /\ a.pw = r.pw
      /\ a.ms = r.ms /\ DOMAIN a = DOMAIN r
  BY DEF Answer, ReqOK, Idle
<1> HIDE DEF a
<1>2. \A n \in DOMAIN a.todo : a.todo[n] \in Keys BY <1>1
<1>3. a.fill \in BOOLEAN BY <1>1
<1>4. ReqOK(a) BY <1>1, <1>2, <1>3, KeysOf DEF ReqOK, PCs
<1>5. ReqInv(t, a) BY <1>1 DEF ReqInv, Reading
<1> QED BY <1>4, <1>5 DEF a

\* A request that asks the cache.
LEMMA GetOrSetOK ==
  ASSUME NEW t, NEW r, ReqOK(r), NEW key \in Keys,
         r.op = "msLogin" => r.email \in Emails /\ r.pw \in Pws,
         Asks(GetOrSet(r, key))
  PROVE  ReqOK(GetOrSet(r, key)) /\ ReqInv(t, GetOrSet(r, key))
<1> DEFINE a == GetOrSet(r, key)
<1>1. /\ a.pc = "lookup" /\ a.resp = r.resp /\ a.val = Nil /\ a.key = key /\ a.fill = r.fill
      /\ a.todo = r.todo /\ a.op = r.op /\ a.id = r.id /\ a.email = r.email /\ a.pw = r.pw
      /\ a.ms = r.ms /\ DOMAIN a = DOMAIN r
  BY DEF GetOrSet, ReqOK, Idle
<1>2. ReqOK(a) BY <1>1 DEF ReqOK, PCs
<1>3. ReqInv(t, a) BY <1>1 DEF ReqInv, Reading
<1> QED BY <1>2, <1>3

\* Only the position of a request in its handler changes, and the value it carries.
At(r, pc, v) == [r EXCEPT !.pc = pc, !.val = v]

LEMMA MoveOK ==
  ASSUME NEW r, ReqOK(r), NEW pc \in PCs, NEW v,
         IF r.key = AllKey /\ r.op = "findAll" THEN v = Nil \/ v \subseteq Snapshot
         ELSE v \in Snapshot \cup {Nil}
  PROVE  LET a == At(r, pc, v) IN
         /\ ReqOK(a) /\ a.pc = pc /\ a.val = v /\ a.op = r.op /\ a.id = r.id
         /\ a.email = r.email /\ a.pw = r.pw /\ a.ms = r.ms /\ a.key = r.key
<1> DEFINE a == At(r, pc, v)
<1>1. /\ a.pc = pc /\ a.resp = r.resp /\ a.val = v /\ a.key = r.key /\ a.fill = r.fill
      /\ a.todo = r.todo /\ a.op = r.op /\ a.id = r.id /\ a.email = r.email /\ a.pw = r.pw
      /\ a.ms = r.ms /\ DOMAIN a = DOMAIN r
  BY DEF At, ReqOK, Idle
<1>2. ReqOK(a) BY <1>1 DEF ReqOK
<1> QED BY <1>1, <1>2

\* One request moves on, perhaps writing a row or the cache: what is left to show.
LEMMA OneMoves ==
  ASSUME IInv, NEW p \in Procs, NEW r, Set(p, r),
         TableOK(users'), Keeps(users, users'), CacheOK(users', cache'), redis' = redis,
         ReqOK(r), ReqInv(users', r)
  PROVE  IInv'
<1>1. DOMAIN req' = Procs /\ \A q \in Procs : req'[q] = IF q = p THEN r ELSE req[q]
  BY DEF Set, IInv
<1>2. \A q \in Procs : ReqOK(req'[q]) BY <1>1 DEF IInv
<1>3. \A q \in Procs : ReqInv(users', req'[q])
  <2>1. TAKE q \in Procs
  <2>2. CASE q = p BY <1>1, <2>2
  <2>3. CASE q # p
    <3>1. req'[q] = req[q] /\ ReqOK(req[q]) /\ ReqInv(users, req[q]) BY <1>1, <2>3 DEF IInv
    <3> QED BY <3>1, KeepsReq
  <2> QED BY <2>2, <2>3
<1> QED BY <1>1, <1>2, <1>3 DEF IInv, RedisOK

\* The same for a step that leaves the two stores alone.
LEMMA OneThinks ==
  ASSUME IInv, NEW p \in Procs, NEW r, Set(p, r), UNCHANGED <<users, cache, redis>>,
         ReqOK(r), ReqInv(users, r)
  PROVE  IInv'
<1>1. TableOK(users') /\ Keeps(users, users') /\ CacheOK(users', cache')
  BY KeepsRefl DEF IInv
<1>2. ReqInv(users', r) OBVIOUS
<1> QED BY <1>1, <1>2, OneMoves

\* What the handler does with a sound result of its getOrSet.
LEMMA ResumeOK ==
  ASSUME NEW t, NEW r, ReqOK(r), ReqInv(t, r), r.pc \in Reading,
         NEW v, EntryOK(t, r.key, v)
  PROVE  ReqOK(Resume(r, v)) /\ ReqInv(t, Resume(r, v))
<1>1. Asks(r) /\ r.key \in Keys /\ (r.op = "msLogin" => r.email \in Emails /\ r.pw \in Pws)
  BY DEF ReqInv, ReqOK
<1>2. IF r.key = AllKey THEN v \subseteq Snapshot ELSE v \in Snapshot \cup {Nil}
  BY <1>1, EntryType
<1>3. r.op = "findAll" <=> r.key = AllKey
  BY <1>1, KeysOf DEF Asks, IdKey, EmailKey, MsKey, AllKey
<1>4. IF r.op = "findAll" THEN v \subseteq Snapshot ELSE v \in Snapshot \cup {Nil}
  BY <1>2, <1>3
<1>5. "ok" \in Responses /\ "unauthorized" \in Responses BY DEF Responses
<1>6. CASE r.op \in {"findOne", "findByEmail", "findAll"}
  <2>1. Resume(r, v) = Answer(r, "ok", v) BY <1>6 DEF Resume
  <2> QED BY <2>1, <1>1, <1>4, <1>5, AnswerOK
<1>7. CASE r.op = "login"
  <2>1. Resume(r, v) \in {Answer(r, "ok", v), Answer(r, "unauthorized", Nil)}
    BY <1>7 DEF Resume
  <2> QED BY <2>1, <1>1, <1>4, <1>5, <1>7, AnswerOK
<1>8. CASE r.op \in {"update", "remove"}
  <2>1. Resume(r, v) = At(r, "write", v) BY <1>8 DEF Resume, At
  <2>2. r.id \in Ids /\ r.key = IdKey(r.id) BY <1>1, <1>8 DEF Asks
  <2>3. v \in Snapshot /\ t[r.id] # Nil /\ v.id = r.id /\ ~v.deleted
    BY <2>2, KeysOf DEF EntryOK
  <2> DEFINE a == At(r, "write", v)
  <2>4. "write" \in PCs BY DEF PCs
  <2>5. /\ ReqOK(a) /\ a.pc = "write" /\ a.val = v /\ a.op = r.op /\ a.id = r.id
        /\ a.email = r.email /\ a.pw = r.pw /\ a.ms = r.ms /\ a.key = r.key
    BY <2>3, <2>4, <1>8, MoveOK
  <2> HIDE DEF a
  <2>6. ReqInv(t, a) BY <1>8, <2>2, <2>3, <2>5 DEF ReqInv, Reading
  <2> QED BY <2>1, <2>5, <2>6 DEF a
<1>9. CASE r.op = "msLogin"
  <2>1. v \in Snapshot \cup {Nil} /\ r.email \in Emails /\ r.pw \in Pws BY <1>1, <1>4, <1>9
  <2>2. CASE r.key[1] = "id"
    <3>1. Resume(r, v) = At(r, "write", v) BY <1>9, <2>2 DEF Resume, At
    <3>2. r.id \in Ids /\ r.key = IdKey(r.id)
      BY <1>1, <1>9, <2>1, <2>2, KeysOf DEF Asks
    <3>3. v \in Snapshot /\ t[r.id] # Nil /\ v.id = r.id /\ ~v.deleted
      BY <3>2, KeysOf DEF EntryOK
    <3> DEFINE a == At(r, "write", v)
    <3>4. "write" \in PCs BY DEF PCs
    <3>5. /\ ReqOK(a) /\ a.pc = "write" /\ a.val = v /\ a.op = r.op /\ a.id = r.id
          /\ a.email = r.email /\ a.pw = r.pw /\ a.ms = r.ms /\ a.key = r.key
      BY <3>3, <3>4, <1>9, MoveOK
    <3> HIDE DEF a
    <3>6. ReqInv(t, a) BY <1>9, <2>1, <3>2, <3>3, <3>5 DEF ReqInv, Reading
    <3> QED BY <3>1, <3>5, <3>6 DEF a
  <2>3. CASE r.key[1] # "id" /\ v # Nil
    <3> DEFINE ms == IF r.key[1] = "ms" THEN Nil ELSE r.ms
               b == [r EXCEPT !.id = v.id, !.ms = ms]
    <3>1. Resume(r, v) = GetOrSet(b, IdKey(v.id)) BY <1>9, <2>3 DEF Resume
    <3>2. v.id \in Ids /\ ms \in MsIds \cup {Nil} BY <2>1, <2>3 DEF Snapshot, ReqOK
    <3> HIDE DEF ms
    <3>3. /\ b.pc = r.pc /\ b.resp = r.resp /\ b.val = r.val /\ b.key = r.key /\ b.fill = r.fill
          /\ b.todo = r.todo /\ b.op = r.op /\ b.id = v.id /\ b.email = r.email /\ b.pw = r.pw
          /\ b.ms = ms /\ DOMAIN b = DOMAIN r
      BY DEF ReqOK, Idle
    <3> HIDE DEF b
    <3>4. ReqOK(b) BY <3>2, <3>3 DEF ReqOK
    <3>5. IdKey(v.id) \in Keys BY <3>2, KeysOf
    <3>6. LET a == GetOrSet(b, IdKey(v.id)) IN a.op = b.op /\ a.id = b.id /\ a.key = IdKey(v.id)
      BY <3>4 DEF GetOrSet, ReqOK, Idle
    <3>7. Asks(GetOrSet(b, IdKey(v.id))) BY <3>2, <3>3, <3>6, <1>9 DEF Asks
    <3> QED BY <2>1, <3>1, <3>3, <3>4, <3>5, <3>7, GetOrSetOK
  <2>4. CASE r.key[1] = "ms" /\ v = Nil
    <3>1. Resume(r, v) = GetOrSet(r, EmailKey(r.email)) BY <1>9, <2>4 DEF Resume
    <3>2. EmailKey(r.email) \in Keys BY <2>1, KeysOf
    <3>3. LET a == GetOrSet(r, EmailKey(r.email)) IN
          a.op = r.op /\ a.email = r.email /\ a.key = EmailKey(r.email)
      BY DEF GetOrSet, ReqOK, Idle
    <3>4. Asks(GetOrSet(r, EmailKey(r.email))) BY <3>3, <1>9 DEF Asks
    <3> QED BY <2>1, <3>1, <3>2, <3>4, GetOrSetOK
  <2>5. CASE r.key[1] \notin {"id", "ms"} /\ v = Nil
    <3>1. Resume(r, v) = At(r, "check", Nil) BY <1>9, <2>5 DEF Resume, At
    <3> DEFINE a == At(r, "check", Nil)
    <3>4. "check" \in PCs BY DEF PCs
    <3>5. /\ ReqOK(a) /\ a.pc = "check" /\ a.val = Nil /\ a.op = r.op /\ a.id = r.id
          /\ a.email = r.email /\ a.pw = r.pw /\ a.ms = r.ms /\ a.key = r.key
      BY <3>4, <1>9, MoveOK
    <3> HIDE DEF a
    <3>6. ReqInv(t, a) BY <1>9, <2>1, <3>5 DEF ReqInv, Reading
    <3> QED BY <3>1, <3>5, <3>6 DEF a
  <2> QED BY <2>2, <2>3, <2>4, <2>5
<1> QED BY <1>1, <1>6, <1>7, <1>8, <1>9 DEF Asks

-----------------------------------------------------------------------------
(* The initial state and the arrival of requests *)

LEMMA InitInv == ASSUME Init PROVE IInv
<1>1. TableOK(users)
  BY OpsAssumption DEF Init, TableOK, OnePerEmail, ActiveIn
<1>2. CacheOK(users, cache) BY DEF Init, CacheOK
<1>3. RedisOK BY DEF Init, RedisOK
<1>4. DOMAIN req = Procs /\ \A p \in Procs : ReqOK(req[p]) /\ ReqInv(users, req[p])
  BY IdleOK DEF Init
<1> QED BY <1>1, <1>2, <1>3, <1>4 DEF IInv

\* A call of an operation, before its first step.
Fresh(c) ==
  /\ DOMAIN c = DOMAIN Idle /\ c.pc \in {"idle", "check", "write"} /\ c.resp = "none"
  /\ c.val = Nil /\ c.key = AllKey /\ c.fill = FALSE /\ c.todo = <<>> /\ c.op \in AllOps
  /\ c.id \in Ids \cup {Nil} /\ c.email \in Emails \cup {Nil} /\ c.pw \in Pws \cup {Nil}
  /\ c.ms \in MsIds \cup {Nil}

LEMMA FreshOK == ASSUME NEW c, Fresh(c) PROVE ReqOK(c)
<1>1. \A n \in DOMAIN c.todo : c.todo[n] \in Keys BY DEF Fresh
<1>2. c.fill \in BOOLEAN BY DEF Fresh
<1> QED BY <1>1, <1>2, KeysOf DEF Fresh, ReqOK, PCs, Responses

\* A call that starts by asking the cache.
LEMMA AskingOK ==
  ASSUME IInv, NEW p \in Procs, NEW c, Fresh(c), NEW key \in Keys,
         c.op = "msLogin" => c.email \in Emails /\ c.pw \in Pws,
         \/ c.op \in {"findOne", "update", "remove"} /\ c.id \in Ids /\ key = IdKey(c.id)
         \/ c.op \in {"findByEmail", "login"} /\ c.email \in Emails /\ key = EmailKey(c.email)
         \/ c.op = "findAll" /\ key = AllKey
         \/ c.op = "msLogin" /\ c.ms \in MsIds /\ key = MsKey(c.ms),
         Set(p, GetOrSet(c, key)), UNCHANGED <<users, cache, redis>>
  PROVE  IInv'
<1>1. ReqOK(c) BY FreshOK
<1>2. LET a == GetOrSet(c, key) IN
      a.op = c.op /\ a.id = c.id /\ a.email = c.email /\ a.ms = c.ms /\ a.key = key
  BY <1>1 DEF GetOrSet, ReqOK, Idle
<1>3. Asks(GetOrSet(c, key)) BY <1>2 DEF Asks
<1>4. ReqOK(GetOrSet(c, key)) /\ ReqInv(users, GetOrSet(c, key)) BY <1>1, <1>3, GetOrSetOK
<1> QED BY <1>4, OneThinks

LEMMA FindOneInv == ASSUME IInv, NEW p \in Procs, FindOne(p) PROVE IInv'
<1>1. PICK i \in Ids : Set(p, GetOrSet([Call("findOne") EXCEPT !.id = i], IdKey(i)))
  BY DEF FindOne
<1> DEFINE c == [Call("findOne") EXCEPT !.id = i]
<1>2. Fresh(c) /\ c.op = "findOne" /\ c.id = i BY DEF Fresh, Call, Idle, AllOps
<1>3. Set(p, GetOrSet(c, IdKey(i))) BY <1>1
<1> HIDE DEF c
<1> QED BY <1>2, <1>3, KeysOf, AskingOK DEF FindOne

LEMMA FindByEmailInv == ASSUME IInv, NEW p \in Procs, FindByEmail(p) PROVE IInv'
<1>1. PICK e \in Emails :
        Set(p, GetOrSet([Call("findByEmail") EXCEPT !.email = e], EmailKey(e)))
  BY DEF FindByEmail
<1> DEFINE c == [Call("findByEmail") EXCEPT !.email = e]
<1>2. Fresh(c) /\ c.op = "findByEmail" /\ c.email = e BY DEF Fresh, Call, Idle, AllOps
<1>3. Set(p, GetOrSet(c, EmailKey(e))) BY <1>1
<1> HIDE DEF c
<1> QED BY <1>2, <1>3, KeysOf, AskingOK DEF FindByEmail

LEMMA FindAllInv == ASSUME IInv, NEW p \in Procs, FindAll(p) PROVE IInv'
<1> DEFINE c == Call("findAll")
<1>1. Fresh(c) /\ c.op = "findAll" BY DEF Fresh, Call, Idle, AllOps
<1>2. Set(p, GetOrSet(c, AllKey)) BY DEF FindAll
<1> HIDE DEF c
<1> QED BY <1>1, <1>2, KeysOf, AskingOK DEF FindAll

LEMMA UpdateInv == ASSUME IInv, NEW p \in Procs, Update(p) PROVE IInv'
<1>1. PICK i \in Ids, e \in Emails \cup {Nil}, w \in Pws \cup {Nil} :
        Set(p, GetOrSet([Call("update") EXCEPT !.id = i, !.email = e, !.pw = w], IdKey(i)))
  BY DEF Update
<1> DEFINE c == [Call("update") EXCEPT !.id = i, !.email = e, !.pw = w]
<1>2. Fresh(c) /\ c.op = "update" /\ c.id = i BY DEF Fresh, Call, Idle, AllOps
<1>3. Set(p, GetOrSet(c, IdKey(i))) BY <1>1
<1> HIDE DEF c
<1> QED BY <1>2, <1>3, KeysOf, AskingOK DEF Update

LEMMA RemoveInv == ASSUME IInv, NEW p \in Procs, Remove(p) PROVE IInv'
<1>1. PICK i \in Ids : Set(p, GetOrSet([Call("remove") EXCEPT !.id = i], IdKey(i)))
  BY DEF Remove
<1> DEFINE c == [Call("remove") EXCEPT !.id = i]
<1>2. Fresh(c) /\ c.op = "remove" /\ c.id = i BY DEF Fresh, Call, Idle, AllOps
<1>3. Set(p, GetOrSet(c, IdKey(i))) BY <1>1
<1> HIDE DEF c
<1> QED BY <1>2, <1>3, KeysOf, AskingOK DEF Remove

LEMMA LoginInv == ASSUME IInv, NEW p \in Procs, Login(p) PROVE IInv'
<1>1. PICK e \in Emails, w \in Pws :
        Set(p, GetOrSet([Call("login") EXCEPT !.email = e, !.pw = w], EmailKey(e)))
  BY DEF Login
<1> DEFINE c == [Call("login") EXCEPT !.email = e, !.pw = w]
<1>2. Fresh(c) /\ c.op = "login" /\ c.email = e BY DEF Fresh, Call, Idle, AllOps
<1>3. Set(p, GetOrSet(c, EmailKey(e))) BY <1>1
<1> HIDE DEF c
<1> QED BY <1>2, <1>3, KeysOf, AskingOK DEF Login

LEMMA MsLoginInv == ASSUME IInv, NEW p \in Procs, MsLogin(p) PROVE IInv'
<1>1. PICK e \in Emails, w \in Pws, m \in MsIds :
        Set(p, GetOrSet([Call("msLogin") EXCEPT !.email = e, !.pw = w, !.ms = m], MsKey(m)))
  BY DEF MsLogin
<1> DEFINE c == [Call("msLogin") EXCEPT !.email = e, !.pw = w, !.ms = m]
<1>2. Fresh(c) /\ c.op = "msLogin" /\ c.email = e /\ c.pw = w /\ c.ms = m
  BY DEF Fresh, Call, Idle, AllOps
<1>3. Set(p, GetOrSet(c, MsKey(m))) BY <1>1
<1> HIDE DEF c
<1> QED BY <1>2, <1>3, KeysOf, AskingOK DEF MsLogin

LEMMA CreateInv == ASSUME IInv, NEW p \in Procs, Create(p) PROVE IInv'
<1>1. PICK e \in Emails, w \in Pws :
        Set(p, [Call("create") EXCEPT !.pc = "check", !.email = e, !.pw = w])
  BY DEF Create
<1> DEFINE c == [Call("create") EXCEPT !.pc = "check", !.email = e, !.pw = w]
<1>2. Fresh(c) /\ c.op = "create" /\ c.pc = "check" /\ c.email = e /\ c.pw = w
  BY DEF Fresh, Call, Idle, AllOps
<1>3. Set(p, c) BY <1>1
<1> HIDE DEF c
<1>4. ReqInv(users, c) BY <1>2 DEF ReqInv, Reading
<1> QED BY <1>2, <1>3, <1>4, FreshOK, OneThinks DEF Create

LEMMA ConfigInv == ASSUME IInv, NEW p \in Procs, Config(p) PROVE IInv'
<1>1. PICK i \in Ids : users[i] # Nil /\ Set(p, [Call("config") EXCEPT !.pc = "write", !.id = i])
  BY DEF Config
<1> DEFINE c == [Call("config") EXCEPT !.pc = "write", !.id = i]
<1>2. Fresh(c) /\ c.op = "config" /\ c.pc = "write" /\ c.id = i
  BY DEF Fresh, Call, Idle, AllOps
<1>3. Set(p, c) BY <1>1
<1> HIDE DEF c
<1>4. ReqInv(users, c) BY <1>1, <1>2 DEF ReqInv, Reading
<1> QED BY <1>2, <1>3, <1>4, FreshOK, OneThinks DEF Config

-----------------------------------------------------------------------------
(* The steps of a request *)

\* What the invariant says of one request.
LEMMA ReqOf ==
  ASSUME IInv, NEW p \in Procs
  PROVE  /\ ReqOK(req[p]) /\ ReqInv(users, req[p]) /\ req[p].key \in Keys
         /\ req[p].op = "msLogin" => req[p].email \in Emails /\ req[p].pw \in Pws
BY DEF IInv, ReqOK, ReqInv

\* An error, or nothing found.
LEMMA RefusedInv ==
  ASSUME IInv, NEW p \in Procs, NEW resp \in Responses,
         Set(p, Answer(req[p], resp, Nil)), UNCHANGED <<users, cache, redis>>
  PROVE  IInv'
<1>1. ReqOK(Answer(req[p], resp, Nil)) /\ ReqInv(users, Answer(req[p], resp, Nil))
  BY ReqOf, AnswerOK
<1> QED BY <1>1, OneThinks

LEMMA LookupInv == ASSUME IInv, NEW p \in Procs, Lookup(p) PROVE IInv'
<1> DEFINE r == req[p]
<1>1. /\ ReqOK(r) /\ ReqInv(users, r) /\ r.pc = "lookup" /\ UNCHANGED <<users, cache, redis>>
      /\ r.key \in Keys
  BY ReqOf DEF Lookup
<1>2. ASSUME NEW b \in BOOLEAN, Set(p, [r EXCEPT !.pc = "load", !.fill = b]) PROVE IInv'
  <2> DEFINE a == [r EXCEPT !.pc = "load", !.fill = b]
  <2> HIDE DEF r
  <2>1. /\ a.pc = "load" /\ a.resp = r.resp /\ a.val = r.val /\ a.key = r.key /\ a.fill = b
        /\ a.todo = r.todo /\ a.op = r.op /\ a.id = r.id /\ a.email = r.email /\ a.pw = r.pw
        /\ a.ms = r.ms /\ DOMAIN a = DOMAIN r
    BY <1>1 DEF ReqOK, Idle
  <2> HIDE DEF a
  <2>2. ReqOK(a) BY <1>1, <2>1 DEF ReqOK, PCs
  <2>3. ReqInv(users, a) BY <1>1, <2>1 DEF ReqInv, Reading, Asks
  <2>4. Set(p, a) BY <1>2 DEF a
  <2> QED BY <1>1, <2>2, <2>3, <2>4, OneThinks
<1>3. ASSUME cache[r.key] # Missing, Set(p, Resume(r, cache[r.key])) PROVE IInv'
  <2>1. EntryOK(users, r.key, cache[r.key]) BY <1>1, <1>3 DEF IInv, CacheOK
  <2> HIDE DEF r
  <2>2. ReqOK(Resume(r, cache[r.key])) /\ ReqInv(users, Resume(r, cache[r.key]))
    BY <1>1, <2>1, ResumeOK DEF Reading
  <2> QED BY <1>1, <1>3, <2>2, OneThinks
<1> QED BY <1>2, <1>3 DEF Lookup

LEMMA LoadInv == ASSUME IInv, NEW p \in Procs, Load(p) PROVE IInv'
<1> DEFINE r == req[p]
<1>1. /\ ReqOK(r) /\ ReqInv(users, r) /\ r.pc = "load" /\ UNCHANGED <<users, cache, redis>>
      /\ r.key \in Keys
  BY ReqOf DEF Load
<1>2. PICK v \in Query(r.key) :
        Set(p, IF r.key[1] = "id" /\ v = Nil THEN Answer(r, "notfound", Nil)
               ELSE IF r.fill THEN [r EXCEPT !.pc = "fill", !.val = v]
               ELSE Resume(r, v))
  BY DEF Load
<1>3. CASE r.key[1] = "id" /\ v = Nil
  <2>1. Set(p, Answer(req[p], "notfound", Nil)) BY <1>2, <1>3
  <2> QED BY <1>1, <2>1, RefusedInv DEF Responses
<1>4. CASE ~(r.key[1] = "id" /\ v = Nil)
  <2>1. EntryOK(users, r.key, v) BY <1>1, <1>4, QueryOK DEF IInv
  <2>2. CASE r.fill
    <3> DEFINE a == At(r, "fill", v)
    <3>1. IF r.key = AllKey THEN v \subseteq Snapshot ELSE v \in Snapshot \cup {Nil}
      BY <1>1, <2>1, EntryType
    <3>2. r.op = "findAll" <=> r.key = AllKey
      BY <1>1, KeysOf DEF ReqInv, Reading, Asks, IdKey, EmailKey, MsKey, AllKey
    <3>3. Set(p, a) BY <1>2, <1>4, <2>2 DEF At
    <3>4. "fill" \in PCs BY DEF PCs
    <3> HIDE DEF r
    <3>5. /\ ReqOK(a) /\ a.pc = "fill" /\ a.val = v /\ a.op = r.op /\ a.id = r.id
          /\ a.email = r.email /\ a.pw = r.pw /\ a.ms = r.ms /\ a.key = r.key
      BY <1>1, <3>1, <3>2, <3>4, MoveOK
    <3> HIDE DEF a
    <3>6. ReqInv(users, a) BY <1>1, <2>1, <3>5 DEF ReqInv, Reading, Asks
    <3> QED BY <1>1, <3>3, <3>5, <3>6, OneThinks
  <2>3. CASE ~r.fill
    <3>1. Set(p, Resume(r, v)) BY <1>2, <1>4, <2>3
    <3> HIDE DEF r
    <3>2. ReqOK(Resume(r, v)) /\ ReqInv(users, Resume(r, v))
      BY <1>1, <2>1, ResumeOK DEF Reading
    <3> QED BY <1>1, <3>1, <3>2, OneThinks
  <2> QED BY <2>2, <2>3
<1> QED BY <1>3, <1>4

\* The cache after a set or a deletion, whether or not it took place.
LEMMA CacheSetOK ==
  ASSUME NEW t, CacheOK(t, cache), NEW key \in Keys, NEW v, v = Missing \/ EntryOK(t, key, v),
         CacheSet(key, v)
  PROVE  CacheOK(t, cache')
BY DEF CacheSet, CacheOK

LEMMA FillInv == ASSUME IInv, NEW p \in Procs, Fill(p) PROVE IInv'
<1> DEFINE r == req[p]
<1>1. /\ ReqOK(r) /\ ReqInv(users, r) /\ r.pc = "fill" /\ UNCHANGED <<users, redis>>
      /\ r.key \in Keys /\ CacheSet(r.key, r.val) /\ Set(p, Resume(r, r.val))
  BY ReqOf DEF Fill
<1> HIDE DEF r
<1>2. EntryOK(users, r.key, r.val) BY <1>1 DEF ReqInv
<1>3. CacheOK(users', cache') BY <1>1, <1>2, CacheSetOK DEF IInv
<1>4. ReqOK(Resume(r, r.val)) /\ ReqInv(users', Resume(r, r.val))
  BY <1>1, <1>2, ResumeOK DEF Reading
<1>5. TableOK(users') /\ Keeps(users, users') BY <1>1, KeepsRefl DEF IInv
<1> QED BY <1>1, <1>3, <1>4, <1>5, OneMoves

\* The keys to invalidate, or the answer.
LEMMA InvalidateOK ==
  ASSUME NEW t, NEW r, ReqOK(r), r.op = "msLogin" => r.email \in Emails /\ r.pw \in Pws,
         NEW keys \in Seq(Keys)
  PROVE  ReqOK(Invalidate(r, keys)) /\ ReqInv(t, Invalidate(r, keys))
<1>1. CASE keys = <<>>
  <2>1. Invalidate(r, keys) = Answer(r, "ok", Nil) BY <1>1 DEF Invalidate
  <2>2. "ok" \in Responses BY DEF Responses
  <2> QED BY <2>1, <2>2, AnswerOK
<1>2. CASE keys # <<>>
  <2> DEFINE a == [r EXCEPT !.pc = "inval", !.todo = keys, !.val = Nil]
  <2>1. Invalidate(r, keys) = a BY <1>2 DEF Invalidate
  <2>2. /\ a.pc = "inval" /\ a.resp = r.resp /\ a.val = Nil /\ a.key = r.key /\ a.fill = r.fill
        /\ a.todo = keys /\ a.op = r.op /\ a.id = r.id /\ a.email = r.email /\ a.pw = r.pw
        /\ a.ms = r.ms /\ DOMAIN a = DOMAIN r
    BY DEF ReqOK, Idle
  <2> HIDE DEF a
  <2>3. \A n \in DOMAIN a.todo : a.todo[n] \in Keys BY <2>2
  <2>4. ReqOK(a) BY <2>2, <2>3 DEF ReqOK, PCs
  <2>5. ReqInv(t, a) BY <1>2, <2>2 DEF ReqInv, Reading
  <2> QED BY <2>1, <2>4, <2>5
<1> QED BY <1>1, <1>2

\* What a write leaves in its row.
LEMMA WrittenOK ==
  ASSUME IInv, NEW p \in Procs, req[p].pc = "write"
  PROVE  Written(req[p]) \in Account
<1> DEFINE r == req[p]
           row == users[r.id]
<1>1. /\ ReqOK(r) /\ r.op \in {"update", "remove", "msLogin", "config"} /\ r.id \in Ids
      /\ users[r.id] # Nil
  BY ReqOf DEF ReqInv
<1>2. row \in Account BY <1>1 DEF IInv, TableOK
<1>3. /\ r.email \in Emails \cup {Nil} /\ r.pw \in Pws \cup {Nil} /\ r.ms \in MsIds \cup {Nil}
  BY <1>1 DEF ReqOK
<1> HIDE DEF row, r
<1>4. /\ Or(r.email, row.email) \in Emails /\ Or(r.pw, row.pw) \in Pws
      /\ Or(r.ms, row.ms) \in MsIds \cup {Nil}
  BY <1>2, <1>3 DEF Or, Account
<1>5. CASE r.op = "update"
  <2>1. Written(r) = [row EXCEPT !.email = Or(r.email, row.email), !.pw = Or(r.pw, row.pw)]
    BY <1>5 DEF Written, row
  <2> QED BY <1>2, <1>4, <2>1 DEF Account, r
<1>6. CASE r.op = "remove"
  <2>1. Written(r) = [row EXCEPT !.deleted = TRUE] BY <1>6 DEF Written, row
  <2> QED BY <1>2, <2>1 DEF Account, r
<1>7. CASE r.op = "msLogin"
  <2>1. Written(r) = [row EXCEPT !.ms = Or(r.ms, row.ms)] BY <1>7 DEF Written, row
  <2> QED BY <1>2, <1>4, <2>1 DEF Account, r
<1>8. CASE r.op = "config"
  <2>1. Written(r) = [row EXCEPT !.conf = ~row.conf] BY <1>8 DEF Written, row
  <2> QED BY <1>2, <2>1 DEF Account, r
<1> QED BY <1>1, <1>5, <1>6, <1>7, <1>8

\* The keys a write names.
LEMMA NamedOK ==
  ASSUME NEW r, ReqOK(r)
  PROVE  /\ KeyIf(r.email # Nil, EmailKey(r.email)) \in Seq(Keys)
         /\ KeyIf(r.ms # Nil, MsKey(r.ms)) \in Seq(Keys)
BY KeysOf DEF KeyIf, ReqOK

LEMMA InvalidatesOK ==
  ASSUME NEW r, ReqOK(r), r.op \in {"update", "remove", "msLogin", "config"}, r.id \in Ids,
         r.op = "remove" => r.val \in Snapshot
  PROVE  Invalidates(r) \in Seq(Keys)
<1>1. IdKey(r.id) \in Keys /\ AllKey \in Keys BY KeysOf
<1>2. KeyIf(r.email # Nil, EmailKey(r.email)) \in Seq(Keys) BY NamedOK
<1>3. KeyIf(r.ms # Nil, MsKey(r.ms)) \in Seq(Keys) BY NamedOK
<1>4. <<IdKey(r.id)>> \in Seq(Keys) /\ <<AllKey>> \in Seq(Keys) BY <1>1
<1>5. CASE r.op = "update"
  <2>1. Invalidates(r) =
          <<IdKey(r.id)>> \o KeyIf(r.email # Nil, EmailKey(r.email)) \o <<AllKey>>
    BY <1>5 DEF Invalidates
  <2> QED BY <1>2, <1>4, <2>1
<1>6. CASE r.op = "remove"
  <2>1. EmailKey(r.val.email) \in Keys BY <1>6, KeysOf DEF Snapshot
  <2>2. Invalidates(r) = <<IdKey(r.id), EmailKey(r.val.email), AllKey>>
    BY <1>6 DEF Invalidates
  <2> QED BY <1>1, <2>1, <2>2
<1>7. CASE r.op = "msLogin"
  <2>1. Invalidates(r) = <<IdKey(r.id)>> \o KeyIf(r.ms # Nil, MsKey(r.ms)) \o <<AllKey>>
    BY <1>7 DEF Invalidates
  <2> QED BY <1>3, <1>4, <2>1
<1>8. CASE r.op = "config" BY <1>8 DEF Invalidates
<1> QED BY <1>5, <1>6, <1>7, <1>8

LEMMA WriteInv == ASSUME IInv, NEW p \in Procs, Write(p) PROVE IInv'
<1> DEFINE r == req[p]
           row == Written(r)
<1>1. /\ ReqOK(r) /\ r.pc = "write" /\ r.op \in {"update", "remove", "msLogin", "config"}
      /\ r.id \in Ids /\ (r.op = "remove" => r.val \in Snapshot) /\ UNCHANGED <<cache, redis>>
      /\ (r.op = "msLogin" => r.email \in Emails /\ r.pw \in Pws)
  BY ReqOf DEF Write, ReqInv
<1>2. row \in Account BY <1>1, WrittenOK
<1>3. ASSUME Set(p, Answer(r, "error", Nil)), UNCHANGED users PROVE IInv'
  BY <1>1, <1>3, RefusedInv DEF Responses
<1>4. ASSUME row.deleted \/ ~IndexViolation(row.email, r.id),
             users' = [users EXCEPT ![r.id] = row],
             Set(p, Invalidate(r, Invalidates(r)))
      PROVE  IInv'
  <2>1. ~row.deleted => \A j \in Ids \ {r.id} : ActiveIn(users, j) => users[j].email # row.email
    BY <1>4 DEF IndexViolation, EmailTaken, Active, ActiveIn
  <2>2. TableOK(users') /\ Keeps(users, users')
    BY <1>1, <1>2, <1>4, <2>1, EditTable DEF IInv
  <2>3. CacheOK(users', cache') BY <1>1, <2>2, KeepsCache DEF IInv
  <2> HIDE DEF r, row
  <2>4. ReqOK(Invalidate(r, Invalidates(r))) /\ ReqInv(users', Invalidate(r, Invalidates(r)))
    BY <1>1, InvalidatesOK, InvalidateOK
  <2> QED BY <1>1, <1>4, <2>2, <2>3, <2>4, OneMoves
<1> QED BY <1>3, <1>4 DEF Write

LEMMA CheckInv == ASSUME IInv, NEW p \in Procs, Check(p) PROVE IInv'
<1> DEFINE r == req[p]
           a == [r EXCEPT !.pc = "insert"]
<1>1. /\ ReqOK(r) /\ ReqInv(users, r) /\ r.pc = "check" /\ UNCHANGED <<users, cache, redis>>
  BY ReqOf DEF Check
<1>2. CASE EmailTaken(r.email, Nil)
  <2>1. Set(p, Answer(req[p], "conflict", Nil)) BY <1>2 DEF Check
  <2> QED BY <1>1, <2>1, RefusedInv DEF Responses
<1>3. CASE ~EmailTaken(r.email, Nil)
  <2>1. Set(p, a) BY <1>3 DEF Check
  <2> HIDE DEF r
  <2>2. /\ a.pc = "insert" /\ a.resp = r.resp /\ a.val = r.val /\ a.key = r.key
        /\ a.fill = r.fill /\ a.todo = r.todo /\ a.op = r.op /\ a.id = r.id
        /\ a.email = r.email /\ a.pw = r.pw /\ a.ms = r.ms /\ DOMAIN a = DOMAIN r
    BY <1>1 DEF ReqOK, Idle
  <2> HIDE DEF a
  <2>3. ReqOK(a) BY <1>1, <2>2 DEF ReqOK, PCs
  <2>4. ReqInv(users, a) BY <1>1, <2>2 DEF ReqInv, Reading
  <2> QED BY <1>1, <2>1, <2>3, <2>4, OneThinks
<1> QED BY <1>2, <1>3

LEMMA InsertInv == ASSUME IInv, NEW p \in Procs, Insert(p) PROVE IInv'
<1> DEFINE r == req[p]
           row == [email |-> r.email, pw |-> r.pw, ms |-> r.ms,
                   deleted |-> FALSE, conf |-> FALSE]
           keys == KeyIf(r.op = "msLogin", AllKey)
<1>1. /\ ReqOK(r) /\ ReqInv(users, r) /\ r.pc = "insert" /\ UNCHANGED <<cache, redis>>
      /\ (r.op = "msLogin" => r.email \in Emails /\ r.pw \in Pws)
  BY ReqOf DEF Insert
<1>2. row \in Account BY <1>1 DEF ReqInv, ReqOK, Account
<1>3. ASSUME Set(p, Answer(r, "error", Nil)), UNCHANGED users PROVE IInv'
  BY <1>1, <1>3, RefusedInv DEF Responses
<1>4. ASSUME ~IndexViolation(r.email, Nil), NEW i \in Ids, users[i] = Nil,
             users' = [users EXCEPT ![i] = row], Set(p, Invalidate(r, keys))
      PROVE  IInv'
  <2>1. \A j \in Ids : ActiveIn(users, j) => users[j].email # row.email
    BY <1>4, NilAssumption DEF IndexViolation, EmailTaken, Active, ActiveIn
  <2> HIDE DEF row
  <2>2. TableOK(users') /\ Keeps(users, users')
    BY <1>1, <1>2, <1>4, <2>1, InsertTable DEF IInv
  <2>3. CacheOK(users', cache') BY <1>1, <2>2, KeepsCache DEF IInv
  <2>4. keys \in Seq(Keys) BY KeysOf DEF KeyIf
  <2> HIDE DEF r, keys
  <2>5. ReqOK(Invalidate(r, keys)) /\ ReqInv(users', Invalidate(r, keys))
    BY <1>1, <2>4, InvalidateOK
  <2> QED BY <1>1, <1>4, <2>2, <2>3, <2>5, OneMoves
<1> QED BY <1>3, <1>4 DEF Insert

LEMMA InvalInv == ASSUME IInv, NEW p \in Procs, Inval(p) PROVE IInv'
<1> DEFINE r == req[p]
<1>1. /\ ReqOK(r) /\ r.todo \in Seq(Keys) /\ r.todo # <<>> /\ UNCHANGED <<users, redis>>
      /\ (r.op = "msLogin" => r.email \in Emails /\ r.pw \in Pws)
      /\ CacheSet(Head(r.todo), Missing) /\ Set(p, Invalidate(r, Tail(r.todo)))
  BY ReqOf DEF Inval, ReqInv, CacheDel
<1> HIDE DEF r
<1>2. Head(r.todo) \in Keys /\ Tail(r.todo) \in Seq(Keys) BY <1>1
<1>3. CacheOK(users', cache') BY <1>1, <1>2, CacheSetOK DEF IInv
<1>4. ReqOK(Invalidate(r, Tail(r.todo))) /\ ReqInv(users', Invalidate(r, Tail(r.todo)))
  BY <1>1, <1>2, InvalidateOK
<1>5. TableOK(users') /\ Keeps(users, users') BY <1>1, KeepsRefl DEF IInv
<1> QED BY <1>1, <1>3, <1>4, <1>5, OneMoves

-----------------------------------------------------------------------------
(* Everything else *)

LEMMA DbFailsInv == ASSUME IInv, NEW p \in Procs, DbFails(p) PROVE IInv'
BY RefusedInv DEF DbFails, Responses

LEMMA RetireInv == ASSUME IInv, NEW p \in Procs, Retire(p) PROVE IInv'
BY IdleOK, OneThinks DEF Retire

LEMMA ExpireInv == ASSUME IInv, NEW key \in Keys, Expire(key) PROVE IInv'
<1>1. CacheOK(users, cache') BY DEF Expire, IInv, CacheOK
<1> QED BY <1>1 DEF Expire, IInv, RedisOK

LEMMA RestartInv == ASSUME IInv, Restart PROVE IInv'
<1>1. DOMAIN req' = Procs /\ \A p \in Procs : ReqOK(req'[p]) /\ ReqInv(users, req'[p])
  BY IdleOK DEF Restart
<1> QED BY <1>1 DEF Restart, IInv, RedisOK

LEMMA ChaosInv == ASSUME IInv, ToggleRedis \/ SetChaosProbability PROVE IInv'
<1>1. RedisOK' BY DEF ToggleRedis, SetChaosProbability, IInv, RedisOK
<1> QED BY <1>1 DEF ToggleRedis, SetChaosProbability, IInv

LEMMA NextInv == ASSUME IInv, [Next]_vars PROVE IInv'
<1>1. CASE UNCHANGED vars BY <1>1 DEF vars, IInv, RedisOK
<1>2. ASSUME NEW p \in Procs, Arrive(p) PROVE IInv'
  BY <1>2, FindOneInv, FindByEmailInv, FindAllInv, UpdateInv, RemoveInv, LoginInv, CreateInv,
     MsLoginInv, ConfigInv DEF Arrive
<1>3. ASSUME NEW p \in Procs, Step(p) PROVE IInv'
  BY <1>3, LookupInv, LoadInv, FillInv, WriteInv, CheckInv, InsertInv, InvalInv, RetireInv
  DEF Step
<1>4. ASSUME NEW p \in Procs, DbFails(p) PROVE IInv' BY <1>4, DbFailsInv
<1>5. ASSUME NEW key \in Keys, Expire(key) PROVE IInv' BY <1>5, ExpireInv
<1>6. CASE Restart BY <1>6, RestartInv
<1>7. CASE ToggleRedis \/ SetChaosProbability BY <1>7, ChaosInv
<1> QED BY <1>1, <1>2, <1>3, <1>4, <1>5, <1>6, <1>7 DEF Next

-----------------------------------------------------------------------------
(* Theorems *)

\* The table, the cache, the requests and what ties them together.
THEOREM Invariant == Spec => []IInv
<1>1. Init => IInv BY InitInv
<1>2. IInv /\ [Next]_vars => IInv' BY NextInv
<1> QED BY <1>1, <1>2, PTL DEF Spec

\* TypeOK of UserDirectory: the shape of the table, the cache and the requests.
THEOREM TypeCorrect == Spec => []TypeOK
<1>1. IInv => TypeOK
  <2> SUFFICES ASSUME IInv PROVE TypeOK OBVIOUS
  <2>1. \A key \in Keys : cache[key] = Missing \/
          IF key = AllKey THEN cache[key] \subseteq Snapshot ELSE cache[key] \in Snapshot \cup {Nil}
    BY EntryType DEF IInv, CacheOK
  <2>2. AllKey \in Keys BY KeysOf
  <2> QED BY <2>1, <2>2 DEF IInv, TableOK, CacheOK, RedisOK, TypeOK
<1> QED BY <1>1, Invariant, PTL

\* However registrations, Microsoft logins, updates and removals race, crash and fail,
\* two accounts that are not deleted have two emails: the two-step check of create does
\* not ensure it, the partial unique index does.
THEOREM OneAccountPerEmail == Spec => []ActiveEmailsUnique
<1>1. IInv => ActiveEmailsUnique
  BY DEF IInv, TableOK, OnePerEmail, ActiveIn, ActiveEmailsUnique, Active
<1> QED BY <1>1, Invariant, PTL

\* No interleaving, failure or restart puts a deleted account, another account or, under
\* user:<id> and users:all, a password hash into the cache.
THEOREM CacheIsSound == Spec => []CacheEntriesSound
<1>1. IInv => CacheEntriesSound
  <2> SUFFICES ASSUME IInv, NEW key \in Keys, cache[key] \notin {Missing, Nil}
               PROVE  CASE key[1] = "id" -> LET v == cache[key] IN
                                            v.id = key[2] /\ ~v.deleted /\ v.pw = Nil
                        [] key[1] = "email" -> cache[key].email = key[2] /\ ~cache[key].deleted
                        [] key[1] = "ms"    -> cache[key].ms = key[2] /\ ~cache[key].deleted
                        [] key[1] = "all"   -> \A v \in cache[key] : ~v.deleted /\ v.pw = Nil
    BY DEF CacheEntriesSound
  <2>1. EntryOK(users, key, cache[key]) BY DEF IInv, CacheOK
  <2> QED BY <2>1, KeyKinds DEF EntryOK
<1> QED BY <1>1, Invariant, PTL

-----------------------------------------------------------------------------
(* One request at a time, with a cache and a database that work: the entries *)
(* of user:<id> and users:all never outlive the request that changed them.   *)

\* Without POST /email/config, which invalidates nothing, and the chaos endpoints.
Serial == (\A p, q \in Procs : p = q) /\ ~Faults /\ Ops \cap {"config", "chaos"} = {}

\* The keys a theorem is about: user:<id>, and users:all where nobody calls create,
\* which does not invalidate it.
IdKeys == {IdKey(i) : i \in Ids}
Watched(K) ==
  K \subseteq IdKeys \cup {AllKey} /\ IdKeys \subseteq K /\ (AllKey \in K => "create" \notin Ops)

Knows(r) == (r.pc = "fill" => r.val \in Query(r.key)) /\ (r.pc = "write" => r.id \in Active)

SerialInv(K) ==
  /\ redis = [on |-> TRUE, chaos |-> "never"]
  /\ \A p \in Procs : req[p].op \in Ops \cup {"none"}
  /\ \A key \in K : Stale(key) => Pending(key)
  /\ \A p \in Procs : Knows(req[p])

LEMMA WatchedKeys == ASSUME NEW K, Watched(K) PROVE K \subseteq Keys
BY KeysOf DEF Watched, IdKeys

\* Queries read the table only.
LEMMA SameQuery ==
  ASSUME UNCHANGED users, NEW key
  PROVE  Query(key)' = Query(key) /\ Active' = Active
<1>1. Active' = Active BY DEF Active
<1>2. \A i : Full(i)' = Full(i) /\ Public(i)' = Public(i) BY DEF Full, Public
<1>3. \A S : FirstOf(S)' = FirstOf(S) BY <1>2 DEF FirstOf
<1> QED BY <1>1, <1>2, <1>3 DEF Query

\* The process moves on, with a table nobody writes and perhaps a new entry.
LEMMA SerialMoves ==
  ASSUME Serial, NEW K, Watched(K), SerialInv(K), CacheOK(users, cache),
         NEW p \in Procs, NEW r, DOMAIN req = Procs, Set(p, r),
         UNCHANGED <<users, redis>>, req[p].pc # "inval",
         \A key \in K : \/ cache'[key] = cache[key] \/ cache'[key] = Missing
                        \/ cache'[key] \in Query(key),
         r.op \in Ops \cup {"none"}, Knows(r)
  PROVE  SerialInv(K)'
<1>1. \A q \in Procs : req'[q] = r BY DEF Set, Serial
<1>2. \A key \in K : ~Stale(key) BY DEF SerialInv, Pending, Serial
<1>3. \A key \in K : ~Stale(key)'
  <2> SUFFICES ASSUME NEW key \in K PROVE ~Stale(key)' OBVIOUS
  <2>1. Query(key)' = Query(key) BY SameQuery
  <2> QED BY <1>2, <2>1 DEF Stale
<1>4. Knows(r)'
  <2>1. Query(r.key)' = Query(r.key) /\ Active' = Active BY SameQuery
  <2> QED BY <2>1 DEF Knows
<1>5. \A q \in Procs : Knows(req[q])'
  BY <1>1, <1>4 DEF Knows
<1> QED BY <1>1, <1>3, <1>5 DEF SerialInv

\* A cache that works works every time.
LEMMA CacheWorks ==
  ASSUME redis = [on |-> TRUE, chaos |-> "never"]
  PROVE  ~MayFail /\ \A key, v : CacheSet(key, v) => cache' = [cache EXCEPT ![key] = v]
<1>1. redis.on /\ redis.chaos = "never" OBVIOUS
<1> QED BY <1>1 DEF MayFail, CacheSet

\* An account found under its id is active.
LEMMA FoundIsActive ==
  ASSUME NEW i \in Ids, NEW v \in Query(IdKey(i)), v # Nil
  PROVE  i \in Active
BY KeysOf DEF Query

LEMMA ResumeSerial ==
  ASSUME NEW r, ReqOK(r), ReqInv(users, r), r.pc \in Reading,
         NEW v, r.key[1] = "id" => v \in Query(r.key) /\ v # Nil
  PROVE  Knows(Resume(r, v)) /\ Resume(r, v).op = r.op
<1>1. Asks(r) BY DEF ReqInv
<1>2. \A resp, w : Answer(r, resp, w).op = r.op /\ Answer(r, resp, w).pc = "done"
  BY DEF Answer, ReqOK, Idle
<1>3. \A key : GetOrSet(r, key).op = r.op /\ GetOrSet(r, key).pc = "lookup"
  BY DEF GetOrSet, ReqOK, Idle
<1>4. \A pc, w : At(r, pc, w).op = r.op /\ At(r, pc, w).pc = pc /\ At(r, pc, w).id = r.id
  BY DEF At, ReqOK, Idle
<1>5. CASE r.op \in {"findOne", "findByEmail", "findAll"}
  <2>1. Resume(r, v) = Answer(r, "ok", v) BY <1>5 DEF Resume
  <2> QED BY <1>2, <2>1 DEF Knows
<1>6. CASE r.op = "login"
  <2>1. Resume(r, v) \in {Answer(r, "ok", v), Answer(r, "unauthorized", Nil)}
    BY <1>6 DEF Resume
  <2> QED BY <1>2, <2>1 DEF Knows
<1>7. CASE r.op \in {"update", "remove"} \/ (r.op = "msLogin" /\ r.key[1] = "id")
  <2>1. Resume(r, v) = At(r, "write", v) BY <1>7 DEF Resume, At
  <2>2. r.id \in Ids /\ r.key = IdKey(r.id) /\ r.key[1] = "id"
    <3>1. r.op = "msLogin" => r.email \in Emails BY DEF ReqInv
    <3> QED BY <1>1, <1>7, <3>1, KeysOf DEF Asks
  <2>3. r.id \in Active BY <2>2, FoundIsActive
  <2> QED BY <1>4, <2>1, <2>3 DEF Knows
<1>8. CASE r.op = "msLogin" /\ r.key[1] # "id" /\ v # Nil
  <2> DEFINE b == [r EXCEPT !.id = v.id, !.ms = IF r.key[1] = "ms" THEN Nil ELSE @]
  <2>1. Resume(r, v) = GetOrSet(b, IdKey(v.id)) BY <1>8 DEF Resume
  <2>2. b.op = r.op /\ DOMAIN b = DOMAIN Idle BY DEF ReqOK, Idle
  <2> HIDE DEF b
  <2>3. GetOrSet(b, IdKey(v.id)).op = r.op /\ GetOrSet(b, IdKey(v.id)).pc = "lookup"
    BY <2>2 DEF GetOrSet, Idle
  <2> QED BY <2>1, <2>3 DEF Knows
<1>9. CASE r.op = "msLogin" /\ r.key[1] # "id" /\ v = Nil
  <2>1. Resume(r, v) \in {GetOrSet(r, EmailKey(r.email)), At(r, "check", Nil)}
    BY <1>9 DEF Resume, At
  <2> QED BY <1>3, <1>4, <2>1 DEF Knows
<1> QED BY <1>1, <1>5, <1>6, <1>7, <1>8, <1>9 DEF Asks

\* What the two invariants say together of a process.
Both(K) == Serial /\ Watched(K) /\ IInv /\ SerialInv(K)

LEMMA ArriveSerial ==
  ASSUME NEW K, Both(K), NEW p \in Procs, Arrive(p)
  PROVE  SerialInv(K)'
<1>1. ASSUME NEW r, Set(p, r), r.op \in Ops, r.pc \in {"lookup", "check"},
             req[p].pc = "idle", UNCHANGED <<users, cache, redis>>
      PROVE  SerialInv(K)'
  <2>1. Knows(r) BY <1>1 DEF Knows
  <2> QED BY <1>1, <2>1, SerialMoves DEF Both, IInv
<1>2. \A c, key : DOMAIN c = DOMAIN Idle =>
        GetOrSet(c, key).op = c.op /\ GetOrSet(c, key).pc = "lookup"
  BY DEF GetOrSet, Idle
<1>3. CASE FindOne(p)
  <2>1. PICK i \in Ids : Set(p, GetOrSet([Call("findOne") EXCEPT !.id = i], IdKey(i)))
    BY <1>3 DEF FindOne
  <2> DEFINE c == [Call("findOne") EXCEPT !.id = i]
  <2>2. DOMAIN c = DOMAIN Idle /\ c.op = "findOne" BY DEF Call, Idle
  <2> HIDE DEF c
  <2> QED BY <1>1, <1>2, <1>3, <2>1, <2>2 DEF FindOne, Starts, c
<1>4. CASE FindByEmail(p)
  <2>1. PICK e \in Emails :
          Set(p, GetOrSet([Call("findByEmail") EXCEPT !.email = e], EmailKey(e)))
    BY <1>4 DEF FindByEmail
  <2> DEFINE c == [Call("findByEmail") EXCEPT !.email = e]
  <2>2. DOMAIN c = DOMAIN Idle /\ c.op = "findByEmail" BY DEF Call, Idle
  <2> HIDE DEF c
  <2> QED BY <1>1, <1>2, <1>4, <2>1, <2>2 DEF FindByEmail, Starts, c
<1>5. CASE FindAll(p)
  <2>1. DOMAIN Call("findAll") = DOMAIN Idle /\ Call("findAll").op = "findAll" BY DEF Call, Idle
  <2> QED BY <1>1, <1>2, <1>5, <2>1 DEF FindAll, Starts
<1>6. CASE Update(p)
  <2>1. PICK i \in Ids, e \in Emails \cup {Nil}, w \in Pws \cup {Nil} :
          Set(p, GetOrSet([Call("update") EXCEPT !.id = i, !.email = e, !.pw = w], IdKey(i)))
    BY <1>6 DEF Update
  <2> DEFINE c == [Call("update") EXCEPT !.id = i, !.email = e, !.pw = w]
  <2>2. DOMAIN c = DOMAIN Idle /\ c.op = "update" BY DEF Call, Idle
  <2> HIDE DEF c
  <2> QED BY <1>1, <1>2, <1>6, <2>1, <2>2 DEF Update, Starts, c
<1>7. CASE Remove(p)
  <2>1. PICK i \in Ids : Set(p, GetOrSet([Call("remove") EXCEPT !.id = i], IdKey(i)))
    BY <1>7 DEF Remove
  <2> DEFINE c == [Call("remove") EXCEPT !.id = i]
  <2>2. DOMAIN c = DOMAIN Idle /\ c.op = "remove" BY DEF Call, Idle
  <2> HIDE DEF c
  <2> QED BY <1>1, <1>2, <1>7, <2>1, <2>2 DEF Remove, Starts, c
<1>8. CASE Login(p)
  <2>1. PICK e \in Emails, w \in Pws :
          Set(p, GetOrSet([Call("login") EXCEPT !.email = e, !.pw = w], EmailKey(e)))
    BY <1>8 DEF Login
  <2> DEFINE c == [Call("login") EXCEPT !.email = e, !.pw = w]
  <2>2. DOMAIN c = DOMAIN Idle /\ c.op = "login" BY DEF Call, Idle
  <2> HIDE DEF c
  <2> QED BY <1>1, <1>2, <1>8, <2>1, <2>2 DEF Login, Starts, c
<1>9. CASE Create(p)
  <2>1. PICK e \in Emails, w \in Pws :
          Set(p, [Call("create") EXCEPT !.pc = "check", !.email = e, !.pw = w])
    BY <1>9 DEF Create
  <2> DEFINE c == [Call("create") EXCEPT !.pc = "check", !.email = e, !.pw = w]
  <2>2. c.pc = "check" /\ c.op = "create" BY DEF Call, Idle
  <2> HIDE DEF c
  <2> QED BY <1>1, <1>9, <2>1, <2>2 DEF Create, Starts, c
<1>10. CASE MsLogin(p)
  <2>1. PICK e \in Emails, w \in Pws, m \in MsIds :
          Set(p, GetOrSet([Call("msLogin") EXCEPT !.email = e, !.pw = w, !.ms = m], MsKey(m)))
    BY <1>10 DEF MsLogin
  <2> DEFINE c == [Call("msLogin") EXCEPT !.email = e, !.pw = w, !.ms = m]
  <2>2. DOMAIN c = DOMAIN Idle /\ c.op = "msLogin" BY DEF Call, Idle
  <2> HIDE DEF c
  <2> QED BY <1>1, <1>2, <1>10, <2>1, <2>2 DEF MsLogin, Starts, c
<1>11. ~Config(p) BY DEF Both, Serial, Config, Starts
<1> QED BY <1>3, <1>4, <1>5, <1>6, <1>7, <1>8, <1>9, <1>10, <1>11 DEF Arrive

\* A step that changes neither store and no invalidation.
LEMMA QuietStep ==
  ASSUME NEW K, Both(K), NEW p \in Procs, NEW r, Set(p, r), UNCHANGED <<users, cache, redis>>,
         req[p].pc # "inval", r.op \in Ops \cup {"none"}, Knows(r)
  PROVE  SerialInv(K)'
BY SerialMoves DEF Both, IInv

LEMMA LookupSerial ==
  ASSUME NEW K, Both(K), NEW p \in Procs, Lookup(p)
  PROVE  SerialInv(K)'
<1> DEFINE r == req[p]
<1>1. /\ ReqOK(r) /\ ReqInv(users, r) /\ r.pc = "lookup" /\ UNCHANGED <<users, cache, redis>>
      /\ r.key \in Keys /\ r.op \in Ops \cup {"none"}
  BY ReqOf DEF Lookup, Both, SerialInv
<1>2. ~MayFail BY CacheWorks DEF Both, SerialInv
<1>3. CASE Set(p, [r EXCEPT !.pc = "load", !.fill = TRUE])
  <2> DEFINE a == [r EXCEPT !.pc = "load", !.fill = TRUE]
  <2>1. a.pc = "load" /\ a.op = r.op BY <1>1 DEF ReqOK, Idle
  <2>2. Set(p, a) BY <1>3
  <2> HIDE DEF a
  <2>3. Knows(a) BY <2>1 DEF Knows
  <2> QED BY <1>1, <2>1, <2>2, <2>3, QuietStep
<1>4. CASE cache[r.key] # Missing /\ Set(p, Resume(r, cache[r.key]))
  <2>1. r.key[1] = "id" => cache[r.key] \in Query(r.key) /\ cache[r.key] # Nil
    <3> SUFFICES ASSUME r.key[1] = "id" PROVE cache[r.key] \in Query(r.key) /\ cache[r.key] # Nil
      OBVIOUS
    <3>1. cache[r.key] # Nil
      BY <1>1, <1>4 DEF Both, IInv, CacheOK, EntryOK
    <3>2. r.key \in K BY <1>1, KeyKinds DEF Both, Watched, IdKeys
    <3>3. ~Stale(r.key) BY <1>1, <3>2 DEF Both, Serial, SerialInv, Pending
    <3> QED BY <1>4, <3>1, <3>3 DEF Stale
  <2> HIDE DEF r
  <2>2. Knows(Resume(r, cache[r.key])) /\ Resume(r, cache[r.key]).op = r.op
    BY <1>1, <2>1, ResumeSerial DEF Reading
  <2>3. req[p].pc # "inval" BY <1>1 DEF r
  <2> QED BY <1>1, <1>4, <2>2, <2>3, QuietStep
<1> QED BY <1>2, <1>3, <1>4 DEF Lookup

LEMMA LoadSerial ==
  ASSUME NEW K, Both(K), NEW p \in Procs, Load(p)
  PROVE  SerialInv(K)'
<1> DEFINE r == req[p]
<1>1. /\ ReqOK(r) /\ ReqInv(users, r) /\ r.pc = "load" /\ UNCHANGED <<users, cache, redis>>
      /\ r.key \in Keys /\ r.op \in Ops \cup {"none"} /\ req[p].pc # "inval"
  BY ReqOf DEF Load, Both, SerialInv
<1>2. PICK v \in Query(r.key) :
        Set(p, IF r.key[1] = "id" /\ v = Nil THEN Answer(r, "notfound", Nil)
               ELSE IF r.fill THEN [r EXCEPT !.pc = "fill", !.val = v]
               ELSE Resume(r, v))
  BY DEF Load
<1> HIDE DEF r
<1>3. CASE r.key[1] = "id" /\ v = Nil
  <2>1. Set(p, Answer(r, "notfound", Nil)) BY <1>2, <1>3
  <2>2. Answer(r, "notfound", Nil).op = r.op /\ Answer(r, "notfound", Nil).pc = "done"
    BY <1>1 DEF Answer, ReqOK, Idle
  <2>3. Knows(Answer(r, "notfound", Nil)) BY <2>2 DEF Knows
  <2> QED BY <1>1, <2>1, <2>2, <2>3, QuietStep
<1>4. CASE ~(r.key[1] = "id" /\ v = Nil) /\ r.fill
  <2>1. Set(p, At(r, "fill", v)) BY <1>2, <1>4 DEF At
  <2>2. /\ At(r, "fill", v).op = r.op /\ At(r, "fill", v).pc = "fill"
        /\ At(r, "fill", v).val = v /\ At(r, "fill", v).key = r.key
    BY <1>1 DEF At, ReqOK, Idle
  <2>3. Knows(At(r, "fill", v)) BY <2>2 DEF Knows
  <2> QED BY <1>1, <2>1, <2>2, <2>3, QuietStep
<1>5. CASE ~(r.key[1] = "id" /\ v = Nil) /\ ~r.fill
  <2>1. Set(p, Resume(r, v)) BY <1>2, <1>5
  <2>2. Knows(Resume(r, v)) /\ Resume(r, v).op = r.op
    BY <1>1, <1>5, ResumeSerial DEF Reading
  <2> QED BY <1>1, <2>1, <2>2, QuietStep
<1> QED BY <1>3, <1>4, <1>5

LEMMA FillSerial ==
  ASSUME NEW K, Both(K), NEW p \in Procs, Fill(p)
  PROVE  SerialInv(K)'
<1> DEFINE r == req[p]
<1>1. /\ ReqOK(r) /\ ReqInv(users, r) /\ r.pc = "fill" /\ UNCHANGED <<users, redis>>
      /\ r.key \in Keys /\ CacheSet(r.key, r.val) /\ Set(p, Resume(r, r.val))
      /\ r.op \in Ops \cup {"none"} /\ req[p].pc # "inval" /\ r.val \in Query(r.key)
  BY ReqOf DEF Fill, Both, SerialInv, Knows
<1> HIDE DEF r
<1>2. cache' = [cache EXCEPT ![r.key] = r.val]
  BY <1>1, CacheWorks DEF Both, SerialInv
<1>3. \A key \in K : cache'[key] = cache[key] \/ cache'[key] \in Query(key)
  BY <1>1, <1>2, WatchedKeys DEF Both, IInv, CacheOK
<1>4. r.key[1] = "id" => r.val # Nil BY <1>1 DEF ReqInv, EntryOK
<1>5. Knows(Resume(r, r.val)) /\ Resume(r, r.val).op = r.op
  BY <1>1, <1>4, ResumeSerial DEF Reading
<1> QED BY <1>1, <1>3, <1>5, SerialMoves DEF Both, IInv

\* Writing one account changes no query for another.
LEMMA OtherQuery ==
  ASSUME NEW j \in Ids, users'[j] = users[j]
  PROVE  Query(IdKey(j))' = Query(IdKey(j))
<1>1. (j \in Active)' <=> j \in Active BY DEF Active
<1>2. Public(j)' = Public(j) BY DEF Public, Full
<1>3. IdKey(j)[1] = "id" /\ IdKey(j)[2] = j BY KeysOf
<1> QED BY <1>1, <1>2, <1>3 DEF Query

\* Where they are.
Listed(s, key) == \E n \in DOMAIN s : s[n] = key

LEMMA FirstAndLast ==
  ASSUME NEW S, NEW a \in S, NEW b \in S, NEW middle \in Seq(S)
  PROVE  Listed(<<a>> \o middle \o <<b>>, a) /\ Listed(<<a>> \o middle \o <<b>>, b)
<1> DEFINE s == <<a>> \o middle \o <<b>>
<1>1. <<a>> \in Seq(S) /\ <<b>> \in Seq(S) /\ Len(middle) \in Nat OBVIOUS
<1>2. <<a>> \o middle \in Seq(S) /\ Len(<<a>> \o middle) = 1 + Len(middle)
      /\ (<<a>> \o middle)[1] = a
  BY <1>1
<1>3. /\ s \in Seq(S) /\ Len(s) = 2 + Len(middle) /\ s[1] = a /\ s[2 + Len(middle)] = b
  BY <1>1, <1>2
<1>4. 1 \in DOMAIN s /\ 2 + Len(middle) \in DOMAIN s BY <1>1, <1>3
<1> QED BY <1>3, <1>4 DEF Listed

LEMMA ListedSecond ==
  ASSUME NEW S, NEW a \in S, NEW b \in S, NEW c \in S
  PROVE  Listed(<<a>> \o <<b>> \o <<c>>, b)
<1> DEFINE s == <<a>> \o <<b>> \o <<c>>
<1>1. <<a>> \in Seq(S) /\ <<b>> \in Seq(S) /\ <<c>> \in Seq(S) OBVIOUS
<1>2. <<a>> \o <<b>> \in Seq(S) /\ Len(<<a>> \o <<b>>) = 2 /\ (<<a>> \o <<b>>)[2] = b
  BY <1>1
<1>3. s \in Seq(S) /\ Len(s) = 3 /\ s[2] = b BY <1>1, <1>2
<1>4. 2 \in DOMAIN s BY <1>3
<1> QED BY <1>3, <1>4 DEF Listed

LEMMA InvalidatesBoth ==
  ASSUME NEW r, ReqOK(r), r.op \in {"update", "remove", "msLogin"}, r.id \in Ids
  PROVE  /\ \E n \in DOMAIN Invalidates(r) : Invalidates(r)[n] = IdKey(r.id)
         /\ \E n \in DOMAIN Invalidates(r) : Invalidates(r)[n] = AllKey
<1>1. IdKey(r.id) \in Keys /\ AllKey \in Keys BY KeysOf
<1>2. CASE r.op = "update"
  <2>1. Invalidates(r) =
          <<IdKey(r.id)>> \o KeyIf(r.email # Nil, EmailKey(r.email)) \o <<AllKey>>
    BY <1>2 DEF Invalidates
  <2> DEFINE m == KeyIf(r.email # Nil, EmailKey(r.email))
             a == IdKey(r.id)
  <2>2. m \in Seq(Keys) BY NamedOK
  <2>3. Invalidates(r) = <<a>> \o m \o <<AllKey>> /\ a \in Keys BY <1>1, <2>1
  <2> HIDE DEF m, a
  <2>4. Listed(<<a>> \o m \o <<AllKey>>, a) /\ Listed(<<a>> \o m \o <<AllKey>>, AllKey)
    BY <1>1, <2>2, <2>3, FirstAndLast
  <2> QED BY <2>3, <2>4 DEF a, Listed
<1>3. CASE r.op = "remove"
  <2> DEFINE keys == Invalidates(r)
  <2>1. keys = <<IdKey(r.id), EmailKey(r.val.email), AllKey>> BY <1>3 DEF Invalidates
  <2> HIDE DEF keys
  <2>2. 1 \in DOMAIN keys /\ 3 \in DOMAIN keys /\ keys[1] = IdKey(r.id) /\ keys[3] = AllKey
    BY <2>1
  <2> QED BY <2>2 DEF keys
<1>4. CASE r.op = "msLogin"
  <2>1. Invalidates(r) = <<IdKey(r.id)>> \o KeyIf(r.ms # Nil, MsKey(r.ms)) \o <<AllKey>>
    BY <1>4 DEF Invalidates
  <2> DEFINE m == KeyIf(r.ms # Nil, MsKey(r.ms))
             a == IdKey(r.id)
  <2>2. m \in Seq(Keys) BY NamedOK
  <2>3. Invalidates(r) = <<a>> \o m \o <<AllKey>> /\ a \in Keys BY <1>1, <2>1
  <2> HIDE DEF m, a
  <2>4. Listed(<<a>> \o m \o <<AllKey>>, a) /\ Listed(<<a>> \o m \o <<AllKey>>, AllKey)
    BY <1>1, <2>2, <2>3, FirstAndLast
  <2> QED BY <2>3, <2>4 DEF a, Listed
<1> QED BY <1>2, <1>3, <1>4

\* The sequential write of an account is of an active one.
LEMMA WriteSerial ==
  ASSUME NEW K, Both(K), NEW p \in Procs, Write(p)
  PROVE  SerialInv(K)' /\ req[p].id \in Active
<1> DEFINE r == req[p]
           row == Written(r)
           keys == Invalidates(r)
<1>1. /\ ReqOK(r) /\ r.pc = "write" /\ r.op \in {"update", "remove", "msLogin"}
      /\ r.id \in Ids /\ UNCHANGED <<cache, redis>> /\ r.id \in Active /\ r.op \in Ops
  <2>1. r.op \in Ops \cup {"none"} /\ r.id \in Active BY DEF Write, Both, SerialInv, Knows
  <2>2. "config" \notin Ops BY DEF Both, Serial
  <2>3. /\ ReqOK(r) /\ r.pc = "write" /\ r.op \in {"update", "remove", "msLogin", "config"}
        /\ r.id \in Ids /\ UNCHANGED <<cache, redis>>
    BY ReqOf DEF Write, Both, ReqInv
  <2> QED BY <2>1, <2>2, <2>3
<1>2. ASSUME Set(p, Answer(r, "error", Nil)), UNCHANGED users PROVE SerialInv(K)'
  <2>1. Answer(r, "error", Nil).op = r.op /\ Answer(r, "error", Nil).pc = "done"
    BY <1>1 DEF Answer, ReqOK, Idle
  <2>2. Knows(Answer(r, "error", Nil)) BY <2>1 DEF Knows
  <2> QED BY <1>1, <1>2, <2>1, <2>2, QuietStep
<1>3. ASSUME users' = [users EXCEPT ![r.id] = row], Set(p, Invalidate(r, keys))
      PROVE  SerialInv(K)'
  <2>1. /\ \E n \in DOMAIN keys : keys[n] = IdKey(r.id)
        /\ \E n \in DOMAIN keys : keys[n] = AllKey
    BY <1>1, InvalidatesBoth
  <2> DEFINE a == Invalidate(r, keys)
  <2>2. a = [r EXCEPT !.pc = "inval", !.todo = keys, !.val = Nil]
    <3>1. keys # <<>> BY <2>1
    <3> QED BY <3>1 DEF Invalidate
  <2>3. a.pc = "inval" /\ a.todo = keys /\ a.op = r.op
    <3> HIDE DEF keys, r
    <3> QED BY <1>1, <2>2 DEF ReqOK, Idle
  <2>4. \A q \in Procs : req'[q] = a
    BY <1>3 DEF Set, Both, Serial, IInv
  <2> HIDE DEF a
  <2>5. \A key \in K : Stale(key)' => Pending(key)'
    <3> SUFFICES ASSUME NEW key \in K, Stale(key)' PROVE Pending(key)' OBVIOUS
    <3>1. ~Stale(key) BY <1>1 DEF Both, Serial, SerialInv, Pending
    <3>2. ~\E j \in Ids : j # r.id /\ key = IdKey(j)
      <4> SUFFICES ASSUME NEW j \in Ids, j # r.id, key = IdKey(j) PROVE FALSE OBVIOUS
      <4>1. users'[j] = users[j] BY <1>3 DEF Both, IInv, TableOK
      <4>2. Query(key)' = Query(key) BY <4>1, OtherQuery
      <4> QED BY <1>1, <3>1, <4>2 DEF Stale
    <3>3. key \in {IdKey(r.id), AllKey} BY <3>2 DEF Both, Watched, IdKeys
    <3>4. \E n \in DOMAIN keys : keys[n] = key BY <2>1, <3>3
    <3>5. req'[p].pc = "inval" /\ req'[p].todo = keys BY <2>3, <2>4
    <3> HIDE DEF keys
    <3> QED BY <3>4, <3>5 DEF Pending
  <2>6. \A q \in Procs : Knows(req[q])' BY <2>3, <2>4 DEF Knows
  <2>7. \A q \in Procs : req'[q].op \in Ops \cup {"none"} BY <1>1, <2>3, <2>4
  <2>8. redis' = [on |-> TRUE, chaos |-> "never"] BY <1>1 DEF Both, SerialInv
  <2> QED BY <2>5, <2>6, <2>7, <2>8 DEF SerialInv
<1> QED BY <1>1, <1>2, <1>3 DEF Write

LEMMA CheckSerial ==
  ASSUME NEW K, Both(K), NEW p \in Procs, Check(p)
  PROVE  SerialInv(K)'
<1> DEFINE r == req[p]
<1>1. /\ ReqOK(r) /\ r.pc = "check" /\ UNCHANGED <<users, cache, redis>>
      /\ r.op \in Ops \cup {"none"} /\ req[p].pc # "inval"
      /\ Set(p, IF EmailTaken(r.email, Nil) THEN Answer(r, "conflict", Nil)
                ELSE [r EXCEPT !.pc = "insert"])
  BY ReqOf DEF Check, Both, SerialInv
<1> HIDE DEF r
<1>2. PICK a : Set(p, a) /\ a \in {Answer(r, "conflict", Nil), [r EXCEPT !.pc = "insert"]}
  BY <1>1
<1>3. a.op = r.op /\ a.pc \in {"done", "insert"} BY <1>1, <1>2 DEF Answer, ReqOK, Idle
<1>4. Knows(a) BY <1>3 DEF Knows
<1> QED BY <1>1, <1>2, <1>3, <1>4, QuietStep

LEMMA InsertSerial ==
  ASSUME NEW K, Both(K), NEW p \in Procs, Insert(p)
  PROVE  SerialInv(K)'
<1> DEFINE r == req[p]
           row == [email |-> r.email, pw |-> r.pw, ms |-> r.ms,
                   deleted |-> FALSE, conf |-> FALSE]
           keys == KeyIf(r.op = "msLogin", AllKey)
<1>1. /\ ReqOK(r) /\ r.pc = "insert" /\ UNCHANGED <<cache, redis>>
      /\ r.op \in {"create", "msLogin"} /\ r.op \in Ops \cup {"none"} /\ req[p].pc # "inval"
  BY ReqOf DEF Insert, Both, SerialInv, ReqInv
<1>2. ASSUME Set(p, Answer(r, "error", Nil)), UNCHANGED users PROVE SerialInv(K)'
  <2>1. Answer(r, "error", Nil).op = r.op /\ Answer(r, "error", Nil).pc = "done"
    BY <1>1 DEF Answer, ReqOK, Idle
  <2>2. Knows(Answer(r, "error", Nil)) BY <2>1 DEF Knows
  <2> QED BY <1>1, <1>2, <2>1, <2>2, QuietStep
<1>3. ASSUME NEW i \in Ids, users[i] = Nil, users' = [users EXCEPT ![i] = row],
             Set(p, Invalidate(r, keys))
      PROVE  SerialInv(K)'
  <2> DEFINE a == Invalidate(r, keys)
  <2>1. /\ a.op = r.op
        /\ r.op = "msLogin" => a.pc = "inval" /\ a.todo = <<AllKey>>
        /\ r.op = "create" => a.pc = "done"
    <3> HIDE DEF r
    <3> QED BY <1>1 DEF KeyIf, Invalidate, Answer, ReqOK, Idle
  <2>2. \A q \in Procs : req'[q] = a
    BY <1>3 DEF Set, Both, Serial, IInv
  <2> HIDE DEF a
  <2>3. \A key \in K : Stale(key)' => Pending(key)'
    <3> SUFFICES ASSUME NEW key \in K, Stale(key)' PROVE Pending(key)' OBVIOUS
    <3>1. ~Stale(key) BY <1>1 DEF Both, Serial, SerialInv, Pending
    <3>2. ~\E j \in Ids : key = IdKey(j)
      <4> SUFFICES ASSUME NEW j \in Ids, key = IdKey(j) PROVE FALSE OBVIOUS
      <4>1. CASE j = i
        <5>1. key \in Keys /\ key[1] = "id" /\ key[2] = i BY <4>1, KeysOf
        <5>2. cache[key] = Missing BY <1>3, <5>1 DEF Both, IInv, CacheOK, EntryOK
        <5> QED BY <1>1, <5>2 DEF Stale
      <4>2. CASE j # i
        <5>1. users'[j] = users[j] BY <1>3, <4>2 DEF Both, IInv, TableOK
        <5>2. Query(key)' = Query(key) BY <5>1, OtherQuery
        <5> QED BY <1>1, <3>1, <5>2 DEF Stale
      <4> QED BY <4>1, <4>2
    <3>3. key = AllKey /\ r.op = "msLogin" BY <1>1, <3>2 DEF Both, Watched, IdKeys
    <3>4. req'[p].pc = "inval" /\ req'[p].todo = <<AllKey>> BY <2>1, <2>2, <3>3
    <3>5. 1 \in DOMAIN <<AllKey>> /\ <<AllKey>>[1] = key BY <3>3
    <3> QED BY <3>4, <3>5 DEF Pending
  <2>4. \A q \in Procs : Knows(req[q])' BY <1>1, <2>1, <2>2 DEF Knows
  <2>5. \A q \in Procs : req'[q].op \in Ops \cup {"none"} BY <1>1, <2>1, <2>2
  <2>6. redis' = [on |-> TRUE, chaos |-> "never"] BY <1>1 DEF Both, SerialInv
  <2> QED BY <2>3, <2>4, <2>5, <2>6 DEF SerialInv
<1> QED BY <1>2, <1>3 DEF Insert

LEMMA InvalSerial ==
  ASSUME NEW K, Both(K), NEW p \in Procs, Inval(p)
  PROVE  SerialInv(K)'
<1> DEFINE r == req[p]
           a == Invalidate(r, Tail(r.todo))
<1>1. /\ ReqOK(r) /\ r.todo \in Seq(Keys) /\ r.todo # <<>> /\ UNCHANGED <<users, redis>>
      /\ r.pc = "inval" /\ CacheSet(Head(r.todo), Missing) /\ Set(p, a)
      /\ r.op \in Ops \cup {"none"}
  BY ReqOf DEF Inval, ReqInv, CacheDel, Both, SerialInv
<1>2. cache' = [cache EXCEPT ![Head(r.todo)] = Missing]
  BY <1>1, CacheWorks DEF Both, SerialInv
<1>3. \A q \in Procs : req'[q] = a BY <1>1 DEF Set, Both, Serial, IInv
<1>4. /\ a.op = r.op
      /\ Tail(r.todo) = <<>> => a.pc = "done"
      /\ Tail(r.todo) # <<>> => a.pc = "inval" /\ a.todo = Tail(r.todo)
  <2> HIDE DEF r
  <2> QED BY <1>1 DEF Invalidate, Answer, ReqOK, Idle
<1>5. \A key \in K : Stale(key)' => Pending(key)'
  <2> SUFFICES ASSUME NEW key \in K, Stale(key)' PROVE Pending(key)' OBVIOUS
  <2>1. Query(key)' = Query(key) BY <1>1, SameQuery
  <2>2. key \in Keys BY WatchedKeys DEF Both
  <2>3. key # Head(r.todo) /\ cache'[key] = cache[key]
    BY <1>2, <2>2 DEF Stale, Both, IInv, CacheOK
  <2>4. Stale(key) BY <2>1, <2>3 DEF Stale
  <2>5. PICK n \in DOMAIN r.todo : r.todo[n] = key
    BY <2>4 DEF Both, Serial, SerialInv, Pending
  <2> HIDE DEF r, a
  <2>6. n - 1 \in DOMAIN Tail(r.todo) /\ Tail(r.todo)[n - 1] = key
    BY <1>1, <2>3, <2>5
  <2>7. Tail(r.todo) # <<>> BY <2>6
  <2>8. req'[p].pc = "inval" /\ req'[p].todo = Tail(r.todo) BY <1>3, <1>4, <2>7
  <2> QED BY <2>6, <2>8 DEF Pending
<1> HIDE DEF a
<1>6. \A q \in Procs : Knows(req[q])' BY <1>3, <1>4 DEF Knows
<1>7. \A q \in Procs : req'[q].op \in Ops \cup {"none"} BY <1>1, <1>3, <1>4
<1>8. redis' = [on |-> TRUE, chaos |-> "never"] BY <1>1 DEF Both, SerialInv
<1> QED BY <1>5, <1>6, <1>7, <1>8 DEF SerialInv

LEMMA ExpireSerial ==
  ASSUME NEW K, Both(K), NEW key \in Keys, Expire(key)
  PROVE  SerialInv(K)'
<1>1. UNCHANGED <<users, redis, req>> /\ cache' = [cache EXCEPT ![key] = Missing] BY DEF Expire
<1>2. \A k \in K : Stale(k)' => Stale(k)
  <2> SUFFICES ASSUME NEW k \in K, Stale(k)' PROVE Stale(k) OBVIOUS
  <2>1. Query(k)' = Query(k) BY <1>1, SameQuery
  <2>2. k \in Keys BY WatchedKeys DEF Both
  <2> QED BY <1>1, <2>1, <2>2 DEF Stale, Both, IInv, CacheOK
<1>3. \A k : Pending(k)' <=> Pending(k) BY <1>1 DEF Pending
<1>4. \A q \in Procs : Knows(req[q])'
  <2> TAKE q \in Procs
  <2>1. Query(req[q].key)' = Query(req[q].key) /\ Active' = Active BY <1>1, SameQuery
  <2> QED BY <1>1, <2>1 DEF Both, SerialInv, Knows
<1> QED BY <1>1, <1>2, <1>3, <1>4 DEF Both, SerialInv

LEMMA NextSerial ==
  ASSUME NEW K, Both(K), [Next]_vars
  PROVE  SerialInv(K)'
<1>1. CASE UNCHANGED vars
  <2>1. UNCHANGED <<users, cache, redis, req>> BY <1>1 DEF vars
  <2>2. \A k : Query(k)' = Query(k) /\ Active' = Active BY <2>1, SameQuery
  <2>3. \A k : Pending(k)' <=> Pending(k) BY <2>1 DEF Pending
  <2>4. \A k : Stale(k)' <=> Stale(k) BY <2>1, <2>2 DEF Stale
  <2>5. \A q \in Procs : Knows(req[q])'
    <3> TAKE q \in Procs
    <3>1. Query(req[q].key)' = Query(req[q].key) /\ Active' = Active BY <2>1, SameQuery
    <3> QED BY <2>1, <3>1 DEF Both, SerialInv, Knows
  <2> QED BY <2>1, <2>3, <2>4, <2>5 DEF Both, SerialInv
<1>2. ASSUME NEW p \in Procs, Arrive(p) PROVE SerialInv(K)' BY <1>2, ArriveSerial
<1>3. ASSUME NEW p \in Procs, Retire(p) PROVE SerialInv(K)'
  <2>1. Knows(Idle) /\ Idle.op = "none" BY DEF Knows, Idle
  <2> QED BY <1>3, <2>1, QuietStep DEF Retire
<1>4. ASSUME NEW p \in Procs, Step(p) PROVE SerialInv(K)'
  BY <1>3, <1>4, LookupSerial, LoadSerial, FillSerial, WriteSerial, CheckSerial, InsertSerial,
     InvalSerial DEF Step
<1>5. ASSUME NEW p \in Procs, DbFails(p) PROVE SerialInv(K)'
  BY <1>5 DEF DbFails, Both, Serial
<1>6. ASSUME NEW key \in Keys, Expire(key) PROVE SerialInv(K)' BY <1>6, ExpireSerial
<1>7. CASE Restart \/ ToggleRedis \/ SetChaosProbability
  BY <1>7 DEF Restart, ToggleRedis, SetChaosProbability, Both, Serial
<1> QED BY <1>1, <1>2, <1>4, <1>5, <1>6, <1>7 DEF Next

LEMMA InitSerial == ASSUME NEW K, Watched(K), Init PROVE SerialInv(K)
<1>1. \A key \in K : cache[key] = Missing BY WatchedKeys DEF Init
<1>2. \A p \in Procs : req[p].pc = "idle" /\ req[p].op = "none" BY DEF Init, Idle
<1> QED BY <1>1, <1>2 DEF Init, SerialInv, Stale, Knows

\* Together they are inductive.
LEMMA SerialInductive ==
  ASSUME Serial, NEW K, Watched(K)
  PROVE  /\ Init => IInv /\ SerialInv(K)
         /\ IInv /\ SerialInv(K) /\ [Next]_vars => IInv' /\ SerialInv(K)'
BY InitInv, InitSerial, NextInv, NextSerial DEF Both

\* "Automatic cache invalidation on data updates/deletes", for an account: with requests
\* one at a time, a cache and a database that work and no configuration changes, user:<id>
\* never outlives a change of the account.
THEOREM IdEntriesCurrent == ASSUME Serial PROVE Spec => []IdCoherent
<1>1. Watched(IdKeys)
  <2>1. AllKey \notin IdKeys BY DEF IdKeys, AllKey, IdKey
  <2> QED BY <2>1 DEF Watched
<1>2. SerialInv(IdKeys) => IdCoherent
  <2> SUFFICES ASSUME SerialInv(IdKeys), Quiet, NEW i \in Ids PROVE ~Stale(IdKey(i))
    BY DEF IdCoherent
  <2>1. IdKey(i) \in IdKeys BY DEF IdKeys
  <2> QED BY <2>1 DEF SerialInv, Pending, Quiet
<1>3. Init => IInv /\ SerialInv(IdKeys) BY <1>1, SerialInductive
<1>4. IInv /\ SerialInv(IdKeys) /\ [Next]_vars => IInv' /\ SerialInv(IdKeys)'
  BY <1>1, SerialInductive
<1> QED BY <1>2, <1>3, <1>4, PTL DEF Spec

\* The same for the list of users, where nobody registers: create does not invalidate it.
THEOREM ListCurrent == ASSUME Serial, "create" \notin Ops PROVE Spec => []ListCoherent
<1> DEFINE K == IdKeys \cup {AllKey}
<1>1. Watched(K) BY DEF Watched
<1> HIDE DEF K
<1>2. SerialInv(K) => ListCoherent
  <2>1. AllKey \in K BY DEF K
  <2> QED BY <2>1 DEF SerialInv, Pending, Quiet, ListCoherent
<1>3. Init => IInv /\ SerialInv(K) BY <1>1, SerialInductive
<1>4. IInv /\ SerialInv(K) /\ [Next]_vars => IInv' /\ SerialInv(K)'
  BY <1>1, SerialInductive
<1> QED BY <1>2, <1>3, <1>4, PTL DEF Spec

-----------------------------------------------------------------------------
(* What leaves an entry stale, and a removed account changed, whatever is   *)
(* concurrent, fails or crashes.                                             *)

\* A request that is not deleting keys moves on: deletions to come still are.
LEMMA PendingKept ==
  ASSUME IInv, NEW p \in Procs, NEW r, Set(p, r), req[p].pc # "inval", NEW key, Pending(key)
  PROVE  Pending(key)'
<1>1. \A q \in Procs : q # p => req'[q] = req[q] BY DEF Set, IInv
<1> QED BY <1>1 DEF Pending

\* A step that writes neither the table nor the cache leaves nothing behind.
LEMMA ThinkLeaves ==
  ASSUME IInv, NEW key \in Keys, UNCHANGED <<users, cache>>, Pending(key) => Pending(key)',
         Left(key)'
  PROVE  Left(key)
<1>1. Query(key)' = Query(key) BY SameQuery
<1> QED BY <1>1 DEF Left, Stale

LEMMA FillLeaves ==
  ASSUME IInv, NEW key \in Keys, NEW p \in Procs, Fill(p), Left(key)', ~Left(key)
  PROVE  LeavesStale(key)
<1>1. /\ req[p].pc = "fill" /\ CacheSet(req[p].key, req[p].val)
      /\ Set(p, Resume(req[p], req[p].val)) /\ UNCHANGED users
  BY DEF Fill
<1>2. Query(key)' = Query(key) BY <1>1, SameQuery
<1>3. Pending(key) => Pending(key)' BY <1>1, PendingKept
<1>4. cache'[key] # cache[key] BY <1>2, <1>3 DEF Left, Stale
<1>5. key = req[p].key /\ cache'[key] = req[p].val
  BY <1>1, <1>4 DEF CacheSet, IInv, CacheOK
<1>6. req[p].val \notin Query(key) BY <1>2, <1>5 DEF Left, Stale
<1> QED BY <1>5, <1>6 DEF LeavesStale

\* A key a write names is one it does not touch, or among its deletions.
LEMMA NamedIsListed ==
  ASSUME NEW key \in Keys, NEW r, ReqOK(r), r.op \in {"update", "remove", "msLogin", "config"},
         r.id \in Ids, r.op # "config" => r.val \in Snapshot, Names(r, key)
  PROVE  \/ \E j \in Ids : key = IdKey(j) /\ j # r.id
         \/ Listed(Invalidates(r), key)
<1>0. IdKey(r.id) \in Keys /\ AllKey \in Keys BY KeysOf
<1>1. CASE key[1] = "id"
  <2>1. r.op \in {"update", "remove", "msLogin"} BY <1>1 DEF Names
  <2>2. Listed(Invalidates(r), IdKey(r.id)) BY <2>1, InvalidatesBoth DEF Listed
  <2> QED BY <1>1, <2>2, KeyKinds
<1>2. CASE key[1] = "all"
  <2>1. r.op \in {"update", "remove", "msLogin"} BY <1>2 DEF Names
  <2>2. Listed(Invalidates(r), AllKey) BY <2>1, InvalidatesBoth DEF Listed
  <2> QED BY <1>2, <2>2, KeyKinds
<1>3. CASE key[1] = "email"
  <2>1. key = EmailKey(key[2]) /\ key[2] \in Emails BY <1>3, KeyKinds
  <2>2. CASE r.op = "update" /\ r.email = key[2]
    <3>1. r.email # Nil BY <2>1, <2>2, NilAssumption
    <3>2. KeyIf(r.email # Nil, EmailKey(r.email)) = <<key>> BY <2>1, <2>2, <3>1 DEF KeyIf
    <3>3. Invalidates(r) = <<IdKey(r.id)>> \o <<key>> \o <<AllKey>>
      BY <2>2, <3>2 DEF Invalidates
    <3> QED BY <1>0, <3>3, ListedSecond
  <2>3. CASE r.op = "remove" /\ r.val.email = key[2]
    <3>1. Invalidates(r) = <<IdKey(r.id), key, AllKey>> BY <2>1, <2>3 DEF Invalidates
    <3>2. <<IdKey(r.id), key, AllKey>> = <<IdKey(r.id)>> \o <<key>> \o <<AllKey>> OBVIOUS
    <3> QED BY <1>0, <3>1, <3>2, ListedSecond
  <2> QED BY <1>3, <2>2, <2>3 DEF Names
<1>4. CASE key[1] = "ms"
  <2>1. key = MsKey(key[2]) /\ key[2] \in MsIds BY <1>4, KeyKinds
  <2>2. r.op = "msLogin" /\ r.ms = key[2] BY <1>4 DEF Names
  <2>3. r.ms # Nil BY <2>1, <2>2, NilAssumption
  <2>4. KeyIf(r.ms # Nil, MsKey(r.ms)) = <<key>> BY <2>1, <2>2, <2>3 DEF KeyIf
  <2>5. Invalidates(r) = <<IdKey(r.id)>> \o <<key>> \o <<AllKey>>
    BY <2>2, <2>4 DEF Invalidates
  <2> QED BY <1>0, <2>5, ListedSecond
<1> QED BY <1>1, <1>2, <1>3, <1>4, KeyKinds

LEMMA WriteLeaves ==
  ASSUME IInv, NEW key \in Keys, NEW p \in Procs, Write(p), Left(key)', ~Left(key)
  PROVE  LeavesStale(key)
<1> SUFFICES ASSUME Names(req[p], key) PROVE FALSE BY DEF LeavesStale
<1> DEFINE r == req[p]
           keys == Invalidates(r)
<1>1. /\ ReqOK(r) /\ r.pc = "write" /\ r.op \in {"update", "remove", "msLogin", "config"}
      /\ r.id \in Ids /\ (r.op # "config" => r.val \in Snapshot) /\ UNCHANGED cache
  BY ReqOf DEF Write, ReqInv
<1>2. Pending(key) => Pending(key)' BY <1>1, PendingKept DEF Write
<1>3. CASE UNCHANGED users BY <1>1, <1>2, <1>3, ThinkLeaves
<1>4. CASE users' = [users EXCEPT ![r.id] = Written(r)] /\ Set(p, Invalidate(r, keys))
  <2>1. CASE \E j \in Ids : key = IdKey(j) /\ j # r.id
    <3>1. PICK j \in Ids : key = IdKey(j) /\ j # r.id BY <2>1
    <3>2. users'[j] = users[j] BY <1>4, <3>1 DEF IInv, TableOK
    <3>3. Query(key)' = Query(key) BY <3>1, <3>2, OtherQuery
    <3> QED BY <1>1, <1>2, <3>3 DEF Left, Stale
  <2>2. CASE Listed(keys, key)
    <3>1. keys # <<>> BY <2>2 DEF Listed
    <3>2. Invalidate(r, keys) = [r EXCEPT !.pc = "inval", !.todo = keys, !.val = Nil]
      BY <3>1 DEF Invalidate
    <3>3. req'[p] = Invalidate(r, keys) BY <1>4 DEF Set, IInv
    <3>4. req'[p].pc = "inval" /\ req'[p].todo = keys
      <4> HIDE DEF r, keys
      <4> QED BY <1>1, <3>2, <3>3 DEF ReqOK, Idle
    <3> HIDE DEF keys
    <3>5. Pending(key)' BY <2>2, <3>4 DEF Pending, Listed
    <3> QED BY <3>5 DEF Left
  <2> QED BY <1>1, <2>1, <2>2, NamedIsListed
<1> QED BY <1>3, <1>4 DEF Write

LEMMA InsertLeaves ==
  ASSUME IInv, NEW key \in Keys, NEW p \in Procs, Insert(p), Left(key)', ~Left(key)
  PROVE  LeavesStale(key)
<1> SUFFICES ASSUME Names(req[p], key) PROVE FALSE BY DEF LeavesStale
<1> DEFINE r == req[p]
           keys == KeyIf(r.op = "msLogin", AllKey)
<1>1. /\ ReqOK(r) /\ r.pc = "insert" /\ r.op \in {"create", "msLogin"} /\ UNCHANGED cache
  BY ReqOf DEF Insert, ReqInv
<1>2. Pending(key) => Pending(key)' BY <1>1, PendingKept DEF Insert
<1>3. CASE UNCHANGED users BY <1>1, <1>2, <1>3, ThinkLeaves
<1>4. ASSUME NEW i \in Ids, users[i] = Nil, NEW row, users' = [users EXCEPT ![i] = row],
             Set(p, Invalidate(r, keys))
      PROVE  FALSE
  <2>1. CASE key[1] = "id"
    <3>1. key[2] \in Ids /\ key = IdKey(key[2]) BY <2>1, KeyKinds
    <3>2. key[2] # i BY <1>1, <1>4, <2>1 DEF Left, Stale, IInv, CacheOK, EntryOK
    <3>3. users'[key[2]] = users[key[2]] BY <1>4, <3>1, <3>2 DEF IInv, TableOK
    <3>4. Query(key)' = Query(key) BY <3>1, <3>3, OtherQuery
    <3> QED BY <1>1, <1>2, <3>4 DEF Left, Stale
  <2>2. CASE key[1] = "all"
    <3>1. r.op = "msLogin" /\ key = AllKey BY <1>1, <2>2, KeyKinds DEF Names
    <3>2. Invalidate(r, keys) = [r EXCEPT !.pc = "inval", !.todo = <<key>>, !.val = Nil]
      BY <3>1 DEF Invalidate, KeyIf
    <3>3. req'[p] = Invalidate(r, keys) BY <1>4 DEF Set, IInv
    <3>4. req'[p].pc = "inval" /\ req'[p].todo = <<key>>
      <4> HIDE DEF r, keys
      <4> QED BY <1>1, <3>2, <3>3 DEF ReqOK, Idle
    <3>5. 1 \in DOMAIN <<key>> /\ <<key>>[1] = key OBVIOUS
    <3>6. Pending(key)' BY <3>4, <3>5 DEF Pending
    <3> QED BY <3>6 DEF Left
  <2>3. key[1] \notin {"email", "ms"} BY <1>1 DEF Names
  <2> QED BY <2>1, <2>2, <2>3, KeyKinds
<1> QED BY <1>3, <1>4 DEF Insert

LEMMA InvalLeaves ==
  ASSUME IInv, NEW key \in Keys, NEW p \in Procs, Inval(p), Left(key)', ~Left(key)
  PROVE  LeavesStale(key)
<1> DEFINE r == req[p]
           a == Invalidate(r, Tail(r.todo))
<1>1. /\ ReqOK(r) /\ r.todo \in Seq(Keys) /\ r.todo # <<>> /\ UNCHANGED users
      /\ r.pc = "inval" /\ CacheSet(Head(r.todo), Missing) /\ Set(p, a)
  BY ReqOf DEF Inval, ReqInv, CacheDel
<1>2. Query(key)' = Query(key) BY <1>1, SameQuery
<1>3. cache'[key] = cache[key] /\ (key = Head(r.todo) => MayFail)
  BY <1>1 DEF CacheSet, Left, Stale, IInv, CacheOK
<1>4. Pending(key) BY <1>2, <1>3 DEF Left, Stale
<1>5. CASE key = Head(r.todo) BY <1>3, <1>5 DEF LeavesStale
<1>6. CASE key # Head(r.todo)
  <2>1. PICK q \in Procs : req[q].pc = "inval" /\ \E n \in DOMAIN req[q].todo : req[q].todo[n] = key
    BY <1>4 DEF Pending
  <2>2. \A x \in Procs : req'[x] = IF x = p THEN a ELSE req[x] BY <1>1 DEF Set, IInv
  <2>3. CASE q # p
    <3>1. req'[q] = req[q] BY <2>2, <2>3
    <3>2. Pending(key)' BY <2>1, <3>1 DEF Pending
    <3> QED BY <3>2 DEF Left
  <2>4. CASE q = p
    <3>1. PICK n \in DOMAIN r.todo : r.todo[n] = key BY <2>1, <2>4
    <3> HIDE DEF r
    <3>2. n - 1 \in DOMAIN Tail(r.todo) /\ Tail(r.todo)[n - 1] = key BY <1>1, <1>6, <3>1
    <3>3. Tail(r.todo) # <<>> BY <3>2
    <3>4. a.pc = "inval" /\ a.todo = Tail(r.todo)
      BY <1>1, <3>3 DEF Invalidate, ReqOK, Idle
    <3> HIDE DEF a
    <3>5. req'[p].pc = "inval" /\ req'[p].todo = Tail(r.todo) BY <2>2, <3>4
    <3>6. Pending(key)' BY <3>2, <3>5 DEF Pending
    <3> QED BY <3>6 DEF Left
  <2> QED BY <2>3, <2>4
<1> QED BY <1>5, <1>6

LEMMA NextLeaves ==
  ASSUME IInv, [Next]_vars, NEW key \in Keys, Left(key)', ~Left(key)
  PROVE  LeavesStale(key)
<1>1. CASE UNCHANGED <<users, cache, req>>
  BY <1>1, ThinkLeaves DEF Pending
<1>2. ASSUME NEW p \in Procs, NEW r, Set(p, r), UNCHANGED <<users, cache>>, req[p].pc # "inval"
      PROVE  FALSE
  BY <1>2, PendingKept, ThinkLeaves
<1>3. ASSUME NEW p \in Procs, Arrive(p) PROVE FALSE
  <2>1. req[p].pc = "idle" /\ UNCHANGED <<users, cache>> /\ \E r : Set(p, r)
    BY <1>3 DEF Arrive, FindOne, FindByEmail, FindAll, Update, Remove, Login, Create, MsLogin,
                Config, Starts
  <2> QED BY <1>2, <2>1
<1>4. ASSUME NEW p \in Procs, Lookup(p) \/ Load(p) \/ Check(p) \/ Retire(p) \/ DbFails(p)
      PROVE  FALSE
  <2>1. req[p].pc # "inval" /\ UNCHANGED <<users, cache>> /\ \E r : Set(p, r)
    BY <1>4 DEF Lookup, Load, Check, Retire, DbFails
  <2> QED BY <1>2, <2>1
<1>5. ASSUME NEW p \in Procs, Fill(p) \/ Write(p) \/ Insert(p) \/ Inval(p)
      PROVE  LeavesStale(key)
  BY <1>5, FillLeaves, WriteLeaves, InsertLeaves, InvalLeaves
<1>6. ASSUME NEW k \in Keys, Expire(k) PROVE FALSE
  <2>1. UNCHANGED <<users, req>> /\ cache' = [cache EXCEPT ![k] = Missing] BY <1>6 DEF Expire
  <2>2. Query(key)' = Query(key) BY <2>1, SameQuery
  <2>3. Pending(key)' <=> Pending(key) BY <2>1 DEF Pending
  <2>4. cache'[key] = cache[key] \/ cache'[key] = Missing BY <2>1 DEF IInv, CacheOK
  <2> QED BY <2>2, <2>3, <2>4 DEF Left, Stale
<1>7. CASE Restart BY <1>7 DEF LeavesStale
<1>8. CASE ToggleRedis \/ SetChaosProbability
  BY <1>1, <1>8 DEF ToggleRedis, SetChaosProbability
<1>9. CASE UNCHANGED vars BY <1>1, <1>9 DEF vars
<1> QED BY <1>3, <1>4, <1>5, <1>6, <1>7, <1>8, <1>9 DEF Next, Step

\* Whatever is concurrent, fails or crashes, the request that changed the table deletes
\* the entries it made stale, except those it does not name, those the cache refuses to
\* delete, those a crash leaves and those a late getOrSet brings back.
THEOREM StaleIsExplained == Spec => StaleExplained
<1>1. IInv /\ [Next]_vars =>
        [\A key \in Keys : Left(key)' /\ ~Left(key) => LeavesStale(key)]_vars
  BY NextLeaves
<1> QED BY <1>1, Invariant, PTL DEF Spec, StaleExplained

\* The write of a removed account: what it leaves, and what its handler had found.
LEMMA WriteStands ==
  ASSUME IInv, NEW p \in Procs, Write(p), NEW i \in Ids, users[i] # Nil, users[i].deleted
  PROVE  /\ users'[i] # Nil /\ users'[i].deleted
         /\ users'[i] # users[i] =>
              /\ req[p].id = i
              /\ req[p].op = "config" \/ (req[p].val.id = i /\ ~req[p].val.deleted)
<1> DEFINE r == req[p]
<1>1. /\ r.op \in {"update", "remove", "msLogin", "config"} /\ r.id \in Ids
      /\ r.op # "config" => r.val.id = r.id /\ ~r.val.deleted
  BY ReqOf DEF Write, ReqInv
<1>2. CASE UNCHANGED users BY <1>2
<1>3. CASE users' = [users EXCEPT ![r.id] = Written(r)]
  <2>1. CASE r.id # i BY <1>3, <2>1 DEF IInv, TableOK
  <2>2. CASE r.id = i
    <3>1. users'[i] = Written(r) BY <1>1, <1>3, <2>2 DEF IInv, TableOK
    <3>2. Written(r) \in Account BY WrittenOK DEF Write
    <3>3. users[i] \in Account BY DEF IInv, TableOK
    <3>4. Written(r).deleted
      <4> HIDE DEF r
      <4> QED BY <1>1, <2>2, <3>3 DEF Written, Account
    <3> QED BY <1>1, <2>2, <3>1, <3>2, <3>4, AccountAssumption
  <2> QED BY <2>1, <2>2
<1> QED BY <1>2, <1>3 DEF Write

\* Whatever is concurrent, fails or crashes, a removed account never becomes active again,
\* and the only ones to write it are the configuration and handlers that found it active,
\* in the table or the cache, before they were overtaken by the removal.
THEOREM RemovalIsFinal == Spec => RemovalStands
<1>1. IInv /\ [Next]_vars =>
        [\A i \in Ids : users[i] # Nil /\ users[i].deleted =>
           /\ users'[i] # Nil /\ users'[i].deleted
           /\ users'[i] # users[i] =>
                \E p \in Procs : /\ Write(p) /\ req[p].id = i
                                 /\ \/ req[p].op = "config"
                                    \/ req[p].val.id = i /\ ~req[p].val.deleted]_vars
  <2> SUFFICES ASSUME IInv, [Next]_vars, NEW i \in Ids, users[i] # Nil, users[i].deleted
               PROVE  /\ users'[i] # Nil /\ users'[i].deleted
                      /\ users'[i] # users[i] =>
                           \E p \in Procs : /\ Write(p) /\ req[p].id = i
                                            /\ \/ req[p].op = "config"
                                               \/ req[p].val.id = i /\ ~req[p].val.deleted
    OBVIOUS
  <2>1. CASE UNCHANGED users BY <2>1
  <2>2. ASSUME NEW p \in Procs, Write(p)
        PROVE  /\ users'[i] # Nil /\ users'[i].deleted
               /\ users'[i] # users[i] =>
                    \E q \in Procs : /\ Write(q) /\ req[q].id = i
                                     /\ \/ req[q].op = "config"
                                        \/ req[q].val.id = i /\ ~req[q].val.deleted
    BY <2>2, WriteStands
  <2>3. ASSUME NEW p \in Procs, Insert(p) PROVE users'[i] = users[i]
    BY <2>3 DEF Insert, IInv, TableOK
  <2>4. ASSUME NEW p \in Procs, Arrive(p) PROVE UNCHANGED users
    BY <2>4 DEF Arrive, FindOne, FindByEmail, FindAll, Update, Remove, Login, Create, MsLogin,
                Config
  <2>5. ASSUME NEW p \in Procs,
               Lookup(p) \/ Load(p) \/ Fill(p) \/ Check(p) \/ Inval(p) \/ Retire(p) \/ DbFails(p)
        PROVE  UNCHANGED users
    BY <2>5 DEF Lookup, Load, Fill, Check, Inval, Retire, DbFails
  <2>6. CASE Restart \/ ToggleRedis \/ SetChaosProbability \/ \E key \in Keys : Expire(key)
    BY <2>1, <2>6 DEF Restart, ToggleRedis, SetChaosProbability, Expire
  <2>7. CASE UNCHANGED vars BY <2>1, <2>7 DEF vars
  <2> QED BY <2>1, <2>2, <2>3, <2>4, <2>5, <2>6, <2>7 DEF Next, Step
<1> QED BY <1>1, Invariant, PTL DEF Spec, RemovalStands
=============================================================================
