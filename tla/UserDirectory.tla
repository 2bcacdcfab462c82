--------------------------- MODULE UserDirectory ---------------------------
(***************************************************************************)
(* UsersService and AuthService over two stores: the User table, and       *)
(* CacheService in front of it, which the chaos endpoints can switch off   *)
(* or make unreliable.  A handler is a chain of awaits: cache get,         *)
(* database query, cache set, database write, one cache del after the      *)
(* other.  An action is the code up to the next await, so requests         *)
(* interleave between any two of them.                                     *)
(*                                                                         *)
(* bcrypt is equality of passwords; Microsoft tokens, names and roles are  *)
(* left out; conf stands for the email configuration columns, which        *)
(* EmailService.updateUserEmailConfig writes to the same table.            *)
(***************************************************************************)
EXTENDS Naturals, Sequences, FiniteSets

CONSTANTS
  Procs,    \* requests in flight
  Ids,      \* uuids: bounds the accounts ever created
  Seeded,   \* accounts present at the start
  Emails, Pws, MsIds,
  Ops,      \* the operations clients call in this instance
  Faults,   \* TRUE: database calls may fail and the process may restart
  Nil,      \* null / undefined
  Missing   \* no cache entry (cache-manager answers undefined)

AllOps == {"findOne", "findByEmail", "findAll", "update", "remove", "create",
           "login", "msLogin", "config", "chaos"}

ASSUME OpsAssumption == Ops \subseteq AllOps /\ Seeded \subseteq Ids /\ Faults \in BOOLEAN
ASSUME NilAssumption ==
  /\ Nil # Missing
  /\ {Nil, Missing} \cap (Ids \cup Emails \cup Pws \cup MsIds) = {}

VARIABLES
  users,   \* the User table: id -> row, Nil for an id not in use
  cache,   \* the entries of CacheService
  redis,   \* isRedisEnabled and what chaosProbability amounts to
  req      \* the request each process is serving

vars == <<users, cache, redis, req>>

Account == [email : Emails, pw : Pws, ms : MsIds \cup {Nil},
            deleted : BOOLEAN, conf : BOOLEAN]

\* An id in use is told from one that is not.
ASSUME AccountAssumption == Nil \notin Account

\* A row as a query returns it; findOne and findAll strip the password.
Snapshot == [id : Ids, email : Emails, pw : Pws \cup {Nil}, ms : MsIds \cup {Nil},
             deleted : BOOLEAN, conf : BOOLEAN]

IdKey(i)    == <<"id", i>>       \* user:<id>
EmailKey(e) == <<"email", e>>    \* user:email:<email>
MsKey(m)    == <<"ms", m>>       \* user:microsoftId:<id>
AllKey      == <<"all", Nil>>    \* users:all

Keys == {IdKey(i) : i \in Ids} \cup {EmailKey(e) : e \in Emails}
          \cup {MsKey(m) : m \in MsIds} \cup {AllKey}

-----------------------------------------------------------------------------
(* Queries *)

\* Mutant of Active: the queries forget isDeleted: false.
ActiveOrDeleted == {i \in Ids : users[i] # Nil}

Active == {i \in Ids : users[i] # Nil /\ ~users[i].deleted}

Full(i) == [id |-> i, email |-> users[i].email, pw |-> users[i].pw, ms |-> users[i].ms,
            deleted |-> users[i].deleted, conf |-> users[i].conf]
\* Mutant of Public: the password is not stripped.
PublicWithPassword(i) == Full(i)

Public(i) == [Full(i) EXCEPT !.pw = Nil]

FirstOf(S) == IF S = {} THEN {Nil} ELSE {Full(i) : i \in S}

\* What the factory of a getOrSet may return; findOne's throws where this is Nil.
Query(key) ==
  CASE key[1] = "id"    -> IF key[2] \in Active THEN {Public(key[2])} ELSE {Nil}
    [] key[1] = "email" -> FirstOf({i \in Active : users[i].email = key[2]})
    [] key[1] = "ms"    -> FirstOf({i \in Active : users[i].ms = key[2]})
    [] key[1] = "all"   -> {{Public(i) : i \in Active}}

EmailTaken(e, i) == \E j \in Active \ {i} : users[j].email = e

\* Mutant of IndexViolation: the migration without the partial index.
NoIndex(e, i) == FALSE

\* The partial unique index on email where isDeleted = false.
IndexViolation(e, i) == EmailTaken(e, i)

-----------------------------------------------------------------------------
(* The cache.  Every operation asks shouldSimulateFailure for itself. *)

MayFail == ~redis.on \/ redis.chaos # "never"
MayWork == redis.on /\ redis.chaos # "always"

CacheSet(key, v) == \/ MayWork /\ cache' = [cache EXCEPT ![key] = v]
                    \/ MayFail /\ UNCHANGED cache
CacheDel(key) == CacheSet(key, Missing)

-----------------------------------------------------------------------------
(* Requests *)

PCs == {"idle", "lookup", "load", "fill", "write", "check", "insert", "inval", "done"}
Responses == {"none", "ok", "notfound", "unauthorized", "conflict", "error"}

Idle == [op |-> "none", pc |-> "idle", id |-> Nil, email |-> Nil, pw |-> Nil, ms |-> Nil,
         key |-> AllKey, fill |-> FALSE, val |-> Nil, todo |-> <<>>, resp |-> "none"]

Set(p, r) == req' = [req EXCEPT ![p] = r]

Answer(r, resp, v) == [r EXCEPT !.pc = "done", !.resp = resp, !.val = v,
                                !.key = AllKey, !.fill = FALSE, !.todo = <<>>]

GetOrSet(r, key) == [r EXCEPT !.pc = "lookup", !.key = key, !.val = Nil]

\* The handler goes on with v, the result of the getOrSet it awaited.
Resume(r, v) ==
  CASE r.op \in {"findOne", "findByEmail", "findAll"} -> Answer(r, "ok", v)
    [] r.op = "login" -> IF v # Nil /\ v.pw = r.pw THEN Answer(r, "ok", v)
                         ELSE Answer(r, "unauthorized", Nil)
    [] r.op \in {"update", "remove"} -> [r EXCEPT !.pc = "write", !.val = v]
    \* validateOrCreateMicrosoftUser: by Microsoft id, then by email, then create;
    \* an account found is looked up once more by updateMicrosoftInfo
    [] r.op = "msLogin" ->
         IF r.key[1] = "id" THEN [r EXCEPT !.pc = "write", !.val = v]
         ELSE IF v # Nil THEN GetOrSet([r EXCEPT !.id = v.id,
                                                 !.ms = IF r.key[1] = "ms" THEN Nil ELSE @],
                                       IdKey(v.id))
         ELSE IF r.key[1] = "ms" THEN GetOrSet(r, EmailKey(r.email))
         ELSE [r EXCEPT !.pc = "check", !.val = Nil]

Init ==
  /\ users \in [Ids -> Account \cup {Nil}]
  /\ \A i \in Ids : users[i] # Nil <=> i \in Seeded
  /\ \A i, j \in Seeded : users[i].email = users[j].email => i = j
  /\ \A i \in Seeded : ~users[i].deleted /\ ~users[i].conf /\ users[i].ms = Nil
  /\ cache = [key \in Keys |-> Missing]
  /\ redis = [on |-> TRUE, chaos |-> "never"]
  /\ req = [p \in Procs |-> Idle]

Starts(p, op) == req[p].pc = "idle" /\ op \in Ops

Call(op) == [Idle EXCEPT !.op = op]

\* Bound: a request that may create an account finds a free id.
Creating == {p \in Procs : req[p].op \in {"create", "msLogin"} /\ req[p].pc # "done"}
Room == Cardinality({i \in Ids : users[i] = Nil}) > Cardinality(Creating)

FindOne(p) ==
  /\ Starts(p, "findOne")
  /\ \E i \in Ids : Set(p, GetOrSet([Call("findOne") EXCEPT !.id = i], IdKey(i)))
  /\ UNCHANGED <<users, cache, redis>>

FindByEmail(p) ==
  /\ Starts(p, "findByEmail")
  /\ \E e \in Emails : Set(p, GetOrSet([Call("findByEmail") EXCEPT !.email = e], EmailKey(e)))
  /\ UNCHANGED <<users, cache, redis>>

FindAll(p) ==
  /\ Starts(p, "findAll")
  /\ Set(p, GetOrSet(Call("findAll"), AllKey))
  /\ UNCHANGED <<users, cache, redis>>

Update(p) ==
  /\ Starts(p, "update")
  /\ \E i \in Ids, e \in Emails \cup {Nil}, w \in Pws \cup {Nil} :
       Set(p, GetOrSet([Call("update") EXCEPT !.id = i, !.email = e, !.pw = w], IdKey(i)))
  /\ UNCHANGED <<users, cache, redis>>

Remove(p) ==
  /\ Starts(p, "remove")
  /\ \E i \in Ids : Set(p, GetOrSet([Call("remove") EXCEPT !.id = i], IdKey(i)))
  /\ UNCHANGED <<users, cache, redis>>

Login(p) ==
  /\ Starts(p, "login")
  /\ \E e \in Emails, w \in Pws :
       Set(p, GetOrSet([Call("login") EXCEPT !.email = e, !.pw = w], EmailKey(e)))
  /\ UNCHANGED <<users, cache, redis>>

Create(p) ==
  /\ Starts(p, "create") /\ Room
  /\ \E e \in Emails, w \in Pws :
       Set(p, [Call("create") EXCEPT !.pc = "check", !.email = e, !.pw = w])
  /\ UNCHANGED <<users, cache, redis>>

\* The account Microsoft vouches for; its random password is any one of Pws.
MsLogin(p) ==
  /\ Starts(p, "msLogin") /\ Room
  /\ \E e \in Emails, w \in Pws, m \in MsIds :
       Set(p, GetOrSet([Call("msLogin") EXCEPT !.email = e, !.pw = w, !.ms = m], MsKey(m)))
  /\ UNCHANGED <<users, cache, redis>>

\* POST /email/config by a caller whose token names id: the id is not checked.
Config(p) ==
  /\ Starts(p, "config")
  /\ \E i \in Ids : users[i] # Nil /\ Set(p, [Call("config") EXCEPT !.pc = "write", !.id = i])
  /\ UNCHANGED <<users, cache, redis>>

Arrive(p) == \/ FindOne(p) \/ FindByEmail(p) \/ FindAll(p) \/ Update(p) \/ Remove(p)
             \/ Login(p) \/ Create(p) \/ MsLogin(p) \/ Config(p)

-----------------------------------------------------------------------------
(* getOrSet *)

Lookup(p) ==
  LET r == req[p] IN
  /\ r.pc = "lookup"
  /\ \/ /\ MayFail                              \* cache bypassed: no set later
        /\ Set(p, [r EXCEPT !.pc = "load", !.fill = FALSE])
     \/ /\ MayWork /\ cache[r.key] # Missing    \* hit, null included
        /\ Set(p, Resume(r, cache[r.key]))
     \/ /\ MayWork /\ (cache[r.key] = Missing \/ MayFail)
        /\ Set(p, [r EXCEPT !.pc = "load", !.fill = TRUE])
  /\ UNCHANGED <<users, cache, redis>>

Load(p) ==
  LET r == req[p] IN
  /\ r.pc = "load"
  /\ \E v \in Query(r.key) :
       Set(p, IF r.key[1] = "id" /\ v = Nil THEN Answer(r, "notfound", Nil)
              ELSE IF r.fill THEN [r EXCEPT !.pc = "fill", !.val = v]
              ELSE Resume(r, v))
  /\ UNCHANGED <<users, cache, redis>>

Fill(p) ==
  LET r == req[p] IN
  /\ r.pc = "fill"
  /\ CacheSet(r.key, r.val)
  /\ Set(p, Resume(r, r.val))
  /\ UNCHANGED <<users, redis>>

-----------------------------------------------------------------------------
(* Writes, and the keys they invalidate *)

KeyIf(c, key) == IF c THEN <<key>> ELSE <<>>

\* Mutants of Invalidates: linking a Microsoft id forgets user:<id>; the
\* list of users is never invalidated.
InvalidatesNotId(r) ==
  CASE r.op = "update"  -> <<IdKey(r.id)>> \o KeyIf(r.email # Nil, EmailKey(r.email)) \o <<AllKey>>
    [] r.op = "remove"  -> <<IdKey(r.id), EmailKey(r.val.email), AllKey>>
    [] r.op = "msLogin" -> KeyIf(r.ms # Nil, MsKey(r.ms)) \o <<AllKey>>
    [] r.op = "config"  -> <<>>
InvalidatesNotAll(r) ==
  CASE r.op = "update"  -> <<IdKey(r.id)>> \o KeyIf(r.email # Nil, EmailKey(r.email))
    [] r.op = "remove"  -> <<IdKey(r.id), EmailKey(r.val.email)>>
    [] r.op = "msLogin" -> <<IdKey(r.id)>> \o KeyIf(r.ms # Nil, MsKey(r.ms))
    [] r.op = "config"  -> <<>>

Invalidates(r) ==
  CASE r.op = "update"  -> <<IdKey(r.id)>> \o KeyIf(r.email # Nil, EmailKey(r.email)) \o <<AllKey>>
    [] r.op = "remove"  -> <<IdKey(r.id), EmailKey(r.val.email), AllKey>>
    [] r.op = "msLogin" -> <<IdKey(r.id)>> \o KeyIf(r.ms # Nil, MsKey(r.ms)) \o <<AllKey>>
    [] r.op = "config"  -> <<>>

Or(new, old) == IF new = Nil THEN old ELSE new

\* Mutants of Written: an absent email is written as null; the update writes back
\* the flag of the row it read.
WrittenBlank(r) ==
  LET row == users[r.id] IN
  CASE r.op = "update"  -> [row EXCEPT !.email = r.email, !.pw = Or(r.pw, @)]
    [] r.op = "remove"  -> [row EXCEPT !.deleted = TRUE]
    [] r.op = "msLogin" -> [row EXCEPT !.ms = Or(r.ms, @)]
    [] r.op = "config"  -> [row EXCEPT !.conf = ~@]
WrittenBack(r) ==
  LET row == users[r.id] IN
  CASE r.op = "update"  -> [row EXCEPT !.email = Or(r.email, @), !.pw = Or(r.pw, @),
                                       !.deleted = r.val.deleted]
    [] r.op = "remove"  -> [row EXCEPT !.deleted = TRUE]
    [] r.op = "msLogin" -> [row EXCEPT !.ms = Or(r.ms, @)]
    [] r.op = "config"  -> [row EXCEPT !.conf = ~@]

Written(r) ==
  LET row == users[r.id] IN
  CASE r.op = "update"  -> [row EXCEPT !.email = Or(r.email, @), !.pw = Or(r.pw, @)]
    [] r.op = "remove"  -> [row EXCEPT !.deleted = TRUE]
    [] r.op = "msLogin" -> [row EXCEPT !.ms = Or(r.ms, @)]
    [] r.op = "config"  -> [row EXCEPT !.conf = ~@]

\* Go on to the deletions, or answer if there is none.
Invalidate(r, keys) == IF keys = <<>> THEN Answer(r, "ok", Nil)
                       ELSE [r EXCEPT !.pc = "inval", !.todo = keys, !.val = Nil]

\* prisma.user.update finds the row by id alone: a deleted row is written too.
Write(p) ==
  LET r == req[p] IN
  /\ r.pc = "write"
  /\ \/ /\ ~Written(r).deleted /\ IndexViolation(Written(r).email, r.id)
        /\ Set(p, Answer(r, "error", Nil))
        /\ UNCHANGED users
     \/ /\ Written(r).deleted \/ ~IndexViolation(Written(r).email, r.id)
        /\ users' = [users EXCEPT ![r.id] = Written(r)]
        /\ Set(p, Invalidate(r, Invalidates(r)))
  /\ UNCHANGED <<cache, redis>>

\* create and createMicrosoftUser: look for the email, then insert.
Check(p) ==
  LET r == req[p] IN
  /\ r.pc = "check"
  /\ Set(p, IF EmailTaken(r.email, Nil) THEN Answer(r, "conflict", Nil)
            ELSE [r EXCEPT !.pc = "insert"])
  /\ UNCHANGED <<users, cache, redis>>

Insert(p) ==
  LET r == req[p] IN
  /\ r.pc = "insert"
  /\ \/ /\ IndexViolation(r.email, Nil)
        /\ Set(p, Answer(r, "error", Nil))
        /\ UNCHANGED users
     \/ /\ ~IndexViolation(r.email, Nil)
        /\ \E i \in Ids :
             /\ users[i] = Nil
             /\ users' = [users EXCEPT ![i] =
                  [email |-> r.email, pw |-> r.pw, ms |-> r.ms,
                   deleted |-> FALSE, conf |-> FALSE]]
        /\ Set(p, Invalidate(r, KeyIf(r.op = "msLogin", AllKey)))
  /\ UNCHANGED <<cache, redis>>

\* Mutants of Inval: a deletion the cache refuses is tried again, for ever; it
\* throws, and the keys that are left are not deleted.
InvalRetries(p) ==
  LET r == req[p] IN
  /\ r.pc = "inval" /\ MayWork
  /\ cache' = [cache EXCEPT ![Head(r.todo)] = Missing]
  /\ Set(p, Invalidate(r, Tail(r.todo)))
  /\ UNCHANGED <<users, redis>>
InvalThrows(p) ==
  LET r == req[p] IN
  /\ r.pc = "inval"
  /\ \/ /\ MayWork /\ cache' = [cache EXCEPT ![Head(r.todo)] = Missing]
        /\ Set(p, Invalidate(r, Tail(r.todo)))
     \/ /\ MayFail /\ UNCHANGED cache
        /\ Set(p, Answer(r, "error", Nil))
  /\ UNCHANGED <<users, redis>>

Inval(p) ==
  LET r == req[p] IN
  /\ r.pc = "inval"
  /\ CacheDel(Head(r.todo))
  /\ Set(p, Invalidate(r, Tail(r.todo)))
  /\ UNCHANGED <<users, redis>>

-----------------------------------------------------------------------------
(* Expiry, failures, chaos *)

\* The TTL of an entry runs out (or the cache evicts it).
Expire(key) ==
  /\ cache[key] # Missing
  /\ cache' = [cache EXCEPT ![key] = Missing]
  /\ UNCHANGED <<users, redis, req>>

DbFails(p) ==
  /\ Faults
  /\ req[p].pc \in {"load", "write", "check", "insert"}
  /\ Set(p, Answer(req[p], "error", Nil))
  /\ UNCHANGED <<users, cache, redis>>

Retire(p) ==
  /\ req[p].pc = "done"
  /\ Set(p, Idle)
  /\ UNCHANGED <<users, cache, redis>>

\* isRedisEnabled and chaosProbability live in memory.
Restart ==
  /\ Faults
  /\ req' = [p \in Procs |-> Idle]
  /\ redis' = [on |-> TRUE, chaos |-> "never"]
  /\ UNCHANGED <<users, cache>>

ToggleRedis ==
  /\ "chaos" \in Ops
  /\ \E b \in BOOLEAN : redis' = [redis EXCEPT !.on = b]
  /\ UNCHANGED <<users, cache, req>>

SetChaosProbability ==
  /\ "chaos" \in Ops
  /\ \E c \in {"never", "sometimes", "always"} : redis' = [redis EXCEPT !.chaos = c]
  /\ UNCHANGED <<users, cache, req>>

Step(p) == \/ Lookup(p) \/ Load(p) \/ Fill(p) \/ Write(p) \/ Check(p) \/ Insert(p)
           \/ Inval(p) \/ Retire(p)

Next == \/ \E p \in Procs : Arrive(p) \/ Step(p) \/ DbFails(p)
        \/ \E key \in Keys : Expire(key)
        \/ Restart \/ ToggleRedis \/ SetChaosProbability

Spec == Init /\ [][Next]_vars

\* The event loop serves every request.  Nothing is assumed of the TTLs, lest they
\* repair what the handlers leave behind.
FairSpec == Spec /\ \A p \in Procs : WF_vars(Step(p))

-----------------------------------------------------------------------------
(* Properties *)

ReqOK(r) ==
  /\ DOMAIN r = DOMAIN Idle
  /\ r.op \in AllOps \cup {"none"} /\ r.pc \in PCs /\ r.resp \in Responses
  /\ r.id \in Ids \cup {Nil} /\ r.email \in Emails \cup {Nil}
  /\ r.pw \in Pws \cup {Nil} /\ r.ms \in MsIds \cup {Nil}
  /\ r.key \in Keys /\ r.fill \in BOOLEAN
  /\ IF r.key = AllKey /\ r.op = "findAll" THEN r.val = Nil \/ r.val \subseteq Snapshot
     ELSE r.val \in Snapshot \cup {Nil}
  /\ \A n \in DOMAIN r.todo : r.todo[n] \in Keys

\* The shape of the table, the cache and the requests.
TypeOK ==
  /\ users \in [Ids -> Account \cup {Nil}]
  /\ DOMAIN cache = Keys
  /\ \A key \in Keys \ {AllKey} : cache[key] \in Snapshot \cup {Nil, Missing}
  /\ cache[AllKey] = Missing \/ cache[AllKey] \subseteq Snapshot
  /\ redis \in [on : BOOLEAN, chaos : {"never", "sometimes", "always"}]
  /\ DOMAIN req = Procs /\ \A p \in Procs : ReqOK(req[p])

\* Two accounts that are not deleted never share an email, whatever races of
\* registration, Microsoft login, update and removal (the partial unique index).
ActiveEmailsUnique ==
  \A i, j \in Active : users[i].email = users[j].email => i = j

\* Whatever interleaves, an entry is about the account its key names, was cached
\* while that account was active, and under user:<id> and users:all carries no
\* password hash.
CacheEntriesSound ==
  \A key \in Keys : cache[key] \notin {Missing, Nil} =>
    CASE key[1] = "id"    -> LET v == cache[key] IN v.id = key[2] /\ ~v.deleted /\ v.pw = Nil
      [] key[1] = "email" -> cache[key].email = key[2] /\ ~cache[key].deleted
      [] key[1] = "ms"    -> cache[key].ms = key[2] /\ ~cache[key].deleted
      [] key[1] = "all"   -> \A v \in cache[key] : ~v.deleted /\ v.pw = Nil

Quiet == \A p \in Procs : req[p].pc \in {"idle", "done"}

\* An entry that no query would return now.
Stale(key) == cache[key] # Missing /\ cache[key] \notin Query(key)

\* "Automatic cache invalidation on data updates/deletes": once every request has
\* been answered, user:<id> has no other account data than the table.
IdCoherent == Quiet => \A i \in Ids : ~Stale(IdKey(i))

\* The same for the list of users.
ListCoherent == Quiet => ~Stale(AllKey)

\* validateOrCreateMicrosoftUser: "Check if user with this Microsoft ID already
\* exists", and create one only if not: an account that exists can log in again.
MsLoginWorks ==
  \A p \in Procs : req[p].op = "msLogin" => req[p].resp \notin {"conflict", "error"}

\* A removal stands: no step makes the account active again.  One that still writes
\* the row is of a handler that found the account active, in the table or the cache,
\* before the removal came between its check and its write by id, or of the
\* configuration, which does not look.
RemovalStands ==
  [][\A i \in Ids : users[i] # Nil /\ users[i].deleted =>
       /\ users'[i] # Nil /\ users'[i].deleted
       /\ users'[i] # users[i] =>
            \E p \in Procs : /\ Write(p) /\ req[p].id = i
                             /\ \/ req[p].op = "config"
                                \/ req[p].val.id = i /\ ~req[p].val.deleted]_vars

\* Every request is answered.
RequestsEnd == \A p \in Procs : req[p].pc # "idle" ~> req[p].pc = "idle"

\* Some request is still to delete the entry.
Pending(key) ==
  \E p \in Procs : req[p].pc = "inval" /\ \E n \in DOMAIN req[p].todo : req[p].todo[n] = key

\* Stale, and nobody is going to delete it: left to its TTL.
Left(key) == Stale(key) /\ ~Pending(key)

\* The keys a handler that writes the table names in its deletions: user:<id> and
\* users:all, except for registrations (users:all) and the configuration (both); the
\* email given to an update, or found by a removal; the Microsoft id being linked.
Names(r, key) ==
  CASE key[1] = "id"    -> r.op # "config"
    [] key[1] = "all"   -> r.op \notin {"config", "create"}
    [] key[1] = "email" -> \/ r.op = "update" /\ r.email = key[2]
                           \/ r.op = "remove" /\ r.val.email = key[2]
    [] key[1] = "ms"    -> r.op = "msLogin" /\ r.pc = "write" /\ r.ms = key[2]

\* A getOrSet stores a value it read before a write that has invalidated the key; a
\* handler's write changes what a key it does not name answers; the cache refuses the
\* deletion of this very key; the process dies before the deletions.
LeavesStale(key) ==
  \/ \E p \in Procs : Fill(p) /\ req[p].key = key /\ req[p].val \notin Query(key)
  \/ \E p \in Procs : (Write(p) \/ Insert(p)) /\ ~Names(req[p], key)
  \/ \E p \in Procs : Inval(p) /\ Head(req[p].todo) = key /\ MayFail
  \/ Restart

\* Whatever interleaves, an entry that no longer agrees with the table is deleted by
\* the request that changed the table, except in these four ways.
StaleExplained ==
  [][\A key \in Keys : Left(key)' /\ ~Left(key) => LeavesStale(key)]_vars
=============================================================================
