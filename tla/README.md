# Verification of the NestJS email client

TLA+ models of the backend under `src/` (`src/src/**/*.ts`, `src/prisma`), the
TLC instances that check them and the TLAPS proofs about them. Paths below are
relative to `src/src/` unless they start with `prisma/` or `docs/`.

Contents: 1 inventory, 2 how the code becomes a model, 3 the modules, 4 the
runs, 5 fairness, 6 proofs, 7 assumptions about code outside the repository,
8 where code and docs disagree, 9 not modelled, 10 plan.

## 1. Inventory

One node process serves HTTP requests. It keeps users and mail in PostgreSQL
through Prisma, caches users through cache-manager, and talks to IMAP, POP3 and
SMTP servers and to Microsoft Graph. Nothing in the program takes a lock: between
two awaits a handler runs alone, at every await any other handler may run.
Only a statement, the per-message transactions of the Graph sync and the two
unique indices are atomic with respect to other requests.

| component | state | operations | talks to |
|---|---|---|---|
| mail store (`email/email.service.ts`, `microsoft-graph/microsoft-graph-email.service.ts`) | table `Email`, the `*Enabled` columns of `User` | `fetchEmails` over POP3, IMAP, Graph; `getEmailById`, `getEmailDetails`; mark read, mark deleted, move; `updateUserEmailConfig`; paged reads | mail servers, `User` |
| sending (`sendEmail` in both services) | rows of folder SENT | send by SMTP or Graph, then record | mail servers, `User` |
| users (`users/users.service.ts`) | table `User` | create, find (by id, email, Microsoft id, all), update, soft delete, link and create Microsoft accounts | cache |
| login (`auth/`) | the MSAL session (PKCE codes, state) | local login, `validateOrCreateMicrosoftUser`, OAuth redirect and callback | users, Microsoft |
| cache (`cache/cache.service.ts`) | entries with a TTL, `isRedisEnabled`, `chaosProbability` | get, set, del, `getOrSet` | cache-manager |
| chaos (`chaos/`) | the two switches of the cache | toggle, set probability | cache |
| rate limit (`common/guards/throttler.guard.ts`) | a map of counters | `canActivate` | every route |
| credentials (`prisma/prisma.service.ts`, `encryption/`) | encrypted columns, the key derived from the salt | encrypt on write, decrypt on read (Prisma middleware) | `User` |
| gateway (`health/metrics.middleware.ts`, the guard above) | counters, the in-progress gauge | observe a request | every route |

What makes this hard, by component:

* **Mail store.** Every fetch is "look up by Message-ID, create if absent" with an
  await between; two fetches of one mailbox race, and only
  `@@unique([messageId, userId])` decides. The Graph sync runs one transaction
  per message in parallel and answers at the first failure while the rest run on.
  Marks check the owner, await, and write by id alone. A sync writes flags over
  flags the user set. Correct means: no two copies of a message, no success
  without storage, no acknowledged mark lost, no row of another user read or
  written, every request ended.
* **Sending.** Two systems without a transaction: the mail leaves and then a row
  is written. Correct means: no SENT row without a mail that left, "ok" means
  sent and recorded.
* **Users and cache.** A cache entry is filled with a value read before a
  concurrent write deleted the key; a crash or a cache failure falls between the
  write and the deletion; absence (`null`) is cached too. Correct means: active
  emails unique, entries about the right account, removals that stand, and an
  entry that stays stale only where the code names no deletion for it, a deletion is
  refused or lost in a crash, or a read was overtaken.
* **Rate limit.** Bursts around the end of a window; a client that keeps asking
  must get in again.
* **Reading page by page.** Four ways of paging with their own arithmetic (IMAP
  counts back from the newest message, POP3 forward from the oldest), a session
  that numbers the messages once, two queries without a transaction, and mail
  that comes and goes between pages. Correct means: the pages of a mailbox that
  stays as it is are a partition, arriving mail hides nothing, walks end.
* **OAuth session.** One set of PKCE codes per session, overwritten by a second
  tab; sessions that are lost on the way; a callback address that is opened twice
  or elsewhere. Correct means: nobody is logged in as someone else, who logs in in one
  tab is not refused, every login ends.
* **Credentials.** A restart without a configured salt changes the key. Correct
  means: a saved password is read back as it was, or not at all.
* **Gateway.** The gauge comes down in a callback that does not come for a client
  that went. Correct means: it is explained by the requests there are and those clients.

`PROJECT.json` lists each hazard at its line with the properties that guard it.

## 2. How the code becomes a model

* One action is the code of a handler from one `await` to the next: the query it
  awaited has answered, the code runs on until it awaits again. Actions of
  different requests interleave freely. `pc` names the await a request is at.
* A request is a record in `req[p]`. Its local variables are fields; they are
  reset when the handler returns, and the response stays until `Retire`
  (`Respond` in Outbox), so that invariants can speak of responses.
* In `MailStore` the conversation with a mail server is one step, in which its answer
  arrives: any page within the bound, or a failure. It changes no database state.
  `Retrieval` follows the same conversation message by message.
* `Faults = TRUE` lets every database call fail (`DbFails`, `Fails`) and the
  process restart at any moment (`Restart`: requests are lost, tables stay, open
  transactions roll back). Failures are actions beside the steps that are fair:
  liveness never relies on one.
* Messages, addresses, passwords and ids are model values. A password is compared
  for equality (bcrypt). Names, subjects, bodies, attachments and roles are left out.
* `Nil` is null/undefined; in the cache `Missing` (no entry) and `Nil` (a cached
  null, which cache-manager returns as a hit) are different.

## 3. The modules

**`Mailbox`** is the abstract promise: per user and Message-ID at most one copy,
which is delivered once, never vanishes, and changes by mark, move or, if
`Synced`, by Graph's flags.

**`MailStore`** is the detailed model. `rows` is table `Email`, `cfg` the enabled
methods, `req` the requests.

| action | code |
|---|---|
| `FetchEmails`, `GraphEmails` | `fetchEmails` picks a method; the Graph route does not look at the configuration |
| `OpenImap`, `OpenPop3`, `OpenGraph`, `OpenFails` | the protocol handler reads the user again; the server answers |
| `SaveSkip`, `SaveFind`, `SaveCreate`, `SaveDone` | `EmailService.saveEmailsToDatabase`, one message after the other |
| `TxnFind`, `TxnUpdate`, `TxnCreate`, `TxnAll` | `MicrosoftGraphEmailService.saveEmailsToDatabase`; a rejected `Promise.all` is `pc = "drain"` |
| `ReadBack` | the query "return with proper IDs" (IMAP, Graph) |
| `GetEmailById`, `GetEmailByIdFallback`, `GetEmailDetails`, `Details*` | the single-message handlers of Graph |
| `MarkFind`, `MarkUpdate` | mark as read, mark as deleted, move |
| `UpdateConfig` | `updateUserEmailConfig` as far as fetching reads it |

The requested IMAP header fields are modelled as the set in the code; that
`message-id` is not among them is why IMAP messages come without an id.
The Graph lookup and write of one message are two steps although they share a
transaction: READ COMMITTED does not hold other writers off between them.

**`UserDirectory`** is `UsersService`, `AuthService` and `CacheService`. `Lookup`,
`Load` and `Fill` are `getOrSet`, `Resume` is the code behind it in each
handler, `Write`, `Check`, `Insert` are the table's writes and `Inval` one
`cacheService.del` after another in the order of the code (`Invalidates`). Each
cache call asks `shouldSimulateFailure` for itself (`MayFail`, `MayWork`). `Expire` is the end
of an entry's TTL. `Left` is an entry that is stale and that no request is going to delete;
`LeavesStale` lists the four steps that may leave one, with `Names` the keys a writer deletes.

**`CredentialVault`** is the Prisma middleware with `EncryptionService`: the
`emailPassword` column is a text and the key it was encrypted under, relative to
the running process (`own`, `other`, `legacy`). `UpdateUser` is an update through the
middleware, `FindUser` what a find may return, `Boot` the construction of the service
at a start of the process.

**`Outbox`** extends it with both `sendEmail` handlers (`Dispatch`, `GraphUser`,
`Accept`, `Refuse`, `Record`) and a client that retries (`SendEmail`, `GiveUp`, `Respond`).
The password a handler sends with is what `FindUser` returned; `UpdateConfig`
writes through `UpdateUser`; `Restart` is `Boot` for the vault.

**`Retrieval`** follows a client that asks for page 1 and goes on while the answer
says `hasMore`.

| action | code |
|---|---|
| `Open` | `openBox`; POP3 `connect`, `USER`/`PASS`, `STAT` (`PageRange`, `HasMore` are the page arithmetic) |
| `Retrieve`, `RetrieveFails`, `FetchEnd` | the `message` events and `end`; `retrieveNext` |
| `Count`, `Page`, `Reply` | Graph's count and page in this order; `getEmailsFromDatabase`'s two queries in any order |
| `Fails` | an `error` event, a rejected query |
| `FirstPage`, `NextPage`, `EndWalk`; `Arrive`, `Disappear` | the client; the mailbox |

**`OAuthSession`** is `MicrosoftMsalStrategy` with the session middleware. Every
request works on its own copy of the session (`tab[t].pkce`), loaded when it arrives
and saved when one that changed it is answered; that is where two tabs lose each
other's codes. `Authenticate` is `authenticate` with its three ways, `GetAuthCodeUrl`,
`AcquireTokenByCode` and `Validate` the code behind its awaits. State and verifier
of a flow are one number, reused when nobody can name it any more (`Become`).

**`RateLimit`** is `RateLimitGuard`. Records keep their age instead of a
timestamp, and a count that is above the limit stays at `Limit + 1` (`Counted`), which makes the
state finite; `recent[k][t]` (how many requests were admitted since `t` ticks ago) and `refused` are
history variables for the properties. **`Gateway`** extends it with what surrounds the guard:
`Arrive` is `MetricsMiddleware` and the guard, which run without an await between them, `End`
the end of the response, `Finish` the `finish` event the gauge waits for, `Disconnect` a client
that goes first.

`MCMailStore`, `MCUserDirectory`, `MCOutbox`, `MCRetrieval`, `MCOAuthSession`,
`MCGateway` add symmetry sets and constant definitions for TLC where there are any. `MailStoreProofs`,
`MailboxProofs`, `UserDirectoryProofs`, `OutboxProofs`, `RetrievalProofs`, `OAuthSessionProofs`,
`GatewayProofs` and `Counting` hold the proofs.
Operators named as mutants in their comments are deliberate faults used to show
that each property can fail; no specification uses them.

## 4. The runs

| run | instance | question | distinct states |
|---|---|---|---|
| `mailstore_standard` | 2 requests, 1 user, 2 messages, 2 folders, pages up to 2, POP3, read/delete/move/config, faults | no duplicates, "ok" means stored, acknowledged marks stick, implements `Mailbox` without `Sync` | 547k |
| `mailstore_graph` | 2 requests, 1 user, 2 messages, pages up to 2; Graph and IMAP fetches, single messages, deletes, config, faults | no duplicates and "ok" means stored with parallel transactions; implements `Mailbox` with `Sync` | 682k |
| `mailstore_users` | 2 requests, 2 users with the same message; POP3, Graph, delete, faults, fairness | nobody is given another user's rows, a row is written only by steps of its owner's requests; every request ends | 689k |
| `users_concurrent` | 2 requests, 2 accounts of which one may be registered, 2 emails, 1 Microsoft identity; create, update, remove, login by Microsoft | active emails unique, cache entries about the right active account, removals stand whatever they overtake, what can leave an entry stale | 6.5M |
| `users_sequential` | 1 request at a time, 2 accounts, 2 emails, 2 passwords, no faults | `user:<id>` and `users:all` are never stale | 388k |
| `users_liveness` | 2 requests, 1 account from an empty table; list, create, remove, config, cache switch and failures, faults, fairness | requests end; an entry of `user:<id>` or `users:all` stays stale only for one of the four reasons of `LeavesStale` | 251k |
| `outbox` | 2 requests, 1 message tried twice, 5 configurations, 2 passwords, a salt or none, faults, fairness | SENT rows stand for mail that left, "ok" is true, passwords survive updates and restarts, sends end | 131k |
| `retrieval` | 4 messages, pages of 1 or 2, all four ways of reading, faults, fairness | pages partition a steady mailbox, arriving mail hides none, order over pages, walks end | 199k |
| `oauth` | 2 tabs of one browser or of two, 1 lost session or restart, faults, fairness | no login as someone else, an undisturbed login is not refused, logins end | 300k |
| `gateway` | 2 paths, 2 open requests, limit 2, window of 2 ticks, 1 client per path that goes, fairness | the gauge is explained, at most two windows' worth in any window, clients that keep asking while refused get in again | 266k |
| `doc_imap_empty` | 1 request | section 8: IMAP returns nothing | violated |
| `doc_microsoft_relogin` | 1 request | section 8: second Microsoft login refused | violated |

**Why these bounds.** A race in this code is between two handlers on one row or
one key, so two requests, with retries and restarts making room for later ones,
reach every order of two; a third request would only repeat a role. The
proofs of section 6 do not have these bounds. Pages of two give a failed and a
running transaction, a saved and an unsaved message, a message twice on a page
(POP3). Two users and one message suffice for isolation: rows of a user are told
apart only by the user. `Ids` has one id per user and message, since more rows
cannot exist (`IdsAssumption`; `mailstore_*` would deadlock or lose inserts
otherwise). In `UserDirectory` `Ids` bounds the accounts ever created and `Room`
keeps a creation from starting without a free id. `users_concurrent` has no failures and no
restarts; `users_liveness` has them, with the list of users and the configuration, and checks
`StaleExplained` beside them on one account. It is small because liveness is checked on it. Together the two reach every
kind of key and each of the four steps of `LeavesStale`: without any one of them a run fails. For all
operations and keys at once it is a theorem. `users_sequential` has no
registrations and no email configuration changes and no faults, because with them its properties do
not hold (section 8); it shows that nothing else breaks them.

`MaxTries` bounds how often a client sends: two tries are the first and a retry that overlaps
it; two passwords tell a new one from the last. `MaxMsgs = 4` with pages of two has
a full page, a last page of one, an empty mailbox and arrivals between any two of them;
`tie` makes two neighbours equal in time, which is all the order can be unsure of
at one page boundary. In `OAuthSession` a session id is known to a cookie
or a request and a flow to a tab, a session or a code of one, so four ids and eight flows always leave a
fresh one: `PoolSizesAssumption` says how many that takes, and the proofs derive it (with fewer, `Min` of the empty set would end the run);
one loss can fall at any moment of a login. Counts in `RateLimit` have no bound in a guard: the
code compares them with the limit and nothing else, so counts above it behave alike and the model
stops at `Limit + 1`, while a client may be refused any number of times in a window. Limit and
window of 2 are the smallest in which a burst at the end of a window, one at its
start, and a window with both differ. `MaxGone = 1` makes the gauge differ from the
requests in progress.

Symmetry sets are used only where safety alone is checked or, in
`mailstore_standard` and `mailstore_graph`, a refinement without fairness. Deadlock checking is on in every run.

## 5. Fairness

`FairSpec` has weak fairness of `Step(p)` per request: node's event loop serves
every promise that settled, and database, mail servers and Graph settle theirs.
Failing calls (`Fails`, `DbFails`, `GetAuthCodeUrlFails`) are not part of `Step` in
`UserDirectory`, `Outbox`, `Retrieval` and `OAuthSession`: they may happen at any
time and never need to. In `MailStore` a failure is a branch of its step and equally never
owed. That a mail server answers or ends with an `error` event is an
assumption: `imap` and `node-pop3` connections that end without one settle nothing
(section 8, `email/email.service.ts:404`).

* `UserDirectory`: nothing is assumed of `Expire(key)`. An entry may end at any time and is never
  owed an end, so that no TTL repairs what a handler leaves behind. That an entry `Left` stale is
  gone after its TTL is the promise of cache-manager and no result of these checks.
* `Retrieval`: `Step` includes the client that goes on while there is more; without it
  `WalkEnds` would say nothing of `hasMore`.
* `OAuthSession`: serving is weakly fair; `Decide`, the user who signs in or closes the
  tab, is strongly fair, because a user who declines is sent to Microsoft again
  (section 8) and might do so for ever.
* `Gateway`: time passes (weak); the client of each path keeps asking, refused or not (strong,
  since asking needs a free request). That is the hard case for `ServedAgain`, as refused
  requests are counted too. That handlers and answers end (weak) only frees the bounded `Requests`
  for that client: in the code a handler that never settles holds up no other request, and
  the limiter does not see it.

Nothing else is fair: new requests, retries, restarts, losses, chaos and configuration
changes may stop or never happen.

## 6. Proofs

Every type invariant, safety invariant and action property that a passing run checks, and the
refinement `ImplementsMailbox`, is also the statement of a theorem, proved for every value of the
constants from the assumptions named in the modules. Each proof module has an inductive
invariant `IInv`, one lemma per action, and the theorems at its end.

| module | theorem | states |
|---|---|---|
| `MailStoreProofs` | `TypeCorrect`, `NoDuplicateMail`, `SuccessMeansStored`, `OnlyOwnMail` | `[]TypeOK`, `[]OneRowPerMessage`, `[]StoredOnOk`, `[]ReturnsOwnMail` |
| `MailboxProofs` | `OnlyOwnersWrite`, `MailboxImplemented`, `MarksAreKept` (no Graph) | `TouchedByOwner`, `ImplementsMailbox`, `[]MarkAcknowledged` |
| `UserDirectoryProofs` | `TypeCorrect`, `OneAccountPerEmail`, `CacheIsSound` | `[]TypeOK`, `[]ActiveEmailsUnique`, `[]CacheEntriesSound` |
| | `StaleIsExplained`, `RemovalIsFinal` | `StaleExplained`, `RemovalStands` |
| | `IdEntriesCurrent`, `ListCurrent` (one request at a time) | `[]IdCoherent`, `[]ListCoherent` |
| `OutboxProofs` | `TypeCorrect`, `SentRowsStandForMail`, `OkIsTrue`, `PasswordReadBack`, `PasswordsAreSaved` | `[]TypeOK`, `[]RecordedWasSent`, `[]OkIsDone`, `[]PasswordKept`, `[]UsesSavedPassword` |
| `RetrievalProofs` | `TypeCorrect`, `NothingIsMissed`, `PagesPartition`, `WalkInOrder` | `[]TypeOK`, `[]NothingMissed`, `[]EachOnce`, `[]PagesInOrder` |
| `OAuthSessionProofs` | `TypeCorrect`, `LoginIsOwn`, `AloneIsServed` | `[]TypeOK`, `[]OwnLogin`, `[]AloneSucceeds` |
| `GatewayProofs` | `TypeCorrect`, `GaugeIsExplained`, `BurstIsBounded` | `[]GatewayTypeOK`, `[]GaugeAccounts`, `[]TwoWindows` |

Three theorems have hypotheses of their own, the ones of the runs that check the property.
`MarksAreKept` needs `~GraphUsed`, as in `mailstore_standard`: a Graph sync writes its own flags over
a mark (section 8). `IdEntriesCurrent` and `ListCurrent` need `Serial`, which is `users_sequential`: one request at a time, no failures, no
operations of the email configuration or chaos; `ListCurrent` also needs that nobody calls `create`, which
deletes no key. Without them the properties do not hold, and section 8 says why.

**`MailStoreProofs`.** Neither `StoredOnOk` nor `ReturnsOwnMail` is inductive. `StoredOnOk` says nothing of a request until it
answers, so `IInv` adds what each request knows while it runs (`ReqInv`): the
sequential loop has stored the messages before `k`; a Graph transaction that is
`ok` has stored its message, one in `update` holds a row of that user and message;
in `readback` the whole page is stored. What a request is about to return are rows of its
user, which is all `ReturnsOwnMail` needs. `OneRowPerMessage` is preserved by
`SaveCreate`, `TxnCreate` and `DetailsCreate` because the index refuses, and by
the updates because they never write the user or the Message-ID.

What makes the argument work with any number of concurrent requests is that the
table only grows: every step takes the table `t` to a table `s` with `Keeps(t, s)`,
no row gone, no owner or Message-ID changed. `KeepsReqInv` shows that what a
request knows survives every such step, so each action needs an argument about
its own request only. `InsertTable` and `EditTable` are the two ways the table
changes, `AnswerOK` the end of every handler; then there is a lemma per action,
and `NextInv` puts them together.

**`MailboxProofs`.** `StepWrites` says what a step of request `p` may do to the table: nothing, or one write
(`WritesOnce(p)`), an insert of a message its user had no copy of or an edit of flags or
folder, of a row that is of `p`'s user, and no edit changes the owner; that is `OnlyOwnersWrite`. For the refinement
`Box` is the mailbox a table stands for; `CopyWritten` says that a write changes the copy of
one user and message, `InsertDelivers` and `EditMaps` which action of `Mailbox` it is, and
`StepMaps` puts them together. For `MarksAreKept` an acknowledged flag survives every edit but
Graph's (`FlagsStay`), and the answer is only given by the step that sets it (`OnlyMarkUpdate`).

**`UserDirectoryProofs`.** `TableOK`, `CacheOK` and `ReqInv` are stated of a table given as
a value, and accounts never go from it (`Keeps`), so that what a cache entry or a request
holds survives the steps of others. A cache entry is what its factory returned at some time
(`EntryOK`): about the right account, active then, without a password where the code strips it.
`Asks` ties the key a request waits for to its operation, which is what makes
`CacheEntriesSound` inductive: an entry is filled from a value loaded for that key.
`ActiveEmailsUnique` holds because the partial index refuses (`InsertTable`, `EditTable`).
`StaleIsExplained` has a lemma per action: an entry becomes stale by a fill or a write, and a write
changes what a key answers only if the deletions that follow it name the key (`NamedIsListed`) or the writer does
not; a pending deletion stays pending until it is done, refused, or lost in a restart
(`PendingKept`). For `RemovalIsFinal` the invariant says that a request about to write holds an
entry about its own account, active when it was read; no write clears `deleted` (`WriteStands`). The theorems
under `Serial` add `SerialInv(K)`: a stale entry under a key of `K` has an invalidation pending,
and a request that holds a value to store or a row to write read it from the table as it is.
`K` is a parameter because the list is only among those keys without registrations.

**`OutboxProofs`.** The invariant counts: accepted copies plus the requests
that may still send are at most the client's tries (`Sending`), rows plus the requests
that may still record are at most the accepted copies (`Recording`). A step of a request moves it from
one of these sets to the next and one number up with it, so `Turn`, which says how
both cardinalities change, serves every action; a restart empties both sets. `QuietInv` is
every step that neither sends nor records. For the password the invariant says whose key the
column is under: only without a salt may it be another's.

**`RetrievalProofs`.** Pages are sequences cut from an order, so the proof starts with
orders: `Rank` is how many come before, ranks are a bijection onto `0..n-1` (`RankIs`), and
`OldestFirstIs` and `NewestFirstIs` say where in a list a message is. With messages of the same time
the place is only bounded, by those surely before it (`Lowest`) and those possibly before it
(`Highest`). `IInv` has one part per property:

* `Reach`: a message that was there at the start and has not been seen is still `Ahead`: in the
  page being fetched, at a number the session will still ask for, or beyond this page with
  `hasMore` true (`Covers` is that page arithmetic);
* `StillOK`: while nothing arrives or goes, numbers and totals a request read are those of the mailbox (`Knows`);
* `Once`: of such a mailbox each message has been seen or fetched once if its place is before
  the point the walk has reached, and not at all otherwise (`Counted`);
* `OrderOK`: what was on an earlier page may have a place before this page, what is on this one a place
  on it (`Ordered`), so that none of this page is surely before one of an earlier.

The conditions in them are those of the properties: nothing removed and no `skew` for
`NothingMissed`, a mailbox that stays as it is for the other two, and for `NothingMissed` and `EachOnce`
an order of messages of one time that is the same for each page (`SteadyOrder`).

**`OAuthSessionProofs`.** The strengthening is ownership. `Names(.., b, s)` says that browser
`b` knows session `s`, by its cookie or a request; `Holds(.., b, f)` that flow `f` is in a request, a
session, a redirection or a code of `b`. `OneSid` and `OneFlow` say that each has one browser at most.
A login then is the user's own, since code and verifier are of one flow. A step adds names and
flows only of its own browser or fresh ones (`SidGain`, `FlowGain`), which `RawStep` turns into the
invariant for all steps at once; `BecomeInv` is the reuse of what nobody can name. That fresh ones exist
is counted, not assumed away: `PoolSizes` bounds what is in use (`Counting`). `AloneOK` is what an
undisturbed login has at each point: its codes, in its own session or at Microsoft, unused.

**`GatewayProofs`.** `GatewayTypeOK` contains that no tick admits more than the limit, and
`TwoWindows` speaks of any span of `Ttl`. Both follow from `Windows`: what was admitted in this tick was
counted by the current window; what was admitted within any span was counted by it or, where the
span is longer than its age, by it and at most one other of `Limit`. `RequestStep` treats all
steps of a request at once: how it moves the gauge and the lost clients must equal how it moves
the requests in progress.

**`Counting`** has what the others need of cardinalities: one element moved (`CountStep`), the least element
of a set of numbers, the size of a range and of a union, and that a pool larger than what is
in use has a fresh element.

Only model-checked is what the prover cannot do: the liveness properties `RequestsEnd`,
`WalkEnds`, `LoginEnds` and `ServedAgain` under the fairness of section 5 (`ENABLED` is beyond it). The
two `doc_*` runs show violations, of which there is nothing to prove.

## 7. Assumptions about code outside the repository

* PostgreSQL runs transactions at READ COMMITTED; a call that throws has not
  written (a commit whose reply is lost is not modelled for the `Email` and `User` tables).
* Prisma refuses null for a required column, and an object where the schema has a
  string; it accepts `undefined` as "not given".
* cache-manager 7 returns `undefined` for a miss and a stored `null` as `null`, and may drop an
  entry at any time.
  If the configured store turns out to be in memory, a restart empties it: that
  is `Restart` followed by `Expire` of every key, which the model allows.
* Microsoft Graph accepts the program's token for the routes it calls, and lists
  a message once per page. A POP3 server may list a message twice or without an id.
* A fresh uuid differs from all ids in use; so do fresh PKCE codes and session ids.
* A mail session keeps the numbering of the mailbox it opened; a message removed
  meanwhile may still be retrieved or not (IMAP), or fails (POP3).
* express-session's MemoryStore returns copies and saves a session when a request that
  changed it is answered. Microsoft redeems an authorization code once, and only with the
  verifier of the challenge the flow started with.
* Node emits no `finish` for a response whose client has gone, though the handler still
  ends it. AES-CBC with another key gives an error or a text that was nobody's password.

## 8. Where code and docs disagree

Shown by a run:

* `doc_imap_empty`: IMAP asks for header fields without MESSAGE-ID
  (`email/email.service.ts:293`), so every message is skipped by the save and the
  answer is empty.
* `doc_microsoft_relogin`: the first Microsoft login caches null for the identity
  and the email it then creates, so the second is answered 409 until the entries
  expire (`users/users.service.ts:240`, `auth/auth.service.ts:56`).

Without a run of their own; the models have the behaviour, and the passing runs are
stated so as to hold beside it:

* a Graph sync writes `isDeleted: false` over mail the user
  deleted (`microsoft-graph/microsoft-graph-email.service.ts:434`, against
  `docs/overview.md:139`): the abstract `Mailbox` allows it only as `Synced`;
* two overlapping POP3 fetches of a new message: one answers an error although
  the message is stored (`email/email.service.ts:634`);
* a Graph message that was moved is missing from the answer, since the read back filters
  on the fetched folder (`microsoft-graph-email.service.ts:269`);
* the second check of `imapEnabled`, called unreachable in a comment, fails if
  the configuration changes in between (`email.service.ts:236`);
* `getEmailById` of a message only Graph has always answers 404: the raw answer
  does not fit the model (`microsoft-graph-email.service.ts:183`);
* after a change of password the old one logs in until the entry expires, since
  no email key is deleted (`users.service.ts:123`);
* a login before registration caches null for the email, and `create` deletes no key, so
  the login after it fails; the list of users misses the new one too (`users.service.ts:40`);
* a read that overlaps a write fills the cache with the old row (`cache.service.ts:94`);
* the email configuration is written behind `user:<id>` (`email.service.ts:69`);
* an update checks the account, awaits, and writes by id alone: if a removal comes between, or
  the check was answered by a stale entry, the removed row is written (`users.service.ts:114`; the
  same holds of a second removal, and the email configuration does not check for it at all):
  `RemovalStands` says that the account stays removed even so;
* one Microsoft identity can get two accounts, through the cached null and a
  second email (`auth.service.ts:57`);
* "Failed to send" may follow a mail that was sent (`email.service.ts:165`), and
  always does for a user who enabled only Graph and has no `emailUsername`
  (`microsoft-graph-email.service.ts:70`, against `microsoft-graph/README.md:60`);
* up to 20 requests pass within one minute around the end of a window
  (`throttler.guard.ts:24`, against `src/README.md:657`); the limit of 3 on
  `/test/rate-limit` is never read (`test.controller.ts:11`);
* the in-progress gauge never comes down for a client that disconnected
  (`health/metrics.middleware.ts:17`, against its help text, `health/metrics.service.ts:42`):
  `GaugeAccounts` has the term `lost` for it;
* a user who declines Microsoft's consent is redirected to Microsoft again instead
  of getting an error (`auth/strategies/microsoft-msal.strategy.ts:99`);
* mail that arrives between the count and the page of one answer can hide a message from
  a walk (`microsoft-graph-email.service.ts:219`, `email.service.ts:592`): `skew` in `NothingMissed`;
* messages of equal `receivedAt` have no order of their own (`email.service.ts:600`), so at a page
  boundary one may be lost or repeated: `SteadyOrder` in `NothingMissed` and `EachOnce`;
* without `ENCRYPTION_SALT` a restart makes stored passwords unreadable
  (`encryption/encryption.service.ts:24`): `PasswordKept` needs `salted` for restarts.

Seen in the code, outside the models:

* an IMAP page past the end fetches message 1 once more (`email.service.ts:289`); a client that
  stops at `hasMore` never asks for one;
* an IMAP message's text may be parsed after it was saved (`email.service.ts:340`), and a
  connection that ends without an error leaves the request open (`:404`), and with it its
  span and its share of the in-progress gauge;
* the middleware encrypts `params.args.data`, which an upsert does not have
  (`prisma/prisma.service.ts:28`), and the results of update and create come back encrypted;
* `prisma/seed.ts:64` writes plain passwords, which read as null;
* `/metrics` reads prom-client's global registry while `MetricsService` registers in one of
  its own (`health/metrics.service.ts`, against `src/README.md:574`).

## 9. Not modelled

JWT and role guards check a request without state of their own. The Graph token service
wraps msal-node; its failures are failures of the steps that ask for a token.
`TracingMiddleware` opens a span per request and closes it with the response; no code reads it. Health
checks only read. DTOs, scalars and decorators are shapes of inputs; the models take
inputs that passed validation. Bootstrap, seed data and deployment files have nothing that runs
beside anything else. Of modelled parts these are left out: texts and attachments of mail,
names, roles and tokens of users, the Prometheus counter and histogram,
`createMany`, `updateMany` and `findMany` in the encryption middleware (not
used with a password). Cascade on delete never fires, as users are only soft-deleted.

## 10. Plan

Done: `Mailbox`, `MailStore`, `UserDirectory`, `CredentialVault`, `Outbox`, `Retrieval`, `OAuthSession`,
`RateLimit` and `Gateway`, and the proofs of their safety and action properties.

What is left are two compositions: `UserDirectory` with `MailStore` through the configuration
columns, which one writes and the other reads, and `Retrieval` as a refinement of the step
`Open*` of `MailStore`, with its simulation proved like `StepMaps`. The project keeps a dozen
runs and eight proof modules; a new module joins one of them or replaces a `doc_*` run.
