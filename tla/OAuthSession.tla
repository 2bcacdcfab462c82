---------------------------- MODULE OAuthSession ----------------------------
(***************************************************************************)
(* Logging in with Microsoft: MicrosoftMsalStrategy behind                  *)
(* GET /auth/microsoft/login and /auth/microsoft/callback, with the state   *)
(* and the PKCE verifier of the running flow in the express session.  The   *)
(* session is a copy per request, loaded by the cookie when the request     *)
(* arrives and saved when a request that changed it is answered; the store  *)
(* is in memory.  The tabs of a browser share its cookie.                   *)
(*                                                                          *)
(* Microsoft and the browsers are external: Microsoft redeems a code once,  *)
(* for the verifier whose challenge the flow was started with.  What        *)
(* validateOrCreateMicrosoftUser does is in UserDirectory.                  *)
(***************************************************************************)
EXTENDS Naturals, FiniteSetsExt

CONSTANTS
  Tabs, Browsers,   \* numbered from 1
  Sids,       \* session ids, reused when nobody has them any more
  Flows,      \* states and verifiers, one number per flow, reused likewise
  MaxLosses,  \* bound: restarts and expired sessions
  Faults,     \* TRUE: calls to Microsoft and to the database may fail
  None

ASSUME PoolsAssumption ==
  /\ Faults \in BOOLEAN /\ Tabs \subseteq Nat /\ Browsers \subseteq Nat
  /\ Sids \subseteq Nat /\ Flows \subseteq Nat /\ MaxLosses \in Nat
  /\ None \notin Nat /\ None \notin [state : Flows, verifier : Flows]

\* The pools never run dry: every name in use is in a cookie, a tab or the store.
ASSUME PoolSizesAssumption ==
  /\ IsFiniteSet(Tabs) /\ IsFiniteSet(Browsers) /\ IsFiniteSet(Sids) /\ IsFiniteSet(Flows)
  /\ Cardinality(Sids) >= Cardinality(Browsers) + Cardinality(Tabs)
  /\ Cardinality(Flows) >= Cardinality(Tabs) + Cardinality(Tabs) + Cardinality(Sids)

VARIABLES
  owner,   \* the browser of each tab; a browser has one user
  store,   \* MemoryStore: the pkceCodes of each session
  cookie,  \* the session id each browser has
  code,    \* per flow, the authorization code Microsoft issued
  tab,     \* what each tab is doing, and the request it waits for
  losses   \* sessions lost so far

vars == <<owner, store, cookie, code, tab, losses>>

PkceCodes == [state : Flows, verifier : Flows]
CodesOf(f) == [state |-> f, verifier |-> f]
NoCode == [user |-> None, used |-> FALSE]

\* pkce: the codes in the request's session; flow: the state in the URL the tab is,
\* or was last, at; who: the user Microsoft names; alone: history, no other login
\* in this browser since it began
Closed == [pc |-> "idle", sid |-> None, pkce |-> None, flow |-> None,
           who |-> None, alone |-> FALSE]

InHandler == {"url", "redeem", "validate"}
Init ==
  /\ owner \in {o \in [Tabs -> Browsers] : \A t \in Tabs : o[t] <= t}  \* in order of use
  /\ store = [s \in Sids |-> None]
  /\ cookie = [b \in Browsers |-> None]
  /\ code = [f \in Flows |-> NoCode]
  /\ tab = [t \in Tabs |-> Closed]
  /\ losses = 0

\* The new state: what nobody can name any more is as good as gone.
Become(cookies, tabs, sessions, codes) ==
  LET named == {cookies[b] : b \in Browsers} \cup {tabs[t].sid : t \in Tabs}
      open == {tabs[t].flow : t \in Tabs}
  IN
  /\ cookie' = cookies /\ tab' = tabs
  /\ store' = [s \in Sids |-> IF s \in named THEN sessions[s] ELSE None]
  /\ code' = [f \in Flows |-> IF f \in open THEN codes[f] ELSE NoCode]
  /\ UNCHANGED owner

\* Only tab t goes on.
Turn(t, r) == Become(cookie, [tab EXCEPT ![t] = r], store, code) /\ UNCHANGED losses

FreshSid ==
  Min(Sids \ ({cookie[b] : b \in Browsers} \cup {tab[t].sid : t \in Tabs}))

FreshFlow ==
  LET states(codes) == {c.state : c \in codes \ {None}} IN
  Min(Flows \ ({tab[t].flow : t \in Tabs} \cup states({tab[t].pkce : t \in Tabs})
                \cup states({store[s] : s \in Sids})))

\* The session middleware: the session the cookie names, or a new one.
SessionOf(b) ==
  IF cookie[b] # None /\ store[cookie[b]] # None
  THEN [sid |-> cookie[b], pkce |-> store[cookie[b]]]
  ELSE [sid |-> FreshSid, pkce |-> None]

\* The answer: a token or 401.  The address stays in the history of the browser.
Answered(r) == [Closed EXCEPT !.flow = r.flow]

\* The tabs once t has started something: other logins of its browser are no
\* longer alone.
Request(t, r) ==
  [u \in Tabs |-> IF u = t THEN r
                  ELSE [tab[u] EXCEPT !.alone = @ /\ owner[u] # owner[t]]]

-----------------------------------------------------------------------------
(* authenticate *)

\* initiateAuthFlow: new codes in the request's copy of the session.
Generate(r) == [r EXCEPT !.pc = "url", !.flow = None, !.pkce = CodesOf(FreshFlow)]

\* Mutants of Authenticate: a callback is taken for one whatever the session
\* says; a mismatch starts the login over.
AuthenticateUnchecked(r) ==
  IF r.flow = None THEN Generate(r) ELSE [r EXCEPT !.pc = "redeem"]
AuthenticateOver(r) ==
  IF r.flow = None \/ r.pkce = None \/ r.flow # r.pkce.state THEN Generate(r)
  ELSE [r EXCEPT !.pc = "redeem"]

\* code, state and a session with codes: handleCallback, which compares the
\* state; anything else: initiateAuthFlow.
Authenticate(r) ==
  IF r.flow = None \/ r.pkce = None THEN Generate(r)
  ELSE IF r.flow # r.pkce.state THEN Answered(r)
  ELSE [r EXCEPT !.pc = "redeem"]

\* Mutant of Arrives: the codes are looked up by the state, in every session.
ArrivesByState(t, flow, alone) ==
  LET kept == IF \E s \in Sids : store[s] = CodesOf(flow) THEN CodesOf(flow) ELSE None IN
  Authenticate([Closed EXCEPT !.sid = SessionOf(owner[t]).sid, !.pkce = kept,
                              !.flow = flow, !.alone = alone])

\* The request with its session.
Arrives(t, flow, alone) ==
  LET s == SessionOf(owner[t]) IN
  Authenticate([Closed EXCEPT !.sid = s.sid, !.pkce = s.pkce, !.flow = flow, !.alone = alone])

\* GET /auth/microsoft/login
MicrosoftLogin(t) ==
  LET alone == \A u \in Tabs \ {t} : owner[u] = owner[t] => tab[u].pc = "idle" IN
  /\ tab[t].pc = "idle"
  /\ Become(cookie, Request(t, Arrives(t, None, alone)), store, code)
  /\ UNCHANGED losses

\* GET /auth/microsoft/callback, with the code and the state of the tab's flow.
\* A new session id is as good as one whose entry was lost.
MicrosoftCallback(t) ==
  /\ tab[t].pc = "back"
  /\ Turn(t, Arrives(t, tab[t].flow, tab[t].alone))

\* Mutant of Saved: codes the session already has stay.
SavedOnce(r) == [store EXCEPT ![r.sid] = IF @ = None THEN r.pkce ELSE @]

\* The request's session in the store, with the codes it ended with.
Saved(r) == [store EXCEPT ![r.sid] = r.pkce]

\* The session is saved with the answer, a redirection to Microsoft ...
GetAuthCodeUrl(t) ==
  LET r == tab[t] IN
  /\ r.pc = "url"
  /\ Become(cookie,
            [tab EXCEPT ![t] = [r EXCEPT !.pc = "redirect", !.flow = r.pkce.state, !.pkce = None]],
            Saved(r), code)
  /\ UNCHANGED losses

\* ... or with the error, when there is no URL.
GetAuthCodeUrlFails(t) ==
  LET r == tab[t] IN
  /\ Faults /\ r.pc = "url"
  /\ Become([cookie EXCEPT ![owner[t]] = r.sid], [tab EXCEPT ![t] = Answered(r)],
            Saved(r), code)
  /\ UNCHANGED losses

\* Microsoft's answer to the code and the verifier of a request: the URL of flow f
\* had the challenge of verifier f.
Redeemable(r) == ~code[r.flow].used /\ r.pkce.verifier = r.flow

\* handleCallback: the code is exchanged with the verifier of the session.
AcquireTokenByCode(t) ==
  LET r == tab[t] IN
  /\ r.pc = "redeem"
  /\ \/ /\ Redeemable(r)
        /\ Become(cookie, [tab EXCEPT ![t] = [r EXCEPT !.pc = "validate", !.who = code[r.flow].user]],
                  store, [code EXCEPT ![r.flow].used = TRUE])
        /\ UNCHANGED losses
     \/ ~Redeemable(r) /\ Turn(t, Answered(r))

\* success, then microsoftCallback's redirection with a token; the session was
\* not changed, so the codes stay in it.
Validate(t) ==
  /\ tab[t].pc = "validate"
  /\ Turn(t, Answered(tab[t]))

Fails(t) ==
  /\ Faults /\ tab[t].pc \in {"redeem", "validate"}
  /\ Turn(t, Answered(tab[t]))

-----------------------------------------------------------------------------
(* Browsers and Microsoft *)

\* The redirection arrives, with the cookie of the session that was saved.
Receive(t) ==
  LET r == tab[t] IN
  /\ r.pc = "redirect"
  /\ Become([cookie EXCEPT ![owner[t]] = r.sid],
            [tab EXCEPT ![t] = [r EXCEPT !.pc = "away", !.sid = None]], store, code)
  /\ UNCHANGED losses

\* The user signs in and is sent to the callback with a code.
Authorize(t) ==
  LET r == tab[t]
      new == [user |-> owner[t], used |-> FALSE]
  IN
  /\ r.pc = "away"
  /\ Become(cookie, [tab EXCEPT ![t].pc = "back"], store, [code EXCEPT ![r.flow] = new])
  /\ UNCHANGED losses

CloseTab(t) ==
  /\ tab[t].pc = "away"
  /\ Turn(t, Closed)

\* The user declines and is sent to the callback with an error instead of a code.
Decline(t) ==
  /\ tab[t].pc = "away"
  /\ Turn(t, Arrives(t, None, tab[t].alone))

\* A callback address is opened once more, or in another tab or browser.
OpenCallback(t) ==
  /\ tab[t].pc = "idle"
  /\ \E u \in Tabs :
       /\ tab[u].flow # None /\ code[tab[u].flow] # NoCode
       /\ Become(cookie, Request(t, [Closed EXCEPT !.pc = "back", !.flow = tab[u].flow]),
                 store, code)
  /\ UNCHANGED losses

\* A session expires; the process restarts, with the store and every request.
Expire ==
  /\ losses < MaxLosses /\ losses' = losses + 1
  /\ \E s \in Sids : /\ store[s] # None
                     /\ Become(cookie, tab, [store EXCEPT ![s] = None], code)

Restart ==
  /\ losses < MaxLosses /\ losses' = losses + 1
  /\ Become(cookie,
            [t \in Tabs |-> IF tab[t].pc \in InHandler THEN Answered(tab[t]) ELSE tab[t]],
            [s \in Sids |-> None], code)

Serve(t) == \/ MicrosoftCallback(t) \/ GetAuthCodeUrl(t)
            \/ AcquireTokenByCode(t) \/ Validate(t) \/ Receive(t)
Decide(t) == Authorize(t) \/ CloseTab(t)

Next == \/ \E t \in Tabs : \/ MicrosoftLogin(t) \/ OpenCallback(t) \/ Serve(t)
                           \/ Decide(t) \/ Decline(t)
                           \/ GetAuthCodeUrlFails(t) \/ Fails(t)
        \/ Expire \/ Restart

Spec == Init /\ [][Next]_vars

\* Requests are served and redirections followed; nobody declines for ever.
FairSpec == Spec /\ \A t \in Tabs : WF_vars(Serve(t)) /\ SF_vars(Decide(t))

-----------------------------------------------------------------------------
(* Properties *)

\* The shape of the state; a request that redeems a code has a verifier.
TypeOK ==
  /\ owner \in [Tabs -> Browsers]
  /\ store \in [Sids -> PkceCodes \cup {None}]
  /\ cookie \in [Browsers -> Sids \cup {None}]
  /\ code \in [Flows -> [user : Browsers \cup {None}, used : BOOLEAN]]
  /\ tab \in [Tabs -> [pc : InHandler \cup {"idle", "redirect", "away", "back"},
                       sid : Sids \cup {None}, pkce : PkceCodes \cup {None},
                       flow : Flows \cup {None},
                       who : Browsers \cup {None}, alone : BOOLEAN]]
  /\ \A t \in Tabs : tab[t].pc = "redeem" => tab[t].pkce # None
  /\ losses \in 0..MaxLosses

\* A login is only ever completed for the user of the browser: a callback address
\* of another browser, opened at whatever moment, does not log it in.
OwnLogin == \A t \in Tabs : tab[t].who \in {None, owner[t]}

\* Someone who logs in in one tab at a time is never refused for the state or
\* for the code, also when the session was lost on the way: the login starts over.
AloneSucceeds ==
  \A t \in Tabs : tab[t].alone =>
    /\ tab[t].pc = "back" => SessionOf(owner[t]).pkce \in {None, CodesOf(tab[t].flow)}
    /\ tab[t].pc \in {"back", "redeem"} => ~code[tab[t].flow].used

\* Every login ends, with a token or with an error, however the tabs of a browser
\* overwrite each other's codes.
LoginEnds == \A t \in Tabs : tab[t].pc # "idle" ~> tab[t].pc = "idle"
=============================================================================
