------------------------- MODULE OAuthSessionProofs -------------------------
(***************************************************************************)
(* Proofs about OAuthSession, for any number of tabs, browsers, lost       *)
(* sessions and failures: the type invariant, that a login is only         *)
(* completed for the user of its browser, and that one login at a time is  *)
(* never refused.                                                          *)
(***************************************************************************)
EXTENDS OAuthSession, Counting

\* The parts of the state are parameters, so that the invariant can be stated for
\* what a step hands to Become as well as for what Become leaves of it.

\* Browser b knows session s: its cookie, or a request of one of its tabs.
Names(ck, tb, b, s) == ck[b] = s \/ \E t \in Tabs : owner[t] = b /\ tb[t].sid = s

\* Flow f is browser b's: codes in a request or a session of b, a tab at Microsoft, or
\* a code for b's user.
Holds(ck, tb, st, cd, b, f) ==
  \/ \E t \in Tabs : owner[t] = b /\ tb[t].pkce = CodesOf(f)
  \/ \E t \in Tabs : owner[t] = b /\ tb[t].pc \in {"redirect", "away"} /\ tb[t].flow = f
  \/ \E s \in Sids : Names(ck, tb, b, s) /\ st[s] = CodesOf(f)
  \/ cd[f].user = b

OneSid(ck, tb) ==
  \A s \in Sids : \A b, c \in Browsers : Names(ck, tb, b, s) /\ Names(ck, tb, c, s) => b = c

OneFlow(ck, tb, st, cd) ==
  \A f \in Flows : \A b, c \in Browsers :
    Holds(ck, tb, st, cd, b, f) /\ Holds(ck, tb, st, cd, c, f) => b = c

Pairs == {CodesOf(f) : f \in Flows}
TabRecord == [pc : InHandler \cup {"idle", "redirect", "away", "back"},
              sid : Sids \cup {None}, pkce : Pairs \cup {None}, flow : Flows \cup {None},
              who : Browsers \cup {None}, alone : BOOLEAN]
CodeRecord == [user : Browsers \cup {None}, used : BOOLEAN]

Shapes(ck, tb, st, cd) ==
  /\ ck \in [Browsers -> Sids \cup {None}] /\ tb \in [Tabs -> TabRecord]
  /\ st \in [Sids -> Pairs \cup {None}] /\ cd \in [Flows -> CodeRecord]

\* What a tab has at each point of a login.
TabOK(r) ==
  /\ r.pc \in {"url", "redeem", "validate", "redirect"} => r.sid \in Sids
  /\ r.pc \in {"idle", "away", "back"} => r.sid = None
  /\ r.pc \in {"idle", "redirect", "away", "back"} => r.pkce = None
  /\ r.pc = "url" => r.pkce # None
  /\ r.pc \in {"redirect", "away", "back"} => r.flow \in Flows
  /\ r.pc = "redeem" => r.flow \in Flows /\ r.pkce = CodesOf(r.flow)

\* A login that is alone in its browser finds its own codes and a fresh code.
AloneOK(ck, tb, st, cd, t) ==
  /\ tb[t].pc # "idle"
  /\ \A u \in Tabs \ {t} : owner[u] = owner[t] => tb[u].pc = "idle"
  /\ tb[t].pc = "redirect" => st[tb[t].sid] \in {None, CodesOf(tb[t].flow)}
  /\ tb[t].pc \in {"away", "back"} /\ ck[owner[t]] # None =>
       st[ck[owner[t]]] \in {None, CodesOf(tb[t].flow)}
  /\ tb[t].pc \in {"back", "redeem"} =>
       cd[tb[t].flow].user = owner[t] /\ ~cd[tb[t].flow].used

Raw(ck, tb, st, cd) ==
  /\ Shapes(ck, tb, st, cd)
  /\ \A t \in Tabs : TabOK(tb[t]) /\ tb[t].who \in {None, owner[t]}
  /\ OneSid(ck, tb)
  /\ OneFlow(ck, tb, st, cd)
  /\ \A t \in Tabs : tb[t].alone => AloneOK(ck, tb, st, cd, t)

\* What nobody can name any more is gone.
Collected ==
  /\ \A s \in Sids : store[s] # None => \E b \in Browsers : Names(cookie, tab, b, s)
  /\ \A f \in Flows : code[f] # NoCode => \E t \in Tabs : tab[t].flow = f

\* The inductive invariant.
IInv ==
  /\ owner \in [Tabs -> Browsers] /\ losses \in 0..MaxLosses
  /\ Raw(cookie, tab, store, code)
  /\ Collected

-----------------------------------------------------------------------------
(* Become *)

LEMMA Distinct ==
  /\ None \notin Sids /\ None \notin Flows /\ None \notin Browsers
  /\ \A f, g : CodesOf(f) = CodesOf(g) => f = g
  /\ \A f : CodesOf(f).state = f /\ CodesOf(f).verifier = f
  /\ \A f \in Flows : CodesOf(f) # None
<1>1. \A f \in Flows : CodesOf(f) \in [state : Flows, verifier : Flows] BY DEF CodesOf
<1>2. \A f : CodesOf(f).state = f /\ CodesOf(f).verifier = f BY DEF CodesOf
<1>3. \A f, g : CodesOf(f) = CodesOf(g) => f = g BY <1>2
<1> QED BY <1>1, <1>2, <1>3, PoolsAssumption

\* Forgetting what nobody names keeps the invariant, and makes it complete.
LEMMA BecomeInv ==
  ASSUME IInv, NEW ck, NEW tb, NEW st, NEW cd, Become(ck, tb, st, cd), Raw(ck, tb, st, cd),
         losses' \in 0..MaxLosses
  PROVE  IInv'
<1> DEFINE named == {ck[b] : b \in Browsers} \cup {tb[t].sid : t \in Tabs}
           open == {tb[t].flow : t \in Tabs}
<1>1. /\ cookie' = ck /\ tab' = tb /\ owner' = owner
      /\ store' = [s \in Sids |-> IF s \in named THEN st[s] ELSE None]
      /\ code' = [f \in Flows |-> IF f \in open THEN cd[f] ELSE NoCode]
  BY DEF Become
<1>2. owner \in [Tabs -> Browsers] BY DEF IInv
<1>3. Shapes(ck, tb, store', code')
  <2>1. NoCode \in CodeRecord BY DEF NoCode, CodeRecord
  <2> HIDE DEF named, open
  <2> QED BY <1>1, <2>1 DEF Raw, Shapes
<1>4. \A s \in Sids : store'[s] \in {st[s], None} BY <1>1
<1>5. \A f \in Flows : code'[f] \in {cd[f], NoCode} BY <1>1
<1>6. OneFlow(ck, tb, store', code')
  <2>1. ASSUME NEW b \in Browsers, NEW f \in Flows, Holds(ck, tb, store', code', b, f)
        PROVE  Holds(ck, tb, st, cd, b, f)
    <3>1. \A s \in Sids : store'[s] = CodesOf(f) => st[s] = CodesOf(f)
      <4>1. None # CodesOf(f) BY Distinct
      <4> QED BY <1>4, <4>1
    <3>2. code'[f].user = b => cd[f].user = b BY <1>5, Distinct DEF NoCode
    <3> QED BY <2>1, <3>1, <3>2 DEF Holds
  <2> QED BY <2>1 DEF OneFlow, Raw
<1>7. ASSUME NEW t \in Tabs, tb[t].alone PROVE AloneOK(ck, tb, store', code', t)
  <2>1. AloneOK(ck, tb, st, cd, t) /\ TabOK(tb[t]) BY <1>7 DEF Raw
  <2>2. tb[t].flow \in Flows => code'[tb[t].flow] = cd[tb[t].flow] BY <1>1
  <2>3. owner[t] \in Browsers /\ ck[owner[t]] \in Sids \cup {None} BY <1>2 DEF Raw, Shapes
  <2> QED BY <1>4, <2>1, <2>2, <2>3 DEF AloneOK, TabOK
<1>8. Raw(ck, tb, store', code') BY <1>3, <1>6, <1>7 DEF Raw
<1>9. Collected'
  <2>1. ASSUME NEW s \in Sids, store'[s] # None
        PROVE  \E b \in Browsers : Names(ck, tb, b, s)
    <3>1. s \in named BY <1>1, <2>1
    <3> QED BY <1>2, <3>1 DEF Names
  <2>2. ASSUME NEW f \in Flows, code'[f] # NoCode PROVE \E t \in Tabs : tb[t].flow = f
    BY <1>1, <2>2
  <2> QED BY <1>1, <2>1, <2>2 DEF Collected, Names
<1>10. Raw(cookie, tab, store, code)'
  BY <1>1, <1>8 DEF Raw, Shapes, OneSid, OneFlow, Names, Holds, AloneOK
<1> QED BY <1>1, <1>2, <1>9, <1>10 DEF IInv

-----------------------------------------------------------------------------
(* New names *)

LEMMA MinIn == ASSUME NEW S, S \subseteq Nat, S # {} PROVE Min(S) \in S
<1>1. \E x \in S : \A y \in S : x <= y BY LeastElement
<1> QED BY <1>1 DEF Min

\* How many members a pool has.
LEMMA PoolSizes ==
  /\ Cardinality(Tabs) \in Nat /\ Cardinality(Browsers) \in Nat /\ Cardinality(Sids) \in Nat
  /\ \A t \in Tabs : /\ IsFiniteSet(Tabs \ {t}) /\ Cardinality(Tabs \ {t}) = Cardinality(Tabs) - 1
                     /\ Cardinality(Tabs) >= 1
<1>1. Cardinality(Tabs) \in Nat /\ Cardinality(Browsers) \in Nat /\ Cardinality(Sids) \in Nat
  BY PoolSizesAssumption, FS_CardinalityType
<1>2. ASSUME NEW t \in Tabs
      PROVE  /\ IsFiniteSet(Tabs \ {t}) /\ Cardinality(Tabs \ {t}) = Cardinality(Tabs) - 1
             /\ Cardinality(Tabs) >= 1
  <2>1. IsFiniteSet(Tabs \ {t}) /\ Cardinality(Tabs \ {t}) = Cardinality(Tabs) - 1
    BY PoolSizesAssumption, FS_RemoveElement
  <2>2. Cardinality(Tabs \ {t}) \in Nat BY <2>1, FS_CardinalityType
  <2> QED BY <1>1, <2>1, <2>2
<1> QED BY <1>1, <1>2

\* A session id for a request of tab t, which has none yet, is nobody else's.
LEMMA FreshSidOK ==
  ASSUME IInv, NEW t \in Tabs, tab[t].sid = None
  PROVE  FreshSid \in Sids /\ \A b \in Browsers : ~Names(cookie, tab, b, FreshSid)
<1> DEFINE C == {cookie[b] : b \in Browsers}
           U == Tabs \ {t}
           sid == [u \in U |-> tab[u].sid]
           S == {sid[u] : u \in U}
           free == Sids \ (C \cup {tab[u].sid : u \in Tabs})
<1>1. IsFiniteSet(C) /\ Cardinality(C) <= Cardinality(Browsers)
  BY PoolSizesAssumption, RangeIsSmall
<1>2. IsFiniteSet(S) /\ Cardinality(S) <= Cardinality(Tabs) - 1
  <2>1. IsFiniteSet(U) /\ Cardinality(U) = Cardinality(Tabs) - 1 BY PoolSizes
  <2> HIDE DEF sid, U
  <2> QED BY <2>1, RangeIsSmall
<1>3. Sids \ (C \cup S) # {}
  <2> DEFINE m == Cardinality(Browsers)
             n == Cardinality(Tabs) - 1
  <2>0. t \in Tabs /\ Cardinality(Tabs) >= 1 BY PoolSizes
  <2>1. m \in Nat /\ n \in Nat /\ Cardinality(Sids) > m + n /\ m + n \in Nat
    <3> HIDE DEF C, S
    <3> QED BY <2>0, PoolSizes, PoolSizesAssumption
  <2> HIDE DEF C, S
  <2>2. IsFiniteSet(C \cup S) /\ Cardinality(C \cup S) <= m + n
    <3>1. Cardinality(C) <= m /\ Cardinality(S) <= n BY <1>1, <1>2
    <3> HIDE DEF m, n
    <3> QED BY <1>1, <1>2, <2>1, <3>1, UnionIsSmall
  <2> HIDE DEF m, n
  <2> QED BY <2>1, <2>2, PoolSizesAssumption, PoolHasMore
<1>4. free # {} /\ free \subseteq Nat
  <2>1. None \notin Sids /\ Sids \subseteq Nat BY PoolsAssumption, Distinct
  <2>2. Sids \ (C \cup S) \subseteq free BY <2>1
  <2> QED BY <1>3, <2>1, <2>2
<1>5. FreshSid \in free BY <1>4, MinIn DEF FreshSid
<1> QED BY <1>5 DEF Names

\* New codes for a request of tab t, which has none yet, are nobody else's.
LEMMA FreshFlowOK ==
  ASSUME IInv, NEW t \in Tabs, tab[t].pkce = None
  PROVE  /\ FreshFlow \in Flows
         /\ \A b \in Browsers : ~Holds(cookie, tab, store, code, b, FreshFlow)
<1> DEFINE U == Tabs \ {t}
           flow == [u \in Tabs |-> tab[u].flow]
           pkce == [u \in U |-> tab[u].pkce.state]
           kept == [s \in Sids |-> store[s].state]
           F == {flow[u] : u \in Tabs}
           P == {pkce[u] : u \in U}
           K == {kept[s] : s \in Sids}
           states(codes) == {c.state : c \in codes \ {None}}
           free == Flows \ (F \cup states({tab[u].pkce : u \in Tabs})
                              \cup states({store[s] : s \in Sids}))
<1>1. IsFiniteSet(F) /\ Cardinality(F) <= Cardinality(Tabs)
  <2> HIDE DEF flow
  <2> QED BY PoolSizesAssumption, RangeIsSmall
<1>2. IsFiniteSet(P) /\ Cardinality(P) <= Cardinality(Tabs) - 1
  <2>1. IsFiniteSet(U) /\ Cardinality(U) = Cardinality(Tabs) - 1 BY PoolSizes
  <2> HIDE DEF pkce, U
  <2> QED BY <2>1, RangeIsSmall
<1>3. IsFiniteSet(K) /\ Cardinality(K) <= Cardinality(Sids)
  <2> HIDE DEF kept
  <2> QED BY PoolSizesAssumption, RangeIsSmall
<1>4. Flows \ ((F \cup P) \cup K) # {}
  <2> DEFINE l == Cardinality(Tabs)
             m == Cardinality(Tabs) - 1
             n == Cardinality(Sids)
  <2>0. t \in Tabs /\ Cardinality(Tabs) >= 1 BY PoolSizes
  <2>1. l \in Nat /\ m \in Nat /\ n \in Nat /\ Cardinality(Flows) > (l + m) + n
        /\ l + m \in Nat /\ (l + m) + n \in Nat
    <3>1. Cardinality(Flows) \in Nat BY PoolSizesAssumption, FS_CardinalityType
    <3> HIDE DEF F, P, K
    <3> QED BY <2>0, <3>1, PoolSizes, PoolSizesAssumption
  <2>2. Cardinality(F) <= l /\ Cardinality(P) <= m /\ Cardinality(K) <= n BY <1>1, <1>2, <1>3
  <2> HIDE DEF F, P, K, l, m, n
  <2>3. IsFiniteSet(F \cup P) /\ Cardinality(F \cup P) <= l + m
    BY <1>1, <1>2, <2>1, <2>2, UnionIsSmall
  <2>4. IsFiniteSet((F \cup P) \cup K) /\ Cardinality((F \cup P) \cup K) <= (l + m) + n
    BY <1>3, <2>1, <2>2, <2>3, UnionIsSmall
  <2> QED BY <2>1, <2>4, PoolSizesAssumption, PoolHasMore
<1>5. free # {} /\ free \subseteq Nat
  <2>1. states({tab[u].pkce : u \in Tabs}) \subseteq P OBVIOUS
  <2>2. states({store[s] : s \in Sids}) \subseteq K OBVIOUS
  <2>3. {tab[u].flow : u \in Tabs} \subseteq F OBVIOUS
  <2> HIDE DEF P, K, states
  <2>4. Flows \ ((F \cup P) \cup K) \subseteq free BY <2>1, <2>2, <2>3
  <2>5. Flows \subseteq Nat BY PoolsAssumption
  <2> QED BY <1>4, <2>4, <2>5
<1> DEFINE g == FreshFlow
<1>6. g \in Flows \ ({tab[u].flow : u \in Tabs} \cup states({tab[u].pkce : u \in Tabs})
                      \cup states({store[s] : s \in Sids}))
  BY <1>5, MinIn DEF FreshFlow
<1> HIDE DEF g
<1>7. ASSUME NEW b \in Browsers, Holds(cookie, tab, store, code, b, g) PROVE FALSE
  <2>1. g \in Flows /\ CodesOf(g) # None /\ CodesOf(g).state = g BY <1>6, Distinct
  <2>2. ~\E u \in Tabs : tab[u].pkce = CodesOf(g) BY <1>6, <2>1
  <2>3. ~\E s \in Sids : store[s] = CodesOf(g) BY <1>6, <2>1
  <2>4. ~\E u \in Tabs : tab[u].flow = g BY <1>6
  <2>5. code[g] = NoCode BY <2>1, <2>4 DEF IInv, Collected
  <2>6. code[g].user # b BY <2>5, Distinct DEF NoCode
  <2> QED BY <1>7, <2>2, <2>3, <2>4, <2>6 DEF Holds
<1> QED BY <1>6, <1>7 DEF g

-----------------------------------------------------------------------------
(* One tab goes on *)

\* Tab t becomes r; another one may have stopped being alone.
Steps(tb, t, r) ==
  /\ tb \in [Tabs -> TabRecord] /\ tb[t] = r
  /\ \A u \in Tabs \ {t} :
       /\ tb[u].pc = tab[u].pc /\ tb[u].sid = tab[u].sid /\ tb[u].pkce = tab[u].pkce
       /\ tb[u].flow = tab[u].flow /\ tb[u].who = tab[u].who
       /\ tb[u].alone => tab[u].alone

\* No other tab of the browser is alone.
NoRival(tb, t) == \A u \in Tabs \ {t} : owner[u] = owner[t] => ~tb[u].alone

\* What browsers know of sessions and flows: what they knew, and new names of t's browser.
SidGain(ck, tb, t) ==
  \A b \in Browsers, s \in Sids : Names(ck, tb, b, s) =>
    \/ Names(cookie, tab, b, s)
    \/ b = owner[t] /\ \A c \in Browsers : ~Names(cookie, tab, c, s)

FlowGain(ck, tb, st, cd, t) ==
  \A b \in Browsers, f \in Flows : Holds(ck, tb, st, cd, b, f) =>
    \/ Holds(cookie, tab, store, code, b, f)
    \/ b = owner[t] /\ \A c \in Browsers : ~Holds(cookie, tab, store, code, c, f)

LEMMA TurnSteps ==
  ASSUME IInv, NEW t \in Tabs, NEW r \in TabRecord
  PROVE  Steps([tab EXCEPT ![t] = r], t, r)
BY DEF Steps, IInv, Raw, Shapes

LEMMA RequestSteps ==
  ASSUME IInv, NEW t \in Tabs, NEW r \in TabRecord
  PROVE  Steps(Request(t, r), t, r) /\ NoRival(Request(t, r), t)
<1> DEFINE q == Request(t, r)
<1>1. \A u \in Tabs : q[u] = IF u = t THEN r
                             ELSE [tab[u] EXCEPT !.alone = @ /\ owner[u] # owner[t]]
  BY DEF Request
<1>2. ASSUME NEW u \in Tabs \ {t}
      PROVE  /\ q[u] \in TabRecord /\ q[u].pc = tab[u].pc /\ q[u].sid = tab[u].sid
             /\ q[u].pkce = tab[u].pkce /\ q[u].flow = tab[u].flow /\ q[u].who = tab[u].who
             /\ q[u].alone <=> tab[u].alone /\ owner[u] # owner[t]
  <2>1. tab[u] \in TabRecord BY DEF IInv, Raw, Shapes
  <2> DEFINE a == tab[u].alone /\ owner[u] # owner[t]
  <2>2. q[u] = [tab[u] EXCEPT !.alone = a] BY <1>1
  <2>3. a \in BOOLEAN OBVIOUS
  <2>4. a <=> tab[u].alone /\ owner[u] # owner[t] OBVIOUS
  <2> HIDE DEF a, q
  <2>5. q[u] \in TabRecord /\ q[u].alone = a BY <2>1, <2>2, <2>3 DEF TabRecord
  <2> QED BY <2>1, <2>2, <2>4, <2>5 DEF TabRecord
<1>3. q \in [Tabs -> TabRecord]
  <2>1. \A u \in Tabs : q[u] \in TabRecord BY <1>1, <1>2
  <2>2. q = [u \in Tabs |-> q[u]] BY DEF Request
  <2> HIDE DEF q
  <2> QED BY <2>1, <2>2
<1>4. q[t] = r BY <1>1
<1> QED BY <1>2, <1>3, <1>4 DEF Steps, NoRival

\* While t is busy no other tab of its browser is alone.
LEMMA NoRivals ==
  ASSUME IInv, NEW t \in Tabs, tab[t].pc # "idle", NEW tb, NEW r, Steps(tb, t, r)
  PROVE  NoRival(tb, t)
BY DEF NoRival, Steps, IInv, Raw, AloneOK

\* The logins of other browsers stay as they are.
LEMMA OthersAlone ==
  ASSUME IInv, NEW t \in Tabs, NEW r, NEW tb, Steps(tb, t, r), NoRival(tb, t),
         NEW ck, NEW st, NEW cd,
         \A b \in Browsers \ {owner[t]} : ck[b] = cookie[b],
         \A s \in Sids : \/ st[s] \in {store[s], None} \/ Names(cookie, tab, owner[t], s)
                         \/ \A c \in Browsers : ~Names(cookie, tab, c, s),
         \A f \in Flows : cd[f] = code[f] \/ Holds(cookie, tab, store, code, owner[t], f),
         NEW u \in Tabs \ {t}, tb[u].alone
  PROVE  AloneOK(ck, tb, st, cd, u)
<1>1. AloneOK(cookie, tab, store, code, u) /\ TabOK(tab[u]) /\ owner[u] # owner[t]
  BY DEF Steps, NoRival, IInv, Raw
<1>2. owner[u] \in Browsers /\ owner[t] \in Browsers BY DEF IInv
<1>3. ck[owner[u]] = cookie[owner[u]] /\ cookie[owner[u]] \in Sids \cup {None}
  BY <1>1, <1>2 DEF IInv, Raw, Shapes
<1>4. ASSUME NEW s \in Sids, Names(cookie, tab, owner[u], s)
      PROVE  st[s] \in {store[s], None}
  BY <1>1, <1>2, <1>4 DEF IInv, Raw, OneSid
<1>5. tab[u].pc = "redirect" => st[tab[u].sid] \in {store[tab[u].sid], None}
  BY <1>1, <1>4 DEF Names, TabOK
<1>6. cookie[owner[u]] # None =>
        st[cookie[owner[u]]] \in {store[cookie[owner[u]]], None}
  BY <1>3, <1>4 DEF Names
<1>7. tab[u].pc \in {"back", "redeem"} => cd[tab[u].flow] = code[tab[u].flow]
  <2> SUFFICES ASSUME tab[u].pc \in {"back", "redeem"} PROVE cd[tab[u].flow] = code[tab[u].flow]
    OBVIOUS
  <2>1. tab[u].flow \in Flows /\ code[tab[u].flow].user = owner[u]
    BY <1>1 DEF AloneOK, TabOK
  <2>2. Holds(cookie, tab, store, code, owner[u], tab[u].flow) BY <2>1 DEF Holds
  <2> QED BY <1>1, <1>2, <2>1, <2>2 DEF IInv, Raw, OneFlow
<1>8. /\ tb[u].pc = tab[u].pc /\ tb[u].sid = tab[u].sid /\ tb[u].flow = tab[u].flow
      /\ \A v \in Tabs \ {u} : owner[v] = owner[u] => v # t /\ tb[v].pc = tab[v].pc
  BY <1>1 DEF Steps
<1> QED BY <1>1, <1>3, <1>5, <1>6, <1>7, <1>8 DEF AloneOK

\* What is left to show of a step of one tab.
LEMMA RawStep ==
  ASSUME IInv, NEW t \in Tabs, NEW r, NEW tb, Steps(tb, t, r), NoRival(tb, t),
         NEW ck, NEW st, NEW cd, Shapes(ck, tb, st, cd),
         TabOK(r), r.who \in {None, owner[t]},
         SidGain(ck, tb, t), FlowGain(ck, tb, st, cd, t),
         r.alone => AloneOK(ck, tb, st, cd, t),
         \A b \in Browsers \ {owner[t]} : ck[b] = cookie[b],
         \A s \in Sids : \/ st[s] \in {store[s], None} \/ Names(cookie, tab, owner[t], s)
                         \/ \A c \in Browsers : ~Names(cookie, tab, c, s),
         \A f \in Flows : cd[f] = code[f] \/ Holds(cookie, tab, store, code, owner[t], f)
  PROVE  Raw(ck, tb, st, cd)
<1>1. \A u \in Tabs : TabOK(tb[u]) /\ tb[u].who \in {None, owner[u]}
  <2> TAKE u \in Tabs
  <2>1. CASE u = t BY <2>1 DEF Steps
  <2>2. CASE u # t
    <3>1. TabOK(tab[u]) /\ tab[u].who \in {None, owner[u]} BY DEF IInv, Raw
    <3> QED BY <2>2, <3>1 DEF Steps, TabOK
  <2> QED BY <2>1, <2>2
<1>2. OneSid(ck, tb)
  <2> SUFFICES ASSUME NEW s \in Sids, NEW b \in Browsers, NEW c \in Browsers,
                      Names(ck, tb, b, s), Names(ck, tb, c, s)
               PROVE  b = c
    BY DEF OneSid
  <2>1. /\ Names(cookie, tab, b, s) \/ (b = owner[t] /\ \A a \in Browsers : ~Names(cookie, tab, a, s))
        /\ Names(cookie, tab, c, s) \/ (c = owner[t] /\ \A a \in Browsers : ~Names(cookie, tab, a, s))
    BY DEF SidGain
  <2>2. Names(cookie, tab, b, s) /\ Names(cookie, tab, c, s) => b = c BY DEF IInv, Raw, OneSid
  <2> QED BY <2>1, <2>2
<1>3. OneFlow(ck, tb, st, cd)
  <2> SUFFICES ASSUME NEW f \in Flows, NEW b \in Browsers, NEW c \in Browsers,
                      Holds(ck, tb, st, cd, b, f), Holds(ck, tb, st, cd, c, f)
               PROVE  b = c
    BY DEF OneFlow
  <2> DEFINE had(a) == Holds(cookie, tab, store, code, a, f)
  <2>1. /\ had(b) \/ (b = owner[t] /\ \A a \in Browsers : ~had(a))
        /\ had(c) \/ (c = owner[t] /\ \A a \in Browsers : ~had(a))
    BY DEF FlowGain
  <2>2. had(b) /\ had(c) => b = c BY DEF IInv, Raw, OneFlow
  <2> QED BY <2>1, <2>2
<1>4. ASSUME NEW u \in Tabs, tb[u].alone PROVE AloneOK(ck, tb, st, cd, u)
  <2>1. CASE u = t BY <1>4, <2>1 DEF Steps
  <2>2. CASE u # t BY <1>4, <2>2, OthersAlone
  <2> QED BY <2>1, <2>2
<1> QED BY <1>1, <1>2, <1>3, <1>4 DEF Raw

-----------------------------------------------------------------------------
(* A request arrives *)

\* What the invariant says of one tab.
LEMMA TabOf ==
  ASSUME IInv, NEW t \in Tabs
  PROVE  /\ tab[t] \in TabRecord /\ TabOK(tab[t]) /\ tab[t].who \in {None, owner[t]}
         /\ owner[t] \in Browsers /\ cookie[owner[t]] \in Sids \cup {None}
         /\ Shapes(cookie, tab, store, code)
         /\ tab[t].alone => AloneOK(cookie, tab, store, code, t)
BY DEF IInv, Raw, Shapes

\* The session of a request is the browser's, or nobody's yet.
LEMMA SessionIs ==
  ASSUME IInv, NEW t \in Tabs
  PROVE  LET s == SessionOf(owner[t]) IN
         \/ /\ cookie[owner[t]] \in Sids /\ s.sid = cookie[owner[t]]
            /\ s.pkce = store[s.sid] /\ s.pkce \in Pairs /\ s.pkce # None
         \/ s.sid = FreshSid /\ s.pkce = None
<1>1. owner[t] \in Browsers /\ cookie[owner[t]] \in Sids \cup {None}
      /\ Shapes(cookie, tab, store, code)
  BY TabOf
<1> QED BY <1>1 DEF SessionOf, Shapes

\* The three ways a request can go on.
Generates(r, t, alone) ==
  /\ r \in TabRecord /\ r.pc = "url" /\ r.sid = SessionOf(owner[t]).sid
  /\ r.pkce = CodesOf(FreshFlow) /\ r.flow = None /\ r.who = None /\ r.alone = alone

Ends(r) ==
  r \in TabRecord /\ r.pc = "idle" /\ r.sid = None /\ r.pkce = None /\ r.who = None /\ ~r.alone

Redeems(r, t, flow, alone) ==
  /\ r \in TabRecord /\ r.pc = "redeem" /\ r.sid = cookie[owner[t]] /\ r.sid \in Sids
  /\ r.pkce = store[r.sid] /\ r.pkce = CodesOf(flow) /\ r.flow = flow /\ flow \in Flows
  /\ r.who = None /\ r.alone = alone

LEMMA ClosedIs ==
  /\ Closed \in TabRecord /\ Closed.pc = "idle" /\ Closed.sid = None /\ Closed.pkce = None
  /\ Closed.flow = None /\ Closed.who = None /\ ~Closed.alone
<1> DEFINE no == FALSE
<1>1. Closed = [pc |-> "idle", sid |-> None, pkce |-> None, flow |-> None, who |-> None,
                alone |-> no]
  BY DEF Closed
<1>2. no \in BOOLEAN /\ ~no OBVIOUS
<1> HIDE DEF no
<1>3. Closed \in TabRecord BY <1>1, <1>2 DEF TabRecord
<1> QED BY <1>1, <1>2, <1>3

LEMMA EndsOK ==
  ASSUME NEW f \in Flows \cup {None}
  PROVE  Ends([Closed EXCEPT !.flow = f])
<1> DEFINE r == [Closed EXCEPT !.flow = f]
<1>1. r \in TabRecord BY ClosedIs DEF TabRecord
<1>2. /\ r.pc = Closed.pc /\ r.sid = Closed.sid /\ r.pkce = Closed.pkce
      /\ r.who = Closed.who /\ r.alone = Closed.alone
  BY ClosedIs DEF TabRecord
<1> HIDE DEF r
<1>3. Ends(r) BY <1>1, <1>2, ClosedIs DEF Ends
<1> QED BY <1>3 DEF r

LEMMA ArrivesIs ==
  ASSUME IInv, NEW t \in Tabs, tab[t].sid = None, tab[t].pkce = None,
         NEW flow \in Flows \cup {None}, NEW alone \in BOOLEAN
  PROVE  LET r == Arrives(t, flow, alone) IN
         \/ Generates(r, t, alone) \/ Ends(r) \/ Redeems(r, t, flow, alone)
<1> DEFINE s == SessionOf(owner[t])
           c == [Closed EXCEPT !.sid = s.sid, !.pkce = s.pkce, !.flow = flow, !.alone = alone]
           fresh == CodesOf(FreshFlow)
<1>1. FreshSid \in Sids /\ FreshFlow \in Flows BY FreshSidOK, FreshFlowOK
<1>2. \/ /\ cookie[owner[t]] \in Sids /\ s.sid = cookie[owner[t]]
         /\ s.pkce = store[s.sid] /\ s.pkce \in Pairs /\ s.pkce # None
      \/ s.sid = FreshSid /\ s.pkce = None
  BY SessionIs
<1>3. fresh \in Pairs BY <1>1 DEF Pairs
<1> HIDE DEF s, fresh
<1>4. /\ c \in TabRecord /\ c.sid = s.sid /\ c.pkce = s.pkce /\ c.flow = flow
      /\ c.who = None /\ c.alone = alone
  <2>1. s.sid \in Sids \cup {None} /\ s.pkce \in Pairs \cup {None} BY <1>1, <1>2
  <2> QED BY <2>1, ClosedIs DEF TabRecord
<1>5. Arrives(t, flow, alone) = Authenticate(c) BY DEF Arrives, s
<1> HIDE DEF c
<1>6. CASE flow = None \/ s.pkce = None
  <2> DEFINE r == [c EXCEPT !.pc = "url", !.flow = None, !.pkce = fresh]
  <2>1. Arrives(t, flow, alone) = r BY <1>4, <1>5, <1>6 DEF Authenticate, Generate, fresh
  <2>2. r \in TabRecord BY <1>3, <1>4 DEF TabRecord, InHandler
  <2>3. /\ r.pc = "url" /\ r.sid = s.sid /\ r.pkce = fresh /\ r.flow = None
        /\ r.who = None /\ r.alone = alone
    BY <1>4 DEF TabRecord
  <2> HIDE DEF r
  <2>4. Generates(r, t, alone) BY <2>2, <2>3 DEF Generates, s, fresh
  <2> QED BY <2>1, <2>4
<1>7. CASE flow # None /\ s.pkce # None /\ flow # s.pkce.state
  <2>1. Arrives(t, flow, alone) = [Closed EXCEPT !.flow = flow]
    BY <1>4, <1>5, <1>7 DEF Authenticate, Answered
  <2> QED BY <2>1, EndsOK
<1>8. CASE flow # None /\ s.pkce # None /\ flow = s.pkce.state
  <2> DEFINE r == [c EXCEPT !.pc = "redeem"]
  <2>1. Arrives(t, flow, alone) = r BY <1>4, <1>5, <1>8 DEF Authenticate
  <2>2. r \in TabRecord BY <1>4 DEF TabRecord, InHandler
  <2>3. /\ r.pc = "redeem" /\ r.sid = s.sid /\ r.pkce = s.pkce /\ r.flow = flow
        /\ r.who = None /\ r.alone = alone
    BY <1>4 DEF TabRecord
  <2> HIDE DEF r
  <2>4. s.pkce = CodesOf(flow) /\ flow \in Flows
    <3>1. PICK f \in Flows : s.pkce = CodesOf(f) BY <1>2, <1>8 DEF Pairs
    <3> QED BY <1>8, <3>1, Distinct
  <2>5. Redeems(r, t, flow, alone) BY <1>2, <1>8, <2>2, <2>3, <2>4 DEF Redeems
  <2> QED BY <2>1, <2>5
<1> QED BY <1>6, <1>7, <1>8

\* New codes, in the session of the browser or in a new one.
LEMMA GenerateRaw ==
  ASSUME IInv, NEW t \in Tabs, tab[t].sid = None, tab[t].pkce = None,
         NEW alone, NEW r, Generates(r, t, alone), NEW tb, Steps(tb, t, r), NoRival(tb, t),
         alone => \A u \in Tabs \ {t} : owner[u] = owner[t] => tab[u].pc = "idle"
  PROVE  Raw(cookie, tb, store, code)
<1>1. /\ FreshSid \in Sids /\ \A c \in Browsers : ~Names(cookie, tab, c, FreshSid)
      /\ FreshFlow \in Flows
      /\ \A c \in Browsers : ~Holds(cookie, tab, store, code, c, FreshFlow)
  BY FreshSidOK, FreshFlowOK
<1>2. \/ r.sid \in Sids /\ r.sid = cookie[owner[t]]
      \/ r.sid = FreshSid
  BY SessionIs DEF Generates
<1>3. SidGain(cookie, tb, t)
  <2> SUFFICES ASSUME NEW b \in Browsers, NEW s \in Sids, Names(cookie, tb, b, s)
               PROVE  \/ Names(cookie, tab, b, s)
                      \/ b = owner[t] /\ \A c \in Browsers : ~Names(cookie, tab, c, s)
    BY DEF SidGain
  <2>1. CASE cookie[b] = s BY <2>1 DEF Names
  <2>2. ASSUME NEW u \in Tabs, owner[u] = b, tb[u].sid = s, u # t PROVE Names(cookie, tab, b, s)
    BY <2>2 DEF Names, Steps
  <2>3. CASE owner[t] = b /\ tb[t].sid = s
    <3>1. r.sid = s BY <2>3 DEF Steps
    <3>2. CASE s = cookie[owner[t]] BY <2>3, <3>2 DEF Names
    <3>3. CASE s = FreshSid BY <1>1, <2>3, <3>3
    <3> QED BY <1>2, <3>1, <3>2, <3>3
  <2> QED BY <2>1, <2>2, <2>3 DEF Names
<1>4. FlowGain(cookie, tb, store, code, t)
  <2> SUFFICES ASSUME NEW b \in Browsers, NEW f \in Flows, Holds(cookie, tb, store, code, b, f)
               PROVE  \/ Holds(cookie, tab, store, code, b, f)
                      \/ b = owner[t] /\ \A c \in Browsers : ~Holds(cookie, tab, store, code, c, f)
    BY DEF FlowGain
  <2> DEFINE had == Holds(cookie, tab, store, code, b, f)
             new == b = owner[t] /\ \A c \in Browsers : ~Holds(cookie, tab, store, code, c, f)
  <2>1. ASSUME NEW u \in Tabs, owner[u] = b, tb[u].pkce = CodesOf(f) PROVE had \/ new
    <3>1. CASE u = t
      <4>1. CodesOf(f) = CodesOf(FreshFlow) BY <2>1, <3>1 DEF Steps, Generates
      <4>2. f = FreshFlow BY <4>1, Distinct
      <4> QED BY <1>1, <2>1, <3>1, <4>2
    <3>2. CASE u # t BY <2>1, <3>2 DEF Steps, Holds
    <3> QED BY <3>1, <3>2
  <2>2. ASSUME NEW u \in Tabs, owner[u] = b, tb[u].pc \in {"redirect", "away"}, tb[u].flow = f
        PROVE  had
    <3>1. u # t BY <2>2 DEF Steps, Generates
    <3> QED BY <2>2, <3>1 DEF Steps, Holds
  <2>3. ASSUME NEW s \in Sids, Names(cookie, tb, b, s), store[s] = CodesOf(f) PROVE had
    <3>1. store[s] # None BY <2>3, Distinct
    <3>2. \E c \in Browsers : Names(cookie, tab, c, s) BY <3>1 DEF IInv, Collected
    <3>3. Names(cookie, tab, b, s) BY <1>3, <2>3, <3>2 DEF SidGain
    <3> QED BY <2>3, <3>3 DEF Holds
  <2>4. CASE code[f].user = b BY <2>4 DEF Holds
  <2> QED BY <2>1, <2>2, <2>3, <2>4 DEF Holds
<1>5. TabOK(r) /\ r.who \in {None, owner[t]}
  BY <1>1, <1>2, Distinct DEF Generates, TabOK
<1>6. r.alone => AloneOK(cookie, tb, store, code, t)
  BY DEF AloneOK, Generates, Steps
<1>7. Shapes(cookie, tb, store, code) BY DEF IInv, Raw, Shapes, Steps
<1> QED BY <1>3, <1>4, <1>5, <1>6, <1>7, RawStep

\* A step of t that makes no new name and leaves cookies, sessions and codes alone.
LEMMA QuietRaw ==
  ASSUME IInv, NEW t \in Tabs, NEW r, NEW tb, Steps(tb, t, r), NoRival(tb, t),
         TabOK(r), r.who \in {None, owner[t]},
         r.sid \in {None, tab[t].sid, cookie[owner[t]]},
         r.pkce = None \/ r.pkce = tab[t].pkce \/
           (cookie[owner[t]] \in Sids /\ r.pkce = store[cookie[owner[t]]]),
         r.pc \in {"redirect", "away"} =>
           tab[t].pc \in {"redirect", "away"} /\ r.flow = tab[t].flow,
         r.alone => AloneOK(cookie, tb, store, code, t)
  PROVE  Raw(cookie, tb, store, code)
<1>1. \A b \in Browsers, s \in Sids : Names(cookie, tb, b, s) => Names(cookie, tab, b, s)
  <2> SUFFICES ASSUME NEW b \in Browsers, NEW s \in Sids, Names(cookie, tb, b, s)
               PROVE  Names(cookie, tab, b, s)
    OBVIOUS
  <2>1. CASE cookie[b] = s BY <2>1 DEF Names
  <2>2. ASSUME NEW u \in Tabs, owner[u] = b, tb[u].sid = s PROVE Names(cookie, tab, b, s)
    BY <2>2, Distinct DEF Names, Steps
  <2> QED BY <2>1, <2>2 DEF Names
<1>2. \A b \in Browsers, f \in Flows :
        Holds(cookie, tb, store, code, b, f) => Holds(cookie, tab, store, code, b, f)
  <2> SUFFICES ASSUME NEW b \in Browsers, NEW f \in Flows, Holds(cookie, tb, store, code, b, f)
               PROVE  Holds(cookie, tab, store, code, b, f)
    OBVIOUS
  <2> DEFINE had == Holds(cookie, tab, store, code, b, f)
  <2>1. ASSUME NEW u \in Tabs, owner[u] = b, tb[u].pkce = CodesOf(f) PROVE had
    <3>1. CASE u = t
      <4>1. r.pkce = CodesOf(f) /\ r.pkce # None BY <2>1, <3>1, Distinct DEF Steps
      <4>2. CASE r.pkce = tab[t].pkce BY <2>1, <3>1, <4>1, <4>2 DEF Holds
      <4>3. CASE cookie[owner[t]] \in Sids /\ r.pkce = store[cookie[owner[t]]]
        <5>1. Names(cookie, tab, b, cookie[owner[t]]) BY <2>1, <3>1 DEF Names
        <5> QED BY <4>1, <4>3, <5>1 DEF Holds
      <4> QED BY <4>1, <4>2, <4>3
    <3>2. CASE u # t BY <2>1, <3>2 DEF Steps, Holds
    <3> QED BY <3>1, <3>2
  <2>2. ASSUME NEW u \in Tabs, owner[u] = b, tb[u].pc \in {"redirect", "away"}, tb[u].flow = f
        PROVE  had
    BY <2>2 DEF Steps, Holds
  <2>3. ASSUME NEW s \in Sids, Names(cookie, tb, b, s), store[s] = CodesOf(f) PROVE had
    BY <1>1, <2>3 DEF Holds
  <2>4. CASE code[f].user = b BY <2>4 DEF Holds
  <2> QED BY <2>1, <2>2, <2>3, <2>4 DEF Holds
<1>3. SidGain(cookie, tb, t) /\ FlowGain(cookie, tb, store, code, t)
  BY <1>1, <1>2 DEF SidGain, FlowGain
<1>4. Shapes(cookie, tb, store, code) BY DEF IInv, Raw, Shapes, Steps
<1> QED BY <1>3, <1>4, RawStep

\* The answer.
LEMMA EndRaw ==
  ASSUME IInv, NEW t \in Tabs, NEW r, Ends(r), NEW tb, Steps(tb, t, r), NoRival(tb, t)
  PROVE  Raw(cookie, tb, store, code)
<1>1. TabOK(r) BY DEF TabOK, Ends
<1> QED BY <1>1, QuietRaw DEF Ends

\* The codes of the browser's own session.
LEMMA RedeemRaw ==
  ASSUME IInv, NEW t \in Tabs, tab[t].pc = "back", NEW r,
         Redeems(r, t, tab[t].flow, tab[t].alone), NEW tb, Steps(tb, t, r), NoRival(tb, t)
  PROVE  Raw(cookie, tb, store, code)
<1>1. TabOK(r) BY DEF TabOK, Redeems
<1>2. r.alone => AloneOK(cookie, tb, store, code, t)
  BY TabOf DEF AloneOK, Redeems, Steps
<1>3. r.who \in {None, owner[t]} /\ r.sid = cookie[owner[t]] /\ cookie[owner[t]] \in Sids
      /\ r.pkce = store[cookie[owner[t]]] /\ r.pc = "redeem"
  BY DEF Redeems
<1> QED BY <1>1, <1>2, <1>3, QuietRaw

\* However it goes on.
LEMMA ArrivesRaw ==
  ASSUME IInv, NEW t \in Tabs, tab[t].sid = None, tab[t].pkce = None,
         NEW flow \in Flows \cup {None}, NEW alone \in BOOLEAN,
         flow = None \/ (tab[t].pc = "back" /\ flow = tab[t].flow /\ alone = tab[t].alone),
         alone => \A u \in Tabs \ {t} : owner[u] = owner[t] => tab[u].pc = "idle",
         NEW tb, Steps(tb, t, Arrives(t, flow, alone)), NoRival(tb, t)
  PROVE  Raw(cookie, tb, store, code)
<1> DEFINE r == Arrives(t, flow, alone)
<1>1. Generates(r, t, alone) \/ Ends(r) \/ Redeems(r, t, flow, alone) BY ArrivesIs
<1> HIDE DEF r
<1>2. Steps(tb, t, r) BY DEF r
<1>3. CASE Generates(r, t, alone) BY <1>2, <1>3, GenerateRaw
<1>4. CASE Ends(r) BY <1>2, <1>4, EndRaw
<1>5. CASE Redeems(r, t, flow, alone)
  <2>1. flow # None BY <1>5, Distinct DEF Redeems
  <2>2. tab[t].pc = "back" /\ Redeems(r, t, tab[t].flow, tab[t].alone) BY <1>5, <2>1
  <2> QED BY <1>2, <2>2, RedeemRaw
<1> QED BY <1>1, <1>3, <1>4, <1>5

LEMMA ArrivesTyped ==
  ASSUME IInv, NEW t \in Tabs, tab[t].sid = None, tab[t].pkce = None,
         NEW flow \in Flows \cup {None}, NEW alone \in BOOLEAN
  PROVE  Arrives(t, flow, alone) \in TabRecord
BY ArrivesIs DEF Generates, Ends, Redeems

-----------------------------------------------------------------------------
(* The actions *)

\* A step of t that uses no new name, with what it saved and the code it has.
LEMMA KeepRaw ==
  ASSUME IInv, NEW t \in Tabs, NEW r, NEW tb, Steps(tb, t, r), NoRival(tb, t),
         NEW ck, NEW st, NEW cd, Shapes(ck, tb, st, cd),
         TabOK(r), r.who \in {None, owner[t]},
         r.alone => AloneOK(ck, tb, st, cd, t),
         \A b \in Browsers \ {owner[t]} : ck[b] = cookie[b],
         ck[owner[t]] \in {cookie[owner[t]], tab[t].sid},
         r.sid \in {None, tab[t].sid}, r.pkce \in {None, tab[t].pkce},
         r.pc \in {"redirect", "away"} => Holds(cookie, tab, store, code, owner[t], r.flow),
         \A s \in Sids : st[s] \in {store[s], None} \/ (s = tab[t].sid /\ st[s] = tab[t].pkce),
         \A f \in Flows : \/ cd[f] = code[f]
                          \/ /\ Holds(cookie, tab, store, code, owner[t], f)
                             /\ cd[f].user \in {None, owner[t]}
  PROVE  Raw(ck, tb, st, cd)
<1>1. \A b \in Browsers, s \in Sids : Names(ck, tb, b, s) => Names(cookie, tab, b, s)
  <2> SUFFICES ASSUME NEW b \in Browsers, NEW s \in Sids, Names(ck, tb, b, s)
               PROVE  Names(cookie, tab, b, s)
    OBVIOUS
  <2>1. CASE ck[b] = s BY <2>1 DEF Names
  <2>2. ASSUME NEW u \in Tabs, owner[u] = b, tb[u].sid = s PROVE Names(cookie, tab, b, s)
    BY <2>2, Distinct DEF Names, Steps
  <2> QED BY <2>1, <2>2 DEF Names
<1>2. \A b \in Browsers, f \in Flows :
        Holds(ck, tb, st, cd, b, f) => Holds(cookie, tab, store, code, b, f)
  <2> SUFFICES ASSUME NEW b \in Browsers, NEW f \in Flows, Holds(ck, tb, st, cd, b, f)
               PROVE  Holds(cookie, tab, store, code, b, f)
    OBVIOUS
  <2> DEFINE had == Holds(cookie, tab, store, code, b, f)
  <2>0. CodesOf(f) # None BY Distinct
  <2>1. ASSUME NEW u \in Tabs, owner[u] = b, tb[u].pkce = CodesOf(f) PROVE had
    <3>1. CASE u = t BY <2>0, <2>1, <3>1 DEF Steps, Holds
    <3>2. CASE u # t BY <2>1, <3>2 DEF Steps, Holds
    <3> QED BY <3>1, <3>2
  <2>2. ASSUME NEW u \in Tabs, owner[u] = b, tb[u].pc \in {"redirect", "away"}, tb[u].flow = f
        PROVE  had
    <3>1. CASE u = t BY <2>2, <3>1 DEF Steps
    <3>2. CASE u # t BY <2>2, <3>2 DEF Steps, Holds
    <3> QED BY <3>1, <3>2
  <2>3. ASSUME NEW s \in Sids, Names(ck, tb, b, s), st[s] = CodesOf(f) PROVE had
    <3>1. Names(cookie, tab, b, s) BY <1>1, <2>3
    <3>2. CASE st[s] \in {store[s], None} BY <2>0, <2>3, <3>1, <3>2 DEF Holds
    <3>3. CASE s = tab[t].sid /\ st[s] = tab[t].pkce
      <4>1. Names(cookie, tab, owner[t], s) /\ owner[t] \in Browsers BY <3>3, TabOf DEF Names
      <4>2. owner[t] = b BY <3>1, <4>1 DEF IInv, Raw, OneSid
      <4> QED BY <2>3, <3>3, <4>2 DEF Holds
    <3> QED BY <3>2, <3>3
  <2>4. CASE cd[f].user = b
    <3>1. b # None BY Distinct
    <3>2. CASE cd[f] = code[f] BY <2>4, <3>2 DEF Holds
    <3>3. CASE /\ Holds(cookie, tab, store, code, owner[t], f)
               /\ cd[f].user \in {None, owner[t]}
      BY <2>4, <3>1, <3>3
    <3> QED BY <3>2, <3>3
  <2> QED BY <2>1, <2>2, <2>3, <2>4 DEF Holds
<1>3. SidGain(ck, tb, t) /\ FlowGain(ck, tb, st, cd, t) BY <1>1, <1>2 DEF SidGain, FlowGain
<1>4. \A s \in Sids : \/ st[s] \in {store[s], None} \/ Names(cookie, tab, owner[t], s)
                      \/ \A c \in Browsers : ~Names(cookie, tab, c, s)
  BY DEF Names
<1>5. \A f \in Flows : cd[f] = code[f] \/ Holds(cookie, tab, store, code, owner[t], f)
  OBVIOUS
<1> QED BY <1>3, <1>4, <1>5, RawStep

LEMMA MicrosoftLoginInv == ASSUME IInv, NEW t \in Tabs, MicrosoftLogin(t) PROVE IInv'
<1> DEFINE alone == \A u \in Tabs \ {t} : owner[u] = owner[t] => tab[u].pc = "idle"
           r == Arrives(t, None, alone)
           tb == Request(t, r)
<1>1. tab[t].pc = "idle" /\ Become(cookie, tb, store, code) /\ losses' = losses
  BY DEF MicrosoftLogin
<1>2. tab[t].sid = None /\ tab[t].pkce = None BY <1>1, TabOf DEF TabOK
<1>3. alone \in BOOLEAN /\ (alone <=> \A u \in Tabs \ {t} :
                                        owner[u] = owner[t] => tab[u].pc = "idle")
  OBVIOUS
<1> HIDE DEF alone
<1>4. r \in TabRecord BY <1>2, <1>3, ArrivesTyped
<1>5. Steps(tb, t, r) /\ NoRival(tb, t) BY <1>4, RequestSteps
<1> HIDE DEF tb
<1>6. Raw(cookie, tb, store, code) BY <1>2, <1>3, <1>5, ArrivesRaw
<1>7. losses' \in 0..MaxLosses BY <1>1 DEF IInv
<1> QED BY <1>1, <1>6, <1>7, BecomeInv

\* A request of a tab that is not idle, with the session of its browser.
LEMMA ArrivesInv ==
  ASSUME IInv, NEW t \in Tabs, tab[t].pc \in {"away", "back"}, NEW flow \in Flows \cup {None},
         flow = None \/ (tab[t].pc = "back" /\ flow = tab[t].flow),
         Turn(t, Arrives(t, flow, tab[t].alone))
  PROVE  IInv'
<1> DEFINE alone == tab[t].alone
           r == Arrives(t, flow, alone)
           tb == [tab EXCEPT ![t] = r]
<1>1. Become(cookie, tb, store, code) /\ losses' = losses BY DEF Turn
<1>2. tab[t].sid = None /\ tab[t].pkce = None BY TabOf DEF TabOK
<1>3. alone \in BOOLEAN BY TabOf DEF TabRecord
<1>4. alone => \A u \in Tabs \ {t} : owner[u] = owner[t] => tab[u].pc = "idle"
  BY TabOf DEF AloneOK
<1>5. alone = tab[t].alone OBVIOUS
<1> HIDE DEF alone
<1>6. r \in TabRecord BY <1>2, <1>3, ArrivesTyped
<1> HIDE DEF r
<1>7. Steps(tb, t, r) BY <1>6, TurnSteps
<1> HIDE DEF tb
<1>8. NoRival(tb, t) BY <1>7, NoRivals
<1>9. Steps(tb, t, Arrives(t, flow, alone)) BY <1>7 DEF r
<1>10. Raw(cookie, tb, store, code) BY <1>2, <1>3, <1>4, <1>5, <1>8, <1>9, ArrivesRaw
<1>11. losses' \in 0..MaxLosses BY <1>1 DEF IInv
<1> QED BY <1>1, <1>10, <1>11, BecomeInv

LEMMA MicrosoftCallbackInv == ASSUME IInv, NEW t \in Tabs, MicrosoftCallback(t) PROVE IInv'
<1>1. tab[t].flow \in Flows \cup {None} BY TabOf DEF TabRecord
<1> QED BY <1>1, ArrivesInv DEF MicrosoftCallback

LEMMA DeclineInv == ASSUME IInv, NEW t \in Tabs, Decline(t) PROVE IInv'
BY ArrivesInv DEF Decline

\* An answer without a change to the session.
LEMMA EndsInv ==
  ASSUME IInv, NEW t \in Tabs, tab[t].pc # "idle", NEW r, Ends(r), Turn(t, r)
  PROVE  IInv'
<1> DEFINE tb == [tab EXCEPT ![t] = r]
<1>1. Become(cookie, tb, store, code) /\ losses' = losses BY DEF Turn
<1>2. Steps(tb, t, r) BY TurnSteps DEF Ends
<1> HIDE DEF tb
<1>3. NoRival(tb, t) BY <1>2, NoRivals
<1>4. Raw(cookie, tb, store, code) BY <1>2, <1>3, EndRaw
<1>5. losses' \in 0..MaxLosses BY <1>1 DEF IInv
<1> QED BY <1>1, <1>4, <1>5, BecomeInv

LEMMA AnsweredEnds == ASSUME IInv, NEW t \in Tabs PROVE Ends(Answered(tab[t]))
<1>1. tab[t].flow \in Flows \cup {None} BY TabOf DEF TabRecord
<1> QED BY <1>1, EndsOK DEF Answered

LEMMA ValidateInv == ASSUME IInv, NEW t \in Tabs, Validate(t) PROVE IInv'
BY AnsweredEnds, EndsInv DEF Validate

LEMMA FailsInv == ASSUME IInv, NEW t \in Tabs, Fails(t) PROVE IInv'
BY AnsweredEnds, EndsInv DEF Fails

LEMMA CloseTabInv == ASSUME IInv, NEW t \in Tabs, CloseTab(t) PROVE IInv'
<1>1. Ends(Closed) BY ClosedIs DEF Ends
<1> QED BY <1>1, EndsInv DEF CloseTab

\* The session a request writes to, with what it writes.
LEMMA SavedIs ==
  ASSUME IInv, NEW t \in Tabs, tab[t].pc = "url"
  PROVE  /\ Saved(tab[t]) \in [Sids -> Pairs \cup {None}] /\ tab[t].sid \in Sids
         /\ \A s \in Sids : Saved(tab[t])[s] = IF s = tab[t].sid THEN tab[t].pkce ELSE store[s]
         /\ \E f \in Flows : tab[t].pkce = CodesOf(f) /\ tab[t].pkce.state = f
<1>1. tab[t].sid \in Sids /\ tab[t].pkce \in Pairs BY TabOf DEF TabOK, TabRecord
<1>2. store \in [Sids -> Pairs \cup {None}] BY TabOf DEF Shapes
<1>3. \E f \in Flows : tab[t].pkce = CodesOf(f) /\ tab[t].pkce.state = f
  BY <1>1, Distinct DEF Pairs
<1> QED BY <1>1, <1>2, <1>3 DEF Saved

LEMMA GetAuthCodeUrlInv == ASSUME IInv, NEW t \in Tabs, GetAuthCodeUrl(t) PROVE IInv'
<1> DEFINE f == tab[t].pkce.state
           r == [tab[t] EXCEPT !.pc = "redirect", !.flow = f, !.pkce = None]
           tb == [tab EXCEPT ![t] = r]
           st == Saved(tab[t])
<1>1. tab[t].pc = "url" /\ Become(cookie, tb, st, code) /\ losses' = losses
  BY DEF GetAuthCodeUrl
<1>2. f \in Flows /\ tab[t].pkce = CodesOf(f) BY <1>1, SavedIs
<1>3. /\ st \in [Sids -> Pairs \cup {None}] /\ tab[t].sid \in Sids
      /\ \A s \in Sids : st[s] = IF s = tab[t].sid THEN tab[t].pkce ELSE store[s]
  BY <1>1, SavedIs
<1> HIDE DEF f, st
<1>4. /\ r \in TabRecord /\ r.pc = "redirect" /\ r.sid = tab[t].sid /\ r.pkce = None
      /\ r.flow = f /\ r.who = tab[t].who /\ r.alone = tab[t].alone
  BY <1>2, TabOf DEF TabRecord
<1> HIDE DEF r
<1>5. Steps(tb, t, r) BY <1>4, TurnSteps
<1> HIDE DEF tb
<1>6. NoRival(tb, t) BY <1>1, <1>5, NoRivals
<1>7. Shapes(cookie, tb, st, code) BY <1>3, <1>5, TabOf DEF Shapes, Steps
<1>8. TabOK(r) /\ r.who \in {None, owner[t]} BY <1>2, <1>3, <1>4, TabOf DEF TabOK
<1>9. r.alone => AloneOK(cookie, tb, st, code, t)
  <2> SUFFICES ASSUME r.alone PROVE AloneOK(cookie, tb, st, code, t) OBVIOUS
  <2>1. AloneOK(cookie, tab, store, code, t) BY <1>4, TabOf
  <2>2. \A u \in Tabs \ {t} : owner[u] = owner[t] => tb[u].pc = "idle"
    BY <1>5, <2>1 DEF AloneOK, Steps
  <2>3. tb[t] = r BY <1>5 DEF Steps
  <2>4. st[r.sid] = CodesOf(r.flow) BY <1>2, <1>3, <1>4
  <2> QED BY <1>4, <2>2, <2>3, <2>4 DEF AloneOK
<1>10. Holds(cookie, tab, store, code, owner[t], r.flow) BY <1>2, <1>4 DEF Holds
<1>11. Raw(cookie, tb, st, code)
  BY <1>3, <1>4, <1>5, <1>6, <1>7, <1>8, <1>9, <1>10, KeepRaw
<1>12. losses' \in 0..MaxLosses BY <1>1 DEF IInv
<1> QED BY <1>1, <1>11, <1>12, BecomeInv

LEMMA GetAuthCodeUrlFailsInv ==
  ASSUME IInv, NEW t \in Tabs, GetAuthCodeUrlFails(t) PROVE IInv'
<1> DEFINE r == Answered(tab[t])
           tb == [tab EXCEPT ![t] = r]
           st == Saved(tab[t])
           ck == [cookie EXCEPT ![owner[t]] = tab[t].sid]
<1>1. tab[t].pc = "url" /\ Become(ck, tb, st, code) /\ losses' = losses
  BY DEF GetAuthCodeUrlFails
<1>2. /\ st \in [Sids -> Pairs \cup {None}] /\ tab[t].sid \in Sids
      /\ \A s \in Sids : st[s] = IF s = tab[t].sid THEN tab[t].pkce ELSE store[s]
  BY <1>1, SavedIs
<1>3. Ends(r) BY AnsweredEnds
<1> HIDE DEF r, st
<1>4. Steps(tb, t, r) BY <1>3, TurnSteps DEF Ends
<1> HIDE DEF tb
<1>5. NoRival(tb, t) BY <1>1, <1>4, NoRivals
<1>6. /\ ck \in [Browsers -> Sids \cup {None}] /\ ck[owner[t]] = tab[t].sid
      /\ \A b \in Browsers \ {owner[t]} : ck[b] = cookie[b]
  BY <1>2, TabOf DEF Shapes
<1> HIDE DEF ck
<1>7. Shapes(ck, tb, st, code) BY <1>2, <1>4, <1>6, TabOf DEF Shapes, Steps
<1>8. TabOK(r) /\ r.who \in {None, owner[t]} /\ ~r.alone /\ r.pc = "idle" /\ r.sid = None
      /\ r.pkce = None
  BY <1>3 DEF TabOK, Ends
<1>9. Raw(ck, tb, st, code) BY <1>2, <1>4, <1>5, <1>6, <1>7, <1>8, KeepRaw
<1>10. losses' \in 0..MaxLosses BY <1>1 DEF IInv
<1> QED BY <1>1, <1>9, <1>10, BecomeInv

LEMMA AcquireTokenByCodeInv == ASSUME IInv, NEW t \in Tabs, AcquireTokenByCode(t) PROVE IInv'
<1>1. CASE Turn(t, Answered(tab[t]))
  BY <1>1, AnsweredEnds, EndsInv DEF AcquireTokenByCode
<1>2. ASSUME Redeemable(tab[t]), losses' = losses,
             Become(cookie, [tab EXCEPT ![t] = [tab[t] EXCEPT !.pc = "validate",
                                                !.who = code[tab[t].flow].user]],
                    store, [code EXCEPT ![tab[t].flow].used = TRUE])
      PROVE  IInv'
  <2> DEFINE f == tab[t].flow
             who == code[f].user
             r == [tab[t] EXCEPT !.pc = "validate", !.who = who]
             tb == [tab EXCEPT ![t] = r]
             yes == TRUE
             cd == [code EXCEPT ![f].used = yes]
  <2>1. tab[t].pc = "redeem" /\ Become(cookie, tb, store, cd)
    BY <1>2 DEF AcquireTokenByCode
  <2>2. f \in Flows /\ tab[t].pkce = CodesOf(f) /\ tab[t].sid \in Sids
    BY <2>1, TabOf DEF TabOK
  <2>3. Holds(cookie, tab, store, code, owner[t], f) BY <2>2 DEF Holds
  <2>4. code \in [Flows -> CodeRecord] BY TabOf DEF Shapes
  <2>5. who \in Browsers \cup {None} BY <2>2, <2>4 DEF CodeRecord
  <2>6. who \in {None, owner[t]}
    <3>1. CASE who \in Browsers
      <4>1. Holds(cookie, tab, store, code, who, f) BY DEF Holds
      <4> HIDE DEF f, who
      <4>2. owner[t] \in Browsers BY TabOf
      <4>3. OneFlow(cookie, tab, store, code) BY DEF IInv, Raw
      <4> QED BY <2>2, <2>3, <3>1, <4>1, <4>2, <4>3 DEF OneFlow
    <3> QED BY <2>5, <3>1
  <2>7. yes \in BOOLEAN OBVIOUS
  <2> HIDE DEF yes
  <2>8. /\ cd \in [Flows -> CodeRecord] /\ cd[f].user = who
        /\ \A g \in Flows \ {f} : cd[g] = code[g]
    <3>1. \A g \in Flows \ {f} : cd[g] = code[g] BY <2>4
    <3>2. code[f] \in CodeRecord BY <2>2, <2>4
    <3>3. cd[f] = [code[f] EXCEPT !.used = yes] BY <2>2, <2>4
    <3>4. cd[f] \in CodeRecord /\ cd[f].user = who BY <2>7, <3>2, <3>3 DEF CodeRecord
    <3>5. cd = [g \in Flows |-> cd[g]] BY <2>4
    <3> HIDE DEF cd, f, who
    <3>6. \A g \in Flows : cd[g] \in CodeRecord BY <2>4, <3>1, <3>4
    <3> QED BY <3>1, <3>4, <3>5, <3>6
  <2> HIDE DEF cd, who
  <2>9. /\ r \in TabRecord /\ r.pc = "validate" /\ r.sid = tab[t].sid /\ r.pkce = tab[t].pkce
        /\ r.flow = f /\ r.who = who /\ r.alone = tab[t].alone
    BY <2>5, TabOf DEF TabRecord, InHandler
  <2> HIDE DEF r, f
  <2>10. Steps(tb, t, r) BY <2>9, TurnSteps
  <2> HIDE DEF tb
  <2>11. NoRival(tb, t) BY <2>1, <2>10, NoRivals
  <2>12. Shapes(cookie, tb, store, cd) BY <2>8, <2>10, TabOf DEF Shapes, Steps
  <2>13. TabOK(r) /\ r.who \in {None, owner[t]} BY <2>2, <2>6, <2>9 DEF TabOK
  <2>14. r.alone => AloneOK(cookie, tb, store, cd, t)
    BY <2>9, <2>10, TabOf DEF AloneOK, Steps
  <2>15. Raw(cookie, tb, store, cd)
    BY <2>3, <2>6, <2>8, <2>9, <2>10, <2>11, <2>12, <2>13, <2>14, KeepRaw
  <2>16. losses' \in 0..MaxLosses BY <1>2 DEF IInv
  <2> QED BY <2>1, <2>15, <2>16, BecomeInv
<1> QED BY <1>1, <1>2 DEF AcquireTokenByCode

LEMMA ReceiveInv == ASSUME IInv, NEW t \in Tabs, Receive(t) PROVE IInv'
<1> DEFINE r == [tab[t] EXCEPT !.pc = "away", !.sid = None]
           tb == [tab EXCEPT ![t] = r]
           ck == [cookie EXCEPT ![owner[t]] = tab[t].sid]
<1>1. tab[t].pc = "redirect" /\ Become(ck, tb, store, code) /\ losses' = losses
  BY DEF Receive
<1>2. tab[t].sid \in Sids /\ tab[t].pkce = None /\ tab[t].flow \in Flows
  BY <1>1, TabOf DEF TabOK
<1>3. /\ ck \in [Browsers -> Sids \cup {None}] /\ ck[owner[t]] = tab[t].sid
      /\ \A b \in Browsers \ {owner[t]} : ck[b] = cookie[b]
  BY <1>2, TabOf DEF Shapes
<1>4. /\ r \in TabRecord /\ r.pc = "away" /\ r.sid = None /\ r.pkce = tab[t].pkce
      /\ r.flow = tab[t].flow /\ r.who = tab[t].who /\ r.alone = tab[t].alone
  BY TabOf DEF TabRecord
<1> HIDE DEF r, ck
<1>5. Steps(tb, t, r) BY <1>4, TurnSteps
<1> HIDE DEF tb
<1>6. NoRival(tb, t) BY <1>1, <1>5, NoRivals
<1>7. Shapes(ck, tb, store, code) BY <1>3, <1>5, TabOf DEF Shapes, Steps
<1>8. TabOK(r) /\ r.who \in {None, owner[t]} BY <1>2, <1>4, TabOf DEF TabOK
<1>9. r.alone => AloneOK(ck, tb, store, code, t)
  BY <1>1, <1>3, <1>4, <1>5, TabOf DEF AloneOK, Steps
<1>10. Holds(cookie, tab, store, code, owner[t], r.flow) BY <1>1, <1>4 DEF Holds
<1>11. Raw(ck, tb, store, code)
  BY <1>3, <1>4, <1>5, <1>6, <1>7, <1>8, <1>9, <1>10, KeepRaw
<1>12. losses' \in 0..MaxLosses BY <1>1 DEF IInv
<1> QED BY <1>1, <1>11, <1>12, BecomeInv

LEMMA AuthorizeInv == ASSUME IInv, NEW t \in Tabs, Authorize(t) PROVE IInv'
<1> DEFINE f == tab[t].flow
           r == [tab[t] EXCEPT !.pc = "back"]
           tb == [tab EXCEPT ![t] = r]
           no == FALSE
           new == [user |-> owner[t], used |-> no]
           cd == [code EXCEPT ![f] = new]
<1>1. tab[t].pc = "away" /\ Become(cookie, tb, store, cd) /\ losses' = losses
  BY DEF Authorize
<1>2. tab[t].sid = None /\ tab[t].pkce = None /\ f \in Flows BY <1>1, TabOf DEF TabOK
<1>3. Holds(cookie, tab, store, code, owner[t], f) BY <1>1 DEF Holds
<1>4. no \in BOOLEAN /\ ~no OBVIOUS
<1> HIDE DEF no
<1>5. new \in CodeRecord /\ new.user = owner[t] /\ ~new.used BY <1>4, TabOf DEF CodeRecord
<1> HIDE DEF new
<1>6. code \in [Flows -> CodeRecord] BY TabOf DEF Shapes
<1>7. cd \in [Flows -> CodeRecord] /\ cd[f] = new /\ \A g \in Flows \ {f} : cd[g] = code[g]
  BY <1>2, <1>5, <1>6
<1> HIDE DEF cd
<1>8. /\ r \in TabRecord /\ r.pc = "back" /\ r.sid = None /\ r.pkce = None
      /\ r.flow = f /\ r.who = tab[t].who /\ r.alone = tab[t].alone
  BY <1>2, TabOf DEF TabRecord
<1> HIDE DEF r, f
<1>9. Steps(tb, t, r) BY <1>8, TurnSteps
<1> HIDE DEF tb
<1>10. NoRival(tb, t) BY <1>1, <1>9, NoRivals
<1>11. Shapes(cookie, tb, store, cd) BY <1>7, <1>9, TabOf DEF Shapes, Steps
<1>12. TabOK(r) /\ r.who \in {None, owner[t]} BY <1>2, <1>8, TabOf DEF TabOK
<1>13. r.alone => AloneOK(cookie, tb, store, cd, t)
  <2> SUFFICES ASSUME r.alone PROVE AloneOK(cookie, tb, store, cd, t) OBVIOUS
  <2>1. AloneOK(cookie, tab, store, code, t) BY <1>8, TabOf
  <2>2. f = tab[t].flow BY DEF f
  <2> QED BY <1>1, <1>5, <1>7, <1>8, <1>9, <2>1, <2>2 DEF AloneOK, Steps
<1>14. Raw(cookie, tb, store, cd)
  BY <1>3, <1>5, <1>7, <1>8, <1>9, <1>10, <1>11, <1>12, <1>13, KeepRaw
<1>15. losses' \in 0..MaxLosses BY <1>1 DEF IInv
<1> QED BY <1>1, <1>14, <1>15, BecomeInv

LEMMA OpenCallbackInv == ASSUME IInv, NEW t \in Tabs, OpenCallback(t) PROVE IInv'
<1>1. tab[t].pc = "idle" /\ losses' = losses BY DEF OpenCallback
<1>2. PICK u \in Tabs : /\ tab[u].flow # None
                        /\ Become(cookie, Request(t, [Closed EXCEPT !.pc = "back",
                                                             !.flow = tab[u].flow]), store, code)
  BY DEF OpenCallback
<1> DEFINE f == tab[u].flow
           r == [Closed EXCEPT !.pc = "back", !.flow = f]
           tb == Request(t, r)
<1>3. f \in Flows BY <1>2, TabOf DEF TabRecord
<1>4. Become(cookie, tb, store, code) BY <1>2
<1> HIDE DEF f
<1>5. /\ r \in TabRecord /\ r.pc = "back" /\ r.sid = None /\ r.pkce = None /\ r.flow = f
      /\ r.who = None /\ ~r.alone
  BY <1>3, ClosedIs DEF TabRecord
<1> HIDE DEF r
<1>6. Steps(tb, t, r) /\ NoRival(tb, t) BY <1>5, RequestSteps
<1> HIDE DEF tb
<1>7. TabOK(r) BY <1>3, <1>5 DEF TabOK
<1>8. Raw(cookie, tb, store, code) BY <1>5, <1>6, <1>7, QuietRaw
<1>9. losses' \in 0..MaxLosses BY <1>1 DEF IInv
<1> QED BY <1>4, <1>8, <1>9, BecomeInv

-----------------------------------------------------------------------------
(* Sessions lost *)

\* Some requests end and some sessions are gone.
LEMMA LossRaw ==
  ASSUME IInv, NEW tb \in [Tabs -> TabRecord], NEW st \in [Sids -> Pairs \cup {None}],
         \A u \in Tabs : tb[u] = tab[u] \/ Ends(tb[u]),
         \A s \in Sids : st[s] \in {store[s], None}
  PROVE  Raw(cookie, tb, st, code)
<1>1. \A b \in Browsers, s \in Sids : Names(cookie, tb, b, s) => Names(cookie, tab, b, s)
  BY Distinct DEF Names, Ends
<1>2. ASSUME NEW b \in Browsers, NEW f \in Flows, Holds(cookie, tb, st, code, b, f)
      PROVE  Holds(cookie, tab, store, code, b, f)
  <2>1. CodesOf(f) # None BY Distinct
  <2> QED BY <1>1, <1>2, <2>1 DEF Holds, Ends
<1>3. Shapes(cookie, tb, st, code) BY DEF IInv, Raw, Shapes
<1>4. \A u \in Tabs : TabOK(tb[u]) /\ tb[u].who \in {None, owner[u]}
  BY DEF IInv, Raw, TabOK, Ends
<1>5. OneSid(cookie, tb) BY <1>1 DEF IInv, Raw, OneSid
<1>6. OneFlow(cookie, tb, st, code)
  <2>1. OneFlow(cookie, tab, store, code) BY DEF IInv, Raw
  <2> QED BY <1>2, <2>1 DEF OneFlow
<1>7. ASSUME NEW u \in Tabs, tb[u].alone PROVE AloneOK(cookie, tb, st, code, u)
  <2>1. tb[u] = tab[u] BY <1>7 DEF Ends
  <2>2. AloneOK(cookie, tab, store, code, u) /\ TabOK(tab[u]) BY <1>7, <2>1, TabOf
  <2>3. \A v \in Tabs : tab[v].pc = "idle" => tb[v].pc = "idle" BY DEF Ends
  <2>4. cookie[owner[u]] \in Sids \cup {None} BY TabOf
  <2> QED BY <2>1, <2>2, <2>3, <2>4 DEF AloneOK, TabOK
<1> QED BY <1>3, <1>4, <1>5, <1>6, <1>7 DEF Raw

LEMMA LossCounted ==
  ASSUME IInv, losses < MaxLosses, losses' = losses + 1 PROVE losses' \in 0..MaxLosses
BY PoolsAssumption DEF IInv

LEMMA ExpireInv == ASSUME IInv, Expire PROVE IInv'
<1>1. losses' \in 0..MaxLosses BY LossCounted DEF Expire
<1>2. PICK s \in Sids : Become(cookie, tab, [store EXCEPT ![s] = None], code) BY DEF Expire
<1> DEFINE st == [store EXCEPT ![s] = None]
<1>3. tab \in [Tabs -> TabRecord] /\ store \in [Sids -> Pairs \cup {None}]
  BY DEF IInv, Raw, Shapes
<1>4. st \in [Sids -> Pairs \cup {None}] /\ \A q \in Sids : st[q] \in {store[q], None}
  BY <1>3
<1> HIDE DEF st
<1>5. Raw(cookie, tab, st, code) BY <1>3, <1>4, LossRaw
<1> QED BY <1>1, <1>2, <1>5, BecomeInv DEF st

LEMMA RestartInv == ASSUME IInv, Restart PROVE IInv'
<1>1. losses' \in 0..MaxLosses BY LossCounted DEF Restart
<1> DEFINE tb == [t \in Tabs |-> IF tab[t].pc \in InHandler THEN Answered(tab[t]) ELSE tab[t]]
           st == [s \in Sids |-> None]
<1>2. Become(cookie, tb, st, code) BY DEF Restart
<1>3. \A u \in Tabs : tb[u] \in TabRecord /\ (tb[u] = tab[u] \/ Ends(tb[u]))
  BY AnsweredEnds, TabOf DEF Ends
<1>4. tb \in [Tabs -> TabRecord] BY <1>3
<1>5. st \in [Sids -> Pairs \cup {None}] /\ \A s \in Sids : st[s] \in {store[s], None}
  OBVIOUS
<1> HIDE DEF tb, st
<1>6. Raw(cookie, tb, st, code) BY <1>3, <1>4, <1>5, LossRaw
<1> QED BY <1>1, <1>2, <1>6, BecomeInv

-----------------------------------------------------------------------------
(* The theorems *)

LEMMA InitInv == ASSUME Init PROVE IInv
<1>1. /\ owner \in [Tabs -> Browsers] /\ losses \in 0..MaxLosses
      /\ \A s \in Sids : store[s] = None
      /\ \A b \in Browsers : cookie[b] = None
      /\ \A f \in Flows : code[f] = NoCode
      /\ \A t \in Tabs : tab[t] = Closed
  BY PoolsAssumption DEF Init
<1>2. NoCode \in CodeRecord /\ NoCode.user = None BY DEF NoCode, CodeRecord
<1>3. Shapes(cookie, tab, store, code) BY <1>2, ClosedIs DEF Init, Shapes
<1>4. \A b \in Browsers, s \in Sids : ~Names(cookie, tab, b, s)
  BY <1>1, ClosedIs, Distinct DEF Names
<1>5. \A b \in Browsers, f \in Flows : ~Holds(cookie, tab, store, code, b, f)
  <2> SUFFICES ASSUME NEW b \in Browsers, NEW f \in Flows
               PROVE  ~Holds(cookie, tab, store, code, b, f)
    OBVIOUS
  <2>1. CodesOf(f) # None /\ b # None BY Distinct
  <2> QED BY <1>1, <1>2, <2>1, ClosedIs DEF Holds
<1>6. OneSid(cookie, tab) /\ OneFlow(cookie, tab, store, code)
  BY <1>4, <1>5 DEF OneSid, OneFlow
<1>7. \A t \in Tabs : TabOK(tab[t]) /\ tab[t].who \in {None, owner[t]} /\ ~tab[t].alone
  BY <1>1, ClosedIs DEF TabOK
<1>8. Collected BY <1>1 DEF Collected
<1> QED BY <1>1, <1>3, <1>6, <1>7, <1>8 DEF IInv, Raw

LEMMA NextInv == ASSUME IInv, [Next]_vars PROVE IInv'
<1>1. CASE UNCHANGED vars
  BY <1>1 DEF vars, IInv, Raw, Shapes, OneSid, OneFlow, Names, Holds, AloneOK, Collected
<1>2. CASE \E t \in Tabs : MicrosoftLogin(t) BY <1>2, MicrosoftLoginInv
<1>3. CASE \E t \in Tabs : OpenCallback(t) BY <1>3, OpenCallbackInv
<1>4. CASE \E t \in Tabs : Serve(t)
  BY <1>4, MicrosoftCallbackInv, GetAuthCodeUrlInv, AcquireTokenByCodeInv, ValidateInv,
     ReceiveInv DEF Serve
<1>5. CASE \E t \in Tabs : Decide(t) BY <1>5, AuthorizeInv, CloseTabInv DEF Decide
<1>6. CASE \E t \in Tabs : Decline(t) BY <1>6, DeclineInv
<1>7. CASE \E t \in Tabs : GetAuthCodeUrlFails(t) BY <1>7, GetAuthCodeUrlFailsInv
<1>8. CASE \E t \in Tabs : Fails(t) BY <1>8, FailsInv
<1>9. CASE Expire BY <1>9, ExpireInv
<1>10. CASE Restart BY <1>10, RestartInv
<1> QED BY <1>1, <1>2, <1>3, <1>4, <1>5, <1>6, <1>7, <1>8, <1>9, <1>10 DEF Next

\* Every session id and every pair of codes belongs to at most one browser, in all the
\* cookies, requests, sessions, redirections and codes at Microsoft together; with it
\* what each tab has at each point of a login (initiateAuthFlow to handleCallback).
THEOREM Invariant == Spec => []IInv
<1>1. Init => IInv BY InitInv
<1>2. IInv /\ [Next]_vars => IInv' BY NextInv
<1> QED BY <1>1, <1>2, PTL DEF Spec

\* The shape of the state; handleCallback has a verifier whenever it redeems a code.
THEOREM TypeCorrect == Spec => []TypeOK
<1>1. IInv => TypeOK
  <2> SUFFICES ASSUME IInv PROVE TypeOK OBVIOUS
  <2>1. Pairs \subseteq PkceCodes BY DEF Pairs, PkceCodes, CodesOf
  <2>2. \A t \in Tabs : tab[t].pc = "redeem" => tab[t].pkce # None
    BY TabOf, Distinct DEF TabOK
  <2> QED BY <2>1, <2>2 DEF IInv, Raw, Shapes, TypeOK, TabRecord, CodeRecord
<1> QED BY <1>1, Invariant, PTL

\* A login is only completed for the user of its browser: handleCallback's comparison
\* with the codes of the session keeps out every callback address of another browser.
THEOREM LoginIsOwn == Spec => []OwnLogin
<1>1. IInv => OwnLogin BY DEF IInv, Raw, OwnLogin
<1> QED BY <1>1, Invariant, PTL

\* A login that is alone in its browser is never refused by handleCallback, neither
\* for its state nor for its code, whatever sessions are lost meanwhile.
THEOREM AloneIsServed == Spec => []AloneSucceeds
<1>1. ASSUME IInv, NEW t \in Tabs, tab[t].alone
      PROVE  /\ tab[t].pc = "back" =>
                  SessionOf(owner[t]).pkce \in {None, CodesOf(tab[t].flow)}
             /\ tab[t].pc \in {"back", "redeem"} => ~code[tab[t].flow].used
  <2>1. AloneOK(cookie, tab, store, code, t) BY <1>1, TabOf
  <2> QED BY <2>1 DEF AloneOK, SessionOf
<1>2. IInv => AloneSucceeds BY <1>1 DEF AloneSucceeds
<1> QED BY <1>2, Invariant, PTL
=============================================================================
