-------------------------- MODULE RetrievalProofs --------------------------
(***************************************************************************)
(* Proofs about Retrieval, for every number of messages, page size and way *)
(* of reading: the type invariant, that mail which arrives hides none that *)
(* was there, and that the pages of a mailbox which stays as it is are a   *)
(* partition of it in its order.                                           *)
(***************************************************************************)
EXTENDS Retrieval, Counting, SequenceTheorems

-----------------------------------------------------------------------------
(* Order *)

\* How many of S come before m by key.
Rank(S, key, m) == Cardinality({n \in S : key[n] < key[m]})

LEMMA RankIs ==
  ASSUME NEW S, IsFiniteSet(S), NEW key \in [S -> Int],
         \A a, b \in S : key[a] = key[b] => a = b
  PROVE  /\ \A m \in S : Rank(S, key, m) \in 0..(Cardinality(S) - 1)
         /\ \A a, b \in S : Rank(S, key, a) = Rank(S, key, b) => a = b
         /\ \A i \in 1..Cardinality(S) : \E m \in S : Rank(S, key, m) = i - 1
<1> DEFINE P(m) == {n \in S : key[n] < key[m]}
           N == Cardinality(S)
<1>0. N \in Nat BY FS_CardinalityType
<1>1. \A m \in S : IsFiniteSet(P(m)) /\ Cardinality(P(m)) \in Nat
  <2> TAKE m \in S
  <2>1. IsFiniteSet(P(m)) BY FS_Subset
  <2> QED BY <2>1, FS_CardinalityType
<1>2. ASSUME NEW m \in S PROVE Cardinality(P(m)) \in 0..(N - 1)
  <2>1. P(m) \subseteq S \ {m} OBVIOUS
  <2>2. IsFiniteSet(S \ {m}) /\ Cardinality(S \ {m}) = N - 1 BY FS_RemoveElement
  <2> HIDE DEF P, N
  <2>3. Cardinality(P(m)) <= N - 1 BY <2>1, <2>2, FS_Subset
  <2> QED BY <1>0, <1>1, <2>3
<1>3. ASSUME NEW a \in S, NEW b \in S, key[a] < key[b]
      PROVE  Cardinality(P(a)) < Cardinality(P(b))
  <2>1. P(a) \cup {a} \subseteq P(b) /\ a \notin P(a) BY <1>3
  <2>2. Cardinality(P(a) \cup {a}) = Cardinality(P(a)) + 1 BY <1>1, <2>1, FS_AddElement
  <2>3. Cardinality(P(a) \cup {a}) <= Cardinality(P(b)) BY <1>1, <2>1, FS_Subset
  <2>4. Cardinality(P(a)) \in Nat /\ Cardinality(P(b)) \in Nat BY <1>1
  <2> HIDE DEF P
  <2> QED BY <2>2, <2>3, <2>4
<1>4. ASSUME NEW a \in S, NEW b \in S, Cardinality(P(a)) = Cardinality(P(b)) PROVE a = b
  <2>1. ~(key[a] < key[b]) /\ ~(key[b] < key[a])
    <3> HIDE DEF P
    <3> QED BY <1>1, <1>3, <1>4
  <2> QED BY <2>1
<1> DEFINE f == [m \in S |-> Cardinality(P(m)) + 1]
<1>5. f \in Surjection(S, 1..N)
  <2> HIDE DEF P, N
  <2>1. \A m \in S : Cardinality(P(m)) + 1 \in 1..N BY <1>0, <1>2
  <2>2. f \in [S -> 1..N] BY <2>1
  <2>3. \A a, b \in S : f[a] = f[b] => a = b BY <1>1, <1>4
  <2>4. f \in Injection(S, 1..N) BY <2>2, <2>3 DEF Injection, IsInjective
  <2>5. IsFiniteSet(1..N) /\ Cardinality(1..N) = N BY <1>0, FS_Interval
  <2>6. Cardinality(S) = Cardinality(1..N) BY <2>5 DEF N
  <2> HIDE DEF f
  <2> QED BY <2>4, <2>5, <2>6, FS_Injection
<1>6. ASSUME NEW i \in 1..N PROVE \E m \in S : Cardinality(P(m)) = i - 1
  <2>1. PICK m \in S : f[m] = i BY <1>5, <1>6 DEF Surjection
  <2>2. f[m] = Cardinality(P(m)) + 1 OBVIOUS
  <2>3. Cardinality(P(m)) \in Nat BY <1>1
  <2> HIDE DEF f, P
  <2> QED BY <2>1, <2>2, <2>3
<1> QED BY <1>2, <1>4, <1>6 DEF Rank

\* A sequence of S whose i-th has rank i - 1.
Lists(q, S, rank) ==
  /\ q \in [1..Cardinality(S) -> S]
  /\ \A i \in 1..Cardinality(S) : rank[q[i]] = i - 1
  /\ \A m \in S : rank[m] + 1 \in 1..Cardinality(S) /\ q[rank[m] + 1] = m

LEMMA ListOf ==
  ASSUME NEW S, IsFiniteSet(S), NEW key \in [S -> Int],
         \A a, b \in S : key[a] = key[b] => a = b,
         NEW rank, \A m \in S : rank[m] = Rank(S, key, m),
         NEW q, q = [i \in 1..Cardinality(S) |-> q[i]],
         \A i \in 1..Cardinality(S) : (\E m \in S : rank[m] = i - 1) => q[i] \in S /\ rank[q[i]] = i - 1
  PROVE  Lists(q, S, rank)
<1> DEFINE N == Cardinality(S)
<1>0. N \in Nat BY FS_CardinalityType
<1>1. /\ \A m \in S : rank[m] \in 0..(N - 1)
      /\ \A a, b \in S : rank[a] = rank[b] => a = b
      /\ \A i \in 1..N : \E m \in S : rank[m] = i - 1
  BY RankIs
<1> HIDE DEF N
<1>2. ASSUME NEW i \in 1..N PROVE q[i] \in S /\ rank[q[i]] = i - 1
  BY <1>1 DEF N
<1>3. q \in [1..N -> S] BY <1>2 DEF N
<1>4. ASSUME NEW m \in S PROVE rank[m] + 1 \in 1..N /\ q[rank[m] + 1] = m
  <2>1. rank[m] + 1 \in 1..N /\ (rank[m] + 1) - 1 = rank[m] BY <1>0, <1>1
  <2>2. q[rank[m] + 1] \in S /\ rank[q[rank[m] + 1]] = rank[m] BY <1>2, <2>1
  <2> QED BY <1>1, <2>1, <2>2
<1> QED BY <1>2, <1>3, <1>4 DEF Lists, N

LEMMA MsgsFinite ==
  ASSUME NEW S, S \subseteq Msgs
  PROVE  IsFiniteSet(S) /\ Cardinality(S) \in 0..MaxMsgs /\ S \subseteq Nat
<1>1. IsFiniteSet(Msgs) /\ Cardinality(Msgs) = MaxMsgs
  BY BoundsAssumption, FS_Interval DEF Msgs
<1>2. IsFiniteSet(S) /\ Cardinality(S) <= MaxMsgs BY <1>1, FS_Subset
<1> QED BY <1>2, FS_CardinalityType, BoundsAssumption DEF Msgs

Older(S, m) == Cardinality({n \in S : n < m})
Newer(S, m) == Cardinality({n \in S : n > m})
Later(S, m) == Cardinality({n \in S : ReceivedAt(n) > ReceivedAt(m)})
NoEarlier(S, m) == Cardinality({n \in S : ReceivedAt(n) >= ReceivedAt(m)})
NoTie(S) == \A m, n \in S : ReceivedAt(m) = ReceivedAt(n) => m = n

LEMMA OldestFirstIs ==
  ASSUME NEW S, S \subseteq Msgs
  PROVE  Lists(OldestFirst(S), S, [m \in S |-> Older(S, m)])
<1> DEFINE key == [m \in S |-> m]
           rank == [m \in S |-> Older(S, m)]
<1>1. IsFiniteSet(S) /\ S \subseteq Nat BY MsgsFinite
<1>2. key \in [S -> Int] /\ \A a, b \in S : key[a] = key[b] => a = b BY <1>1
<1>3. ASSUME NEW m \in S PROVE Older(S, m) = Rank(S, key, m)
  <2>1. {n \in S : n < m} = {n \in S : key[n] < key[m]} OBVIOUS
  <2> QED BY <2>1 DEF Older, Rank
<1>4. \A m \in S : rank[m] = Rank(S, key, m) BY <1>3
<1> DEFINE q == OldestFirst(S)
<1>5. q = [i \in 1..Cardinality(S) |-> CHOOSE m \in S : Cardinality({n \in S : n < m}) = i - 1]
  BY DEF OldestFirst
<1> HIDE DEF q
<1>6. ASSUME NEW i \in 1..Cardinality(S), \E m \in S : rank[m] = i - 1
      PROVE  q[i] \in S /\ rank[q[i]] = i - 1
  <2>1. q[i] = CHOOSE m \in S : Cardinality({n \in S : n < m}) = i - 1 BY <1>5
  <2>2. \E m \in S : Cardinality({n \in S : n < m}) = i - 1 BY <1>6 DEF Older
  <2>3. q[i] \in S /\ Cardinality({n \in S : n < q[i]}) = i - 1 BY <2>1, <2>2
  <2> QED BY <2>3 DEF Older
<1>7. q = [i \in 1..Cardinality(S) |-> q[i]]
  <2> DEFINE ith(i) == CHOOSE m \in S : Cardinality({n \in S : n < m}) = i - 1
  <2>1. q = [i \in 1..Cardinality(S) |-> ith(i)] BY <1>5
  <2> HIDE DEF ith
  <2> QED BY <2>1
<1> HIDE DEF key, rank
<1>8. Lists(q, S, rank) BY <1>1, <1>2, <1>4, <1>6, <1>7, ListOf
<1> QED BY <1>8 DEF rank, q

\* By receivedAt, whichever way messages of the same time fall.
LEMMA NewestFirstIs ==
  ASSUME NEW S, S \subseteq Msgs, NEW swap \in BOOLEAN, tie \in Nat
  PROVE  \E rank : /\ Lists(NewestFirst(S, swap), S, rank)
                   /\ \A m \in S : /\ rank[m] \in Nat
                                   /\ Later(S, m) <= rank[m] /\ rank[m] < NoEarlier(S, m)
                                   /\ NoTie(S) => rank[m] = Newer(S, m)
<1> DEFINE other(m) == IF swap /\ tie > 0 /\ m = tie THEN tie + 1
                       ELSE IF swap /\ tie > 0 /\ m = tie + 1 THEN tie ELSE m
           key == [m \in S |-> - other(m)]
           before(a, b) == \/ ReceivedAt(a) > ReceivedAt(b)
                           \/ ReceivedAt(a) = ReceivedAt(b) /\ IF swap THEN a < b ELSE a > b
           first(m) == {n \in S : before(n, m)}
           rank == [m \in S |-> Cardinality(first(m))]
<1>1. IsFiniteSet(S) /\ S \subseteq Nat BY MsgsFinite
<1>2. key \in [S -> Int] /\ \A a, b \in S : key[a] = key[b] => a = b
  <2>1. \A a \in S : key[a] = - other(a) /\ other(a) \in Int BY <1>1
  <2>2. \A a, b \in S : other(a) = other(b) => a = b BY <1>1
  <2> HIDE DEF other
  <2> QED BY <2>1, <2>2
<1>3. ASSUME NEW m \in S PROVE Cardinality(first(m)) = Rank(S, key, m)
  <2>1. ASSUME NEW n \in S PROVE before(n, m) <=> key[n] < key[m]
    <3>1. m \in Nat /\ n \in Nat BY <1>1
    <3>2. key[n] = - other(n) /\ key[m] = - other(m) OBVIOUS
    <3> HIDE DEF key
    <3> QED BY <3>1, <3>2 DEF ReceivedAt
  <2> HIDE DEF before
  <2>2. first(m) = {n \in S : key[n] < key[m]} BY <2>1
  <2> QED BY <2>2 DEF Rank
<1>4. \A m \in S : rank[m] = Rank(S, key, m) BY <1>3
<1> DEFINE q == NewestFirst(S, swap)
<1>5. q = [i \in 1..Cardinality(S) |-> CHOOSE m \in S : Cardinality(first(m)) = i - 1]
  BY DEF NewestFirst
<1>6. ASSUME NEW m \in S
      PROVE  /\ rank[m] \in Nat /\ Later(S, m) <= rank[m] /\ rank[m] < NoEarlier(S, m)
             /\ NoTie(S) => rank[m] = Newer(S, m)
  <2> DEFINE L == {n \in S : ReceivedAt(n) > ReceivedAt(m)}
             E == {n \in S : ReceivedAt(n) >= ReceivedAt(m)}
             F == first(m)
  <2>1. \A n \in S : ReceivedAt(n) \in Nat BY <1>1 DEF ReceivedAt
  <2>2. L \subseteq F /\ F \cup {m} \subseteq E /\ m \notin F
    <3>1. \A n \in S : /\ ReceivedAt(n) > ReceivedAt(m) => before(n, m)
                       /\ before(n, m) => ReceivedAt(n) >= ReceivedAt(m)
      BY <2>1
    <3>2. ~before(m, m) /\ ReceivedAt(m) >= ReceivedAt(m) BY <1>1, <2>1
    <3> HIDE DEF before
    <3> QED BY <3>1, <3>2
  <2>3. ASSUME NoTie(S) PROVE F = {n \in S : n > m}
    <3>1. ASSUME NEW n \in S PROVE before(n, m) <=> n > m
      <4>1. n \in Nat /\ m \in Nat BY <1>1
      <4>2. ReceivedAt(n) = ReceivedAt(m) => n = m BY <2>3 DEF NoTie
      <4> QED BY <4>1, <4>2 DEF ReceivedAt
    <3> HIDE DEF before
    <3> QED BY <3>1
  <2>4. IsFiniteSet(F) /\ IsFiniteSet(E)
    <3>1. F \subseteq S /\ E \subseteq S OBVIOUS
    <3> HIDE DEF F, E
    <3> QED BY <1>1, <3>1, FS_Subset
  <2>5. rank[m] = Cardinality(F) OBVIOUS
  <2> HIDE DEF F, E, L, rank
  <2>6. Cardinality(L) <= Cardinality(F) BY <2>2, <2>4, FS_Subset
  <2>7. /\ Cardinality(F \cup {m}) = Cardinality(F) + 1 /\ Cardinality(F) \in Nat
        /\ Cardinality(E) \in Nat
    BY <2>2, <2>4, FS_AddElement, FS_CardinalityType
  <2>8. Cardinality(F) + 1 <= Cardinality(E)
    <3>1. Cardinality(F \cup {m}) <= Cardinality(E) BY <2>2, <2>4, FS_Subset
    <3> QED BY <2>7, <3>1
  <2>9. Later(S, m) = Cardinality(L) /\ NoEarlier(S, m) = Cardinality(E)
    BY DEF Later, NoEarlier, L, E
  <2>10. NoTie(S) => rank[m] = Newer(S, m) BY <2>3, <2>5 DEF Newer
  <2> QED BY <2>5, <2>6, <2>7, <2>8, <2>9, <2>10
<1> HIDE DEF q
<1>7. ASSUME NEW i \in 1..Cardinality(S), \E m \in S : rank[m] = i - 1
      PROVE  q[i] \in S /\ rank[q[i]] = i - 1
  <2> HIDE DEF first
  <2>1. q[i] = CHOOSE m \in S : Cardinality(first(m)) = i - 1 BY <1>5
  <2>2. \E m \in S : Cardinality(first(m)) = i - 1 BY <1>7
  <2>3. q[i] \in S /\ Cardinality(first(q[i])) = i - 1 BY <2>1, <2>2
  <2> QED BY <2>3
<1>8. q = [i \in 1..Cardinality(S) |-> q[i]]
  <2> DEFINE ith(i) == CHOOSE m \in S : Cardinality(first(m)) = i - 1
  <2>1. q = [i \in 1..Cardinality(S) |-> ith(i)] BY <1>5
  <2> HIDE DEF ith
  <2> QED BY <2>1
<1> HIDE DEF key, rank
<1>9. Lists(q, S, rank) BY <1>1, <1>2, <1>4, <1>7, <1>8, ListOf
<1> QED BY <1>6, <1>9 DEF q

\* A message's place from one end gives its place from the other.
LEMMA Places ==
  ASSUME NEW S, S \subseteq Msgs, NEW m \in S
  PROVE  /\ Older(S, m) \in Nat /\ Newer(S, m) \in Nat /\ Cardinality(S) \in Nat
         /\ Older(S, m) + Newer(S, m) + 1 = Cardinality(S)
<1> DEFINE A == {n \in S : n < m}
           B == {n \in S : n > m}
<1>1. IsFiniteSet(S) /\ S \subseteq Nat BY MsgsFinite
<1>2. IsFiniteSet(A) /\ IsFiniteSet(B) /\ S = (A \cup B) \cup {m} /\ A \cap B = {}
      /\ m \notin A \cup B
  <2>1. A \subseteq S /\ B \subseteq S OBVIOUS
  <2>2. S = (A \cup B) \cup {m} /\ A \cap B = {} /\ m \notin A \cup B
    <3>1. \A n \in S : /\ n < m \/ n > m \/ n = m
                       /\ ~(n < m /\ n > m) /\ ~(m < m) /\ ~(m > m)
      BY <1>1
    <3> QED BY <3>1
  <2> HIDE DEF A, B
  <2> QED BY <1>1, <2>1, <2>2, FS_Subset
<1> HIDE DEF A, B
<1>3. /\ Cardinality(A) \in Nat /\ Cardinality(B) \in Nat /\ Cardinality(S) \in Nat
      /\ IsFiniteSet(A \cup B)
      /\ Cardinality(A \cup B) = Cardinality(A) + Cardinality(B) - Cardinality({})
  BY <1>1, <1>2, FS_CardinalityType, FS_Union
<1>4. Cardinality({}) = 0 BY FS_EmptySet
<1>5. Cardinality(S) = Cardinality(A \cup B) + 1
  <2>1. Cardinality((A \cup B) \cup {m}) = Cardinality(A \cup B) + 1
    BY <1>2, <1>3, FS_AddElement
  <2> QED BY <1>2, <2>1
<1>6. Older(S, m) = Cardinality(A) /\ Newer(S, m) = Cardinality(B) BY DEF Older, Newer, A, B
<1> QED BY <1>3, <1>4, <1>5, <1>6

\* Mail that arrives adds to what is newer and leaves what is older.
LEMMA PlacesGrow ==
  ASSUME NEW S, S \subseteq Msgs, NEW x \in Msgs, \A n \in S : n < x, NEW m \in S
  PROVE  /\ Older(S \cup {x}, m) = Older(S, m) /\ Newer(S \cup {x}, m) >= Newer(S, m)
         /\ Newer(S \cup {x}, m) \in Nat
         /\ Cardinality(S \cup {x}) = Cardinality(S) + 1
<1> DEFINE T == S \cup {x}
<1>1. IsFiniteSet(S) /\ S \subseteq Nat /\ T \subseteq Msgs BY MsgsFinite
<1>2. {n \in T : n < m} = {n \in S : n < m} BY <1>1 DEF Msgs
<1>3. Older(T, m) = Older(S, m) BY <1>2 DEF Older
<1>4. Cardinality(T) = Cardinality(S) + 1
  <2>1. x \notin S BY <1>1
  <2> QED BY <1>1, <2>1, FS_AddElement
<1> HIDE DEF T
<1>5. m \in T BY DEF T
<1>6. Older(S, m) + Newer(S, m) + 1 = Cardinality(S) /\ Older(S, m) \in Nat /\ Newer(S, m) \in Nat
  BY Places
<1>7. Older(T, m) + Newer(T, m) + 1 = Cardinality(T) /\ Newer(T, m) \in Nat
  BY <1>1, <1>5, Places
<1>8. Newer(T, m) = Newer(S, m) + 1 BY <1>3, <1>4, <1>6, <1>7
<1> QED BY <1>3, <1>4, <1>6, <1>7, <1>8 DEF T

-----------------------------------------------------------------------------
(* The shape of a walk *)

Sessions == {"imap", "pop3"}
Queries == {"graph", "db"}

WalkType ==
  [pc : {"idle", "open", "fetch", "query", "answered", "failed"}, method : Methods \cup {"none"},
   limit : 1..MaxLimit, page : Nat \ {0}, total : 0..MaxMsgs, view : Seq(Msgs), at : Nat \ {0},
   to : 0..MaxMsgs, todo : SUBSET {"count", "page"}, emails : Seq(Msgs), more : BOOLEAN]

HistType ==
  [start : SUBSET Msgs, seen : [Msgs -> Nat], before : SUBSET Msgs, skipped : SUBSET Msgs,
   removed : BOOLEAN, grew : BOOLEAN, skew : BOOLEAN]

\* What a walk has at each point of a page.
WalkOK(w) ==
  /\ w.to <= w.total
  /\ w.pc # "idle" => w.method \in Methods
  /\ w.pc \in {"open", "fetch"} => w.method \in Sessions
  /\ w.pc = "query" => w.method \in Queries /\ w.to = 0
  /\ w.pc = "fetch" => Len(w.view) = w.total /\ w.total > 0

Types ==
  /\ last \in 0..MaxMsgs /\ box \subseteq 1..last /\ tie \in 0..MaxMsgs
  /\ walk \in WalkType /\ WalkOK(walk)
  /\ hist \in HistType

LEMMA MaxOf ==
  ASSUME NEW a \in Int, NEW b \in Int
  PROVE  /\ Max({a, b}) = IF a >= b THEN a ELSE b
         /\ Min({a, b}) = IF a <= b THEN a ELSE b
<1>1. \E x \in {a, b} : \A y \in {a, b} : x >= y OBVIOUS
<1>2. \E x \in {a, b} : \A y \in {a, b} : x <= y OBVIOUS
<1>3. Max({a, b}) \in {a, b} /\ \A y \in {a, b} : Max({a, b}) >= y BY <1>1 DEF Max
<1>4. Min({a, b}) \in {a, b} /\ \A y \in {a, b} : Min({a, b}) <= y BY <1>2 DEF Min
<1> QED BY <1>3, <1>4

\* How far the walk has come when it asks for a page.
LEMMA SkipIs ==
  ASSUME NEW w \in WalkType
  PROVE  /\ Skip(w) \in Nat /\ w.limit \in Nat \ {0}
         /\ w.page = 1 => Skip(w) = 0
         /\ \A v \in WalkType : /\ v.page = w.page /\ v.limit = w.limit => Skip(v) = Skip(w)
                                /\ v.page = w.page + 1 /\ v.limit = w.limit =>
                                     Skip(v) = Skip(w) + w.limit
<1>1. w.page \in Nat \ {0} /\ w.limit \in Nat \ {0} BY BoundsAssumption DEF WalkType
<1>2. \A x, y \in Nat : x * y \in Nat /\ (x + 1) * y = x * y + y /\ 0 * y = 0 OBVIOUS
<1>3. Skip(w) = (w.page - 1) * w.limit /\ w.page - 1 \in Nat BY <1>1 DEF Skip
<1>4. Skip(w) \in Nat /\ (w.page = 1 => Skip(w) = 0) BY <1>1, <1>2, <1>3
<1>5. ASSUME NEW v \in WalkType, v.page = w.page, v.limit = w.limit PROVE Skip(v) = Skip(w)
  BY <1>5 DEF Skip
<1>6. ASSUME NEW v \in WalkType, v.page = w.page + 1, v.limit = w.limit
      PROVE  Skip(v) = Skip(w) + w.limit
  <2>1. Skip(v) = ((w.page - 1) + 1) * w.limit
    <3>1. v.page - 1 = (w.page - 1) + 1 BY <1>1, <1>6
    <3> QED BY <1>6, <3>1 DEF Skip
  <2> QED BY <1>1, <1>2, <1>3, <2>1
<1> QED BY <1>1, <1>4, <1>5, <1>6

LEMMA IdleIs ==
  /\ Idle \in WalkType /\ WalkOK(Idle) /\ Idle.pc = "idle" /\ Idle.page = 1 /\ Idle.total = 0
  /\ Idle.view = <<>> /\ Idle.at = 1 /\ Idle.to = 0 /\ Idle.todo = {} /\ Idle.emails = <<>>
<1> DEFINE no == FALSE
<1>1. Idle = [pc |-> "idle", method |-> "none", limit |-> 1, page |-> 1, total |-> 0,
              view |-> <<>>, at |-> 1, to |-> 0, todo |-> {}, emails |-> <<>>, more |-> no]
  BY DEF Idle
<1>2. no \in BOOLEAN /\ <<>> \in Seq(Msgs) /\ 1 \in 1..MaxLimit /\ 0 \in 0..MaxMsgs
      /\ 1 \in Nat \ {0} /\ {} \in SUBSET {"count", "page"}
  BY BoundsAssumption
<1> HIDE DEF no
<1>3. Idle \in WalkType BY <1>1, <1>2 DEF WalkType
<1>4. /\ Idle.pc = "idle" /\ Idle.page = 1 /\ Idle.total = 0
      /\ Idle.view = <<>> /\ Idle.at = 1 /\ Idle.to = 0 /\ Idle.todo = {} /\ Idle.emails = <<>>
  BY <1>1
<1> QED BY <1>3, <1>4 DEF WalkOK

\* The walk when it asks for a page.
Asks(a, method, limit, page) ==
  /\ a \in WalkType /\ WalkOK(a) /\ a.method = method /\ a.limit = limit /\ a.page = page
  /\ a.total = 0 /\ a.emails = <<>> /\ a.pc \in {"open", "query"}
  /\ method \in Sessions => a.pc = "open" /\ a.todo = {}
  /\ method \in Queries => a.pc = "query" /\ a.todo = {"count", "page"}

LEMMA AskIs ==
  ASSUME NEW w, w.method \in Methods, w.limit \in 1..MaxLimit, NEW page \in Nat \ {0}
  PROVE  Asks(Ask(w, page), w.method, w.limit, page)
<1> DEFINE session == w.method \in Sessions
           pc == IF session THEN "open" ELSE "query"
           todo == IF session THEN {} ELSE {"count", "page"}
           a == [Idle EXCEPT !.method = w.method, !.limit = w.limit, !.page = page,
                             !.pc = pc, !.todo = todo]
<1>1. Ask(w, page) = a BY DEF Ask, Sessions
<1>2. /\ pc \in {"open", "query"} /\ todo \in SUBSET {"count", "page"}
      /\ session => pc = "open" /\ todo = {}
      /\ ~session => pc = "query" /\ todo = {"count", "page"}
  OBVIOUS
<1>3. w.method \in Sessions \cup Queries BY MethodsAssumption DEF AllMethods, Sessions, Queries
<1> HIDE DEF pc, todo
<1>4. a \in WalkType BY <1>2, IdleIs DEF WalkType
<1>5. /\ a.method = w.method /\ a.limit = w.limit /\ a.page = page /\ a.pc = pc
      /\ a.todo = todo /\ a.total = Idle.total /\ a.emails = Idle.emails /\ a.to = Idle.to
  BY IdleIs DEF WalkType
<1> HIDE DEF a
<1>6. session <=> w.method \notin Queries BY <1>3 DEF Sessions, Queries
<1>7. WalkOK(a) BY <1>2, <1>3, <1>5, <1>6, IdleIs DEF WalkOK
<1>8. Asks(a, w.method, w.limit, page) BY <1>2, <1>4, <1>5, <1>6, <1>7, IdleIs DEF Asks
<1> QED BY <1>1, <1>8

LEMMA NoHistoryIs ==
  /\ NoHistory \in HistType /\ NoHistory.start = {} /\ NoHistory.before = {}
  /\ NoHistory.skipped = {} /\ ~NoHistory.removed /\ ~NoHistory.grew /\ ~NoHistory.skew
  /\ \A m \in Msgs : NoHistory.seen[m] = 0
<1> DEFINE no == FALSE
           none == [m \in Msgs |-> 0]
<1>1. NoHistory = [start |-> {}, seen |-> none, before |-> {}, skipped |-> {},
                   removed |-> no, grew |-> no, skew |-> no]
  BY DEF NoHistory
<1>2. no \in BOOLEAN /\ ~no /\ none \in [Msgs -> Nat] /\ \A m \in Msgs : none[m] = 0 OBVIOUS
<1> HIDE DEF no, none
<1> QED BY <1>1, <1>2 DEF HistType

LEMMA SpoiltIs == Spoilt \in HistType /\ Spoilt.removed
<1> DEFINE yes == TRUE
<1>1. Spoilt = [NoHistory EXCEPT !.removed = yes] BY DEF Spoilt
<1>2. yes \in BOOLEAN /\ yes OBVIOUS
<1> HIDE DEF yes
<1> QED BY <1>1, <1>2, NoHistoryIs DEF HistType

\* What is recorded, unless something was removed.
LEMMA RecordIs ==
  ASSUME Types, NEW h \in HistType, Record(h)
  PROVE  /\ hist' \in HistType /\ (hist.removed => hist'.removed)
         /\ ~hist.removed => hist' = h
BY SpoiltIs DEF Record

-----------------------------------------------------------------------------
(* What each action does to a walk *)

\* The page of a session whose mailbox has total messages.
LEMMA RangeIs ==
  ASSUME NEW w \in WalkType, NEW total \in 1..MaxMsgs
  PROVE  LET r == PageRange(w, total)
             s == Skip(w)
             l == w.limit
         IN /\ r.at \in Nat \ {0} /\ r.to \in 1..total
            /\ w.method = "imap" => /\ r.at = IF total - s - l + 1 > 1 THEN total - s - l + 1 ELSE 1
                                    /\ r.to = IF total - s > 1 THEN total - s ELSE 1
            /\ w.method # "imap" => /\ r.at = s + 1
                                    /\ r.to = IF s + l < total THEN s + l ELSE total
<1> DEFINE s == Skip(w)
           l == w.limit
<1>1. s \in Nat /\ l \in Nat \ {0} /\ total \in Nat \ {0} BY SkipIs
<1>2. /\ PageRange(w, total).at = IF w.method = "imap" THEN Max({1, total - s - l + 1}) ELSE s + 1
      /\ PageRange(w, total).to = IF w.method = "imap" THEN Max({1, total - s})
                                                       ELSE Min({s + l, total})
  BY DEF PageRange
<1> HIDE DEF s, l
<1>3. /\ Max({1, total - s - l + 1}) = IF 1 >= total - s - l + 1 THEN 1 ELSE total - s - l + 1
      /\ Max({1, total - s}) = IF 1 >= total - s THEN 1 ELSE total - s
      /\ Min({s + l, total}) = IF s + l <= total THEN s + l ELSE total
  BY <1>1, MaxOf
<1>4. PageRange(w, total).at = IF w.method = "imap" THEN IF total - s - l + 1 > 1 THEN total - s - l + 1 ELSE 1
                                                    ELSE s + 1
  BY <1>1, <1>2, <1>3
<1>5. PageRange(w, total).to = IF w.method = "imap" THEN IF total - s > 1 THEN total - s ELSE 1
                               ELSE IF s + l < total THEN s + l ELSE total
  BY <1>1, <1>2, <1>3
<1>6. PageRange(w, total).at \in Nat \ {0} /\ PageRange(w, total).to \in 1..total
  BY <1>1, <1>4, <1>5
<1> QED BY <1>4, <1>5, <1>6 DEF s, l

\* v is at the same page as w.
SamePage(v, w) == v.method = w.method /\ v.limit = w.limit /\ v.page = w.page

LEMMA BoxIs ==
  ASSUME Types
  PROVE  /\ box \subseteq Msgs /\ IsFiniteSet(box) /\ Cardinality(box) \in 0..MaxMsgs
         /\ tie \in Nat /\ walk \in WalkType /\ hist \in HistType
<1>1. box \subseteq Msgs BY BoundsAssumption DEF Types, Msgs
<1>2. IsFiniteSet(box) /\ Cardinality(box) \in 0..MaxMsgs BY <1>1, MsgsFinite
<1>3. tie \in Nat /\ walk \in WalkType /\ hist \in HistType BY BoundsAssumption DEF Types
<1> QED BY <1>1, <1>2, <1>3

LEMMA FirstPageIs ==
  ASSUME Types, FirstPage
  PROVE  /\ Types' /\ UNCHANGED <<box, last, tie>>
         /\ \E m \in Methods, n \in 1..MaxLimit : Asks(walk', m, n, 1)
         /\ hist'.start = box /\ hist'.before = {} /\ hist'.skipped = {}
         /\ ~hist'.removed /\ ~hist'.grew /\ ~hist'.skew
         /\ \A m \in Msgs : hist'.seen[m] = 0
<1>1. PICK m \in Methods, n \in 1..MaxLimit :
        walk' = Ask([Idle EXCEPT !.method = m, !.limit = n], 1)
  BY DEF FirstPage
<1> DEFINE w == [Idle EXCEPT !.method = m, !.limit = n]
<1>2. w.method = m /\ w.limit = n BY IdleIs DEF WalkType
<1> HIDE DEF w
<1>3. Asks(walk', m, n, 1)
  <2>1. 1 \in Nat \ {0} OBVIOUS
  <2>2. Asks(Ask(w, 1), w.method, w.limit, 1) BY <1>2, <2>1, AskIs
  <2> QED BY <1>1, <1>2, <2>2 DEF w
<1>4. hist' = [NoHistory EXCEPT !.start = box] BY DEF FirstPage
<1>5. /\ hist' \in HistType /\ hist'.start = box /\ hist'.before = NoHistory.before
      /\ hist'.skipped = NoHistory.skipped /\ hist'.removed = NoHistory.removed
      /\ hist'.grew = NoHistory.grew /\ hist'.skew = NoHistory.skew
      /\ hist'.seen = NoHistory.seen
  BY <1>4, NoHistoryIs, BoxIs DEF HistType
<1>6. UNCHANGED <<box, last, tie>> BY DEF FirstPage
<1>7. Types' BY <1>3, <1>5, <1>6 DEF Types, Asks
<1> QED BY <1>3, <1>5, <1>6, <1>7, NoHistoryIs

\* The answer of a page.
Answers(v, w, more) ==
  /\ SamePage(v, w) /\ v.pc = "answered" /\ v.more = more /\ v.emails = w.emails
  /\ v.total = w.total

LEMMA AnswerIs ==
  ASSUME NEW w \in WalkType, WalkOK(w), w.pc # "idle", NEW more \in BOOLEAN
  PROVE  Answer(w, more) \in WalkType /\ WalkOK(Answer(w, more)) /\ Answers(Answer(w, more), w, more)
<1> DEFINE v == Answer(w, more)
<1>1. v \in WalkType BY DEF Answer, WalkType
<1>2. /\ SamePage(v, w) /\ v.pc = "answered" /\ v.more = more /\ v.emails = w.emails
      /\ v.to = w.to /\ v.total = w.total
  BY DEF Answer, WalkType, SamePage
<1> HIDE DEF v
<1>3. WalkOK(v) BY <1>2 DEF WalkOK, SamePage
<1> QED BY <1>1, <1>2, <1>3 DEF Answers, v

LEMMA OpenIs ==
  ASSUME Types, Open
  PROVE  /\ Types' /\ UNCHANGED <<box, last, tie, hist>> /\ walk.pc = "open"
         /\ SamePage(walk', walk) /\ walk'.emails = walk.emails
         /\ \/ Cardinality(box) = 0 /\ walk'.pc = "answered" /\ ~walk'.more
            \/ LET r == PageRange(walk, Cardinality(box)) IN
               /\ walk'.pc = "fetch" /\ Cardinality(box) > 0 /\ walk'.total = Cardinality(box)
               /\ walk'.view = OldestFirst(box) /\ walk'.at = r.at /\ walk'.to = r.to
<1> DEFINE total == Cardinality(box)
           r == PageRange(walk, total)
           q == OldestFirst(box)
<1>1. walk.pc = "open" /\ UNCHANGED <<box, last, tie, hist>> BY DEF Open
<1>2. walk \in WalkType /\ WalkOK(walk) /\ total \in 0..MaxMsgs /\ box \subseteq Msgs
  BY BoxIs DEF Types
<1>3. CASE total = 0
  <2>1. walk' = Answer(walk, FALSE) BY <1>3 DEF Open
  <2>2. walk' \in WalkType /\ WalkOK(walk') /\ Answers(walk', walk, FALSE)
    BY <1>1, <1>2, <2>1, AnswerIs
  <2>3. Types' BY <1>1, <2>2 DEF Types
  <2> QED BY <1>1, <1>3, <2>2, <2>3 DEF Answers
<1>4. CASE total # 0
  <2>1. walk' = [walk EXCEPT !.pc = "fetch", !.total = total, !.view = q, !.at = r.at, !.to = r.to]
    BY <1>4 DEF Open
  <2>2. total \in 1..MaxMsgs BY <1>2, <1>4
  <2>3. r.at \in Nat \ {0} /\ r.to \in 1..total BY <1>2, <2>2, RangeIs
  <2>4. q \in Seq(Msgs) /\ Len(q) = total
    <3>1. q \in [1..total -> box] BY <1>2, OldestFirstIs DEF Lists
    <3>2. total \in Nat BY <1>2
    <3> HIDE DEF q, total
    <3> QED BY <1>2, <3>1, <3>2
  <2> HIDE DEF total, r, q
  <2>5. /\ walk' \in WalkType /\ SamePage(walk', walk) /\ walk'.emails = walk.emails
        /\ walk'.pc = "fetch" /\ walk'.total = total /\ walk'.view = q /\ walk'.at = r.at
        /\ walk'.to = r.to
    <3>1. r.to \in 0..MaxMsgs BY <2>2, <2>3, BoundsAssumption
    <3> QED BY <1>2, <2>1, <2>2, <2>3, <2>4, <3>1 DEF WalkType, SamePage
  <2>6. WalkOK(walk') BY <1>1, <1>2, <2>2, <2>3, <2>4, <2>5 DEF WalkOK, SamePage
  <2>7. Types' BY <1>1, <2>5, <2>6 DEF Types
  <2> QED BY <1>1, <2>2, <2>5, <2>7 DEF total, r, q
<1> QED BY <1>3, <1>4

LEMMA RetrieveIs ==
  ASSUME Types, Retrieve
  PROVE  /\ Types' /\ UNCHANGED <<box, last, tie, hist>> /\ SamePage(walk', walk)
         /\ walk.pc = "fetch" /\ walk'.pc = "fetch" /\ walk.at <= walk.to /\ walk'.at = walk.at + 1
         /\ walk'.emails = Append(walk.emails, walk.view[walk.at]) /\ walk'.view = walk.view
         /\ walk'.total = walk.total /\ walk'.to = walk.to
<1> DEFINE e == Append(walk.emails, walk.view[walk.at])
<1>1. /\ walk' = [walk EXCEPT !.at = walk.at + 1, !.emails = e]
      /\ walk.pc = "fetch" /\ walk.at <= walk.to /\ UNCHANGED <<box, last, tie, hist>>
  BY DEF Retrieve
<1>2. walk \in WalkType /\ WalkOK(walk) BY DEF Types
<1>3. walk.view[walk.at] \in Msgs
  <2>1. walk.at \in 1..Len(walk.view) BY <1>1, <1>2 DEF WalkType, WalkOK
  <2> QED BY <1>2, <2>1 DEF WalkType
<1>4. e \in Seq(Msgs) BY <1>2, <1>3 DEF WalkType
<1> HIDE DEF e
<1> DEFINE next == walk.at + 1
<1>9. next \in Nat \ {0} BY <1>2 DEF WalkType
<1> HIDE DEF next
<1>10. walk' = [walk EXCEPT !.at = next, !.emails = e] BY <1>1 DEF next
<1>5. /\ walk' \in WalkType /\ SamePage(walk', walk) /\ walk'.pc = walk.pc
      /\ walk'.at = next /\ walk'.emails = e /\ walk'.view = walk.view
      /\ walk'.total = walk.total /\ walk'.to = walk.to
  BY <1>2, <1>4, <1>9, <1>10 DEF WalkType, SamePage
<1>6. WalkOK(walk') BY <1>2, <1>5 DEF WalkOK, SamePage
<1>7. Types' BY <1>1, <1>5, <1>6 DEF Types
<1> QED BY <1>1, <1>5, <1>7 DEF e, next

LEMMA RetrieveFailsIs ==
  ASSUME Types, RetrieveFails
  PROVE  /\ Types' /\ UNCHANGED <<box, last, tie>> /\ SamePage(walk', walk)
         /\ walk.pc = "fetch" /\ walk'.pc = "fetch" /\ walk.at <= walk.to /\ walk'.at = walk.at + 1
         /\ walk'.emails = walk.emails /\ walk'.view = walk.view
         /\ walk'.total = walk.total /\ walk'.to = walk.to
         /\ hist.removed => hist'.removed
         /\ ~hist.removed => /\ hist'.skipped = hist.skipped \cup {walk.view[walk.at]}
                             /\ hist'.start = hist.start /\ hist'.seen = hist.seen
                             /\ hist'.before = hist.before /\ hist'.grew = hist.grew
                             /\ hist'.skew = hist.skew /\ hist'.removed = hist.removed
<1> DEFINE x == walk.view[walk.at]
           h == [hist EXCEPT !.skipped = @ \cup {x}]
<1>1. /\ walk' = [walk EXCEPT !.at = walk.at + 1] /\ Record(h)
      /\ walk.pc = "fetch" /\ walk.at <= walk.to /\ UNCHANGED <<box, last, tie>>
  BY DEF RetrieveFails
<1>2. walk \in WalkType /\ WalkOK(walk) /\ hist \in HistType BY DEF Types
<1>3. x \in Msgs
  <2>1. walk.at \in 1..Len(walk.view) BY <1>1, <1>2 DEF WalkType, WalkOK
  <2> QED BY <1>2, <2>1 DEF WalkType
<1> HIDE DEF x
<1>4. /\ h \in HistType /\ h.skipped = hist.skipped \cup {x} /\ h.start = hist.start
      /\ h.seen = hist.seen /\ h.before = hist.before /\ h.grew = hist.grew
      /\ h.skew = hist.skew /\ h.removed = hist.removed
  BY <1>2, <1>3 DEF HistType
<1> HIDE DEF h
<1>5. hist' \in HistType /\ (hist.removed => hist'.removed) /\ (~hist.removed => hist' = h)
  BY <1>1, <1>4, RecordIs
<1>6. /\ walk' \in WalkType /\ SamePage(walk', walk) /\ walk'.pc = walk.pc
      /\ walk'.at = walk.at + 1 /\ walk'.emails = walk.emails /\ walk'.view = walk.view
      /\ walk'.total = walk.total /\ walk'.to = walk.to
  BY <1>1, <1>2 DEF WalkType, SamePage
<1>7. WalkOK(walk') BY <1>2, <1>6 DEF WalkOK, SamePage
<1>8. Types' BY <1>1, <1>5, <1>6, <1>7 DEF Types
<1> QED BY <1>1, <1>4, <1>5, <1>6, <1>8 DEF x

\* How often m is in a page.
Copies(e, m) == Cardinality({n \in DOMAIN e : e[n] = m})

LEMMA CopiesIs ==
  ASSUME NEW e \in Seq(Msgs), NEW m
  PROVE  /\ Copies(e, m) \in Nat
         /\ Copies(e, m) = 0 <=> \A n \in DOMAIN e : e[n] # m
         /\ \A x \in Msgs : Copies(Append(e, x), m) = Copies(e, m) + IF x = m THEN 1 ELSE 0
         /\ \A k \in DOMAIN e : (\A n \in DOMAIN e : e[n] = m <=> n = k) => Copies(e, m) = 1
<1> DEFINE A == {n \in DOMAIN e : e[n] = m}
<1>1. DOMAIN e = 1..Len(e) /\ Len(e) \in Nat OBVIOUS
<1>2. IsFiniteSet(A)
  <2>1. IsFiniteSet(1..Len(e)) BY <1>1, FS_Interval
  <2>2. A \subseteq 1..Len(e) BY <1>1
  <2> HIDE DEF A
  <2> QED BY <2>1, <2>2, FS_Subset
<1>3. Cardinality(A) \in Nat BY <1>2, FS_CardinalityType
<1>4. Cardinality(A) = 0 <=> A = {} BY <1>2, FS_EmptySet
<1>5. A = {} <=> \A n \in DOMAIN e : e[n] # m OBVIOUS
<1>6. ASSUME NEW x \in Msgs PROVE Copies(Append(e, x), m) = Cardinality(A) + IF x = m THEN 1 ELSE 0
  <2> DEFINE f == Append(e, x)
             B == {n \in DOMAIN f : f[n] = m}
             k == Len(e) + 1
  <2>1. DOMAIN f = 1..(Len(e) + 1) /\ f[Len(e) + 1] = x /\ \A n \in 1..Len(e) : f[n] = e[n]
    <3>1. f \in Seq(Msgs) /\ Len(f) = Len(e) + 1 OBVIOUS
    <3>2. f[Len(e) + 1] = x /\ \A n \in 1..Len(e) : f[n] = e[n] OBVIOUS
    <3> HIDE DEF f
    <3> QED BY <1>1, <3>1, <3>2
  <2>2. k \notin A BY <1>1
  <2> HIDE DEF f
  <2>3. \A n : n \in B <=> n \in A \/ (n = k /\ x = m)
    <3>1. \A n : n \in DOMAIN f <=> n \in DOMAIN e \/ n = k BY <1>1, <2>1
    <3> QED BY <1>1, <2>1, <3>1
  <2> HIDE DEF A, B, k
  <2>4. CASE x = m
    <3>1. B = A \cup {k} BY <2>3, <2>4
    <3> QED BY <1>2, <2>2, <2>4, <3>1, FS_AddElement DEF Copies, B, f
  <2>5. CASE x # m
    <3>1. B = A BY <2>3, <2>5
    <3>2. Copies(f, m) = Cardinality(B) BY DEF Copies, B
    <3> QED BY <1>3, <2>5, <3>1, <3>2 DEF f
  <2> QED BY <2>4, <2>5
<1>7. ASSUME NEW k \in DOMAIN e, \A n \in DOMAIN e : e[n] = m <=> n = k PROVE Cardinality(A) = 1
  <2>1. A = {k} BY <1>7
  <2> HIDE DEF A
  <2> QED BY <2>1, FS_Singleton
<1> HIDE DEF A
<1>8. Copies(e, m) = Cardinality(A) BY DEF Copies, A
<1> QED BY <1>3, <1>4, <1>5, <1>6, <1>7, <1>8

\* A page is answered.
LEMMA AnsweredIs ==
  ASSUME Types, FetchEnd \/ Reply
  PROVE  /\ Types' /\ UNCHANGED <<box, last, tie>>
         /\ Answers(walk', walk, HasMore(walk, walk.total))
         /\ \/ walk.pc = "fetch" /\ walk.at > walk.to
            \/ walk.pc = "query" /\ walk.todo = {}
         /\ hist.removed => hist'.removed
         /\ ~hist.removed =>
              /\ hist'.before = {m \in Msgs : hist.seen[m] > 0}
              /\ \A m \in Msgs : hist'.seen[m] = hist.seen[m] + Copies(walk.emails, m)
              /\ hist'.start = hist.start /\ hist'.skipped = hist.skipped
              /\ hist'.grew = hist.grew /\ hist'.skew = hist.skew /\ hist'.removed = hist.removed
<1> DEFINE before == {m \in Msgs : hist.seen[m] > 0}
           seen == [m \in Msgs |-> hist.seen[m] + Copies(walk.emails, m)]
           h == [hist EXCEPT !.before = before, !.seen = seen]
           more == HasMore(walk, walk.total)
<1>1. /\ walk' = Answer(walk, more) /\ UNCHANGED <<box, last, tie>>
      /\ \/ walk.pc = "fetch" /\ walk.at > walk.to
         \/ walk.pc = "query" /\ walk.todo = {}
  BY DEF FetchEnd, Reply
<1>2. Seen(walk) BY DEF FetchEnd, Reply
<1>3. Record(h) BY <1>2 DEF Seen, Copies
<1>4. walk \in WalkType /\ WalkOK(walk) /\ hist \in HistType BY DEF Types
<1>5. seen \in [Msgs -> Nat] /\ before \in SUBSET Msgs
  <2>1. walk.emails \in Seq(Msgs) BY <1>4 DEF WalkType
  <2>2. ASSUME NEW m \in Msgs PROVE hist.seen[m] + Copies(walk.emails, m) \in Nat
    <3>1. Copies(walk.emails, m) \in Nat BY <2>1, CopiesIs
    <3>2. hist.seen[m] \in Nat BY <1>4 DEF HistType
    <3> QED BY <3>1, <3>2
  <2> QED BY <2>2
<1>6. more \in BOOLEAN BY DEF HasMore
<1>7. \A m \in Msgs : seen[m] = hist.seen[m] + Copies(walk.emails, m) OBVIOUS
<1> HIDE DEF before, seen, more
<1>8. /\ h \in HistType /\ h.before = before /\ h.seen = seen /\ h.start = hist.start
      /\ h.skipped = hist.skipped /\ h.grew = hist.grew /\ h.skew = hist.skew
      /\ h.removed = hist.removed
  BY <1>4, <1>5 DEF HistType
<1> HIDE DEF h
<1>9. hist' \in HistType /\ (hist.removed => hist'.removed) /\ (~hist.removed => hist' = h)
  BY <1>3, <1>8, RecordIs
<1>10. walk' \in WalkType /\ WalkOK(walk') /\ Answers(walk', walk, more)
  BY <1>1, <1>4, <1>6, AnswerIs
<1>11. Types' BY <1>1, <1>9, <1>10 DEF Types
<1>12. before = {m \in Msgs : hist.seen[m] > 0} BY DEF before
<1> QED BY <1>1, <1>7, <1>8, <1>9, <1>10, <1>11, <1>12 DEF more

LEMMA CountIs ==
  ASSUME Types, Count
  PROVE  /\ Types' /\ UNCHANGED <<box, last, tie, hist>> /\ SamePage(walk', walk)
         /\ walk.pc = "query" /\ walk'.pc = "query" /\ walk'.emails = walk.emails
         /\ "count" \in walk.todo /\ walk'.todo = walk.todo \ {"count"}
         /\ walk'.total = Cardinality(box)
<1> DEFINE total == Cardinality(box)
           todo == walk.todo \ {"count"}
<1>1. /\ walk' = [walk EXCEPT !.todo = todo, !.total = total]
      /\ walk.pc = "query" /\ "count" \in walk.todo /\ UNCHANGED <<box, last, tie, hist>>
  BY DEF Count
<1>2. walk \in WalkType /\ WalkOK(walk) /\ total \in 0..MaxMsgs BY BoxIs DEF Types
<1>3. todo \in SUBSET {"count", "page"} BY <1>2 DEF WalkType
<1> HIDE DEF total, todo
<1>4. /\ walk' \in WalkType /\ SamePage(walk', walk) /\ walk'.pc = walk.pc
      /\ walk'.emails = walk.emails /\ walk'.todo = todo /\ walk'.total = total
      /\ walk'.to = walk.to
  BY <1>1, <1>2, <1>3 DEF WalkType, SamePage
<1>5. WalkOK(walk') BY <1>1, <1>2, <1>4 DEF WalkOK, SamePage
<1>6. Types' BY <1>1, <1>4, <1>5 DEF Types
<1> QED BY <1>1, <1>4, <1>6 DEF total, todo

LEMMA NextPageIs ==
  ASSUME Types, NextPage
  PROVE  /\ Types' /\ UNCHANGED <<box, last, tie, hist>> /\ walk.pc = "answered" /\ walk.more
         /\ Asks(walk', walk.method, walk.limit, walk.page + 1)
<1>1. /\ walk' = Ask(walk, walk.page + 1) /\ walk.pc = "answered" /\ walk.more
      /\ UNCHANGED <<box, last, tie, hist>>
  BY DEF NextPage
<1>2. walk.method \in Methods /\ walk.limit \in 1..MaxLimit /\ walk.page \in Nat \ {0}
  BY <1>1 DEF Types, WalkType, WalkOK
<1>3. walk.page + 1 \in Nat \ {0} BY <1>2
<1>4. Asks(Ask(walk, walk.page + 1), walk.method, walk.limit, walk.page + 1)
  BY <1>2, <1>3, AskIs
<1>5. Types' BY <1>1, <1>4 DEF Types, Asks
<1> QED BY <1>1, <1>4, <1>5

LEMMA FailsIs ==
  ASSUME Types, Fails
  PROVE  Types' /\ UNCHANGED <<box, last, tie, hist>> /\ walk'.pc = "failed"
<1>1. walk' = [walk EXCEPT !.pc = "failed"] /\ UNCHANGED <<box, last, tie, hist>>
      /\ walk.pc # "idle"
  BY DEF Fails
<1>2. walk \in WalkType /\ WalkOK(walk) BY DEF Types
<1>3. /\ walk' \in WalkType /\ SamePage(walk', walk) /\ walk'.pc = "failed"
      /\ walk'.total = walk.total /\ walk'.to = walk.to
  BY <1>1, <1>2 DEF WalkType, SamePage
<1>4. WalkOK(walk') BY <1>1, <1>2, <1>3 DEF WalkOK, SamePage
<1> QED BY <1>1, <1>3, <1>4 DEF Types

LEMMA EndWalkIs ==
  ASSUME Types, EndWalk
  PROVE  Types' /\ walk'.pc = "idle" /\ ~hist'.removed
BY IdleIs, NoHistoryIs DEF Types, EndWalk

LEMMA ArriveIs ==
  ASSUME Types, Arrive
  PROVE  /\ Types' /\ UNCHANGED <<tie, walk>>
         /\ \E x \in Msgs : box' = box \cup {x} /\ \A n \in box : n < x
         /\ hist.removed => hist'.removed
         /\ ~hist.removed =>
              /\ hist'.start = hist.start /\ hist'.seen = hist.seen /\ hist'.before = hist.before
              /\ hist'.skipped = hist.skipped /\ hist'.removed = hist.removed
              /\ walk.pc # "idle" => hist'.grew /\ hist'.skew = (hist.skew \/ Skewed(walk))
<1> DEFINE yes == TRUE
           skew == hist.skew \/ Skewed(walk)
           g == [hist EXCEPT !.grew = yes, !.skew = skew]
           h == IF walk.pc = "idle" THEN hist ELSE g
<1>1. /\ last < MaxMsgs /\ last' = last + 1 /\ box' = box \cup {last + 1} /\ UNCHANGED <<tie, walk>>
      /\ Record(h)
  BY DEF Arrive
<1>2. walk \in WalkType /\ WalkOK(walk) /\ hist \in HistType /\ box \subseteq Msgs BY BoxIs DEF Types
<1>3. skew \in BOOLEAN /\ yes \in BOOLEAN /\ yes BY DEF Skewed
<1> HIDE DEF skew, yes
<1>4. /\ g \in HistType /\ g.start = hist.start /\ g.seen = hist.seen /\ g.before = hist.before
      /\ g.skipped = hist.skipped /\ g.removed = hist.removed /\ g.grew /\ g.skew = skew
  BY <1>2, <1>3 DEF HistType
<1> HIDE DEF g
<1>5. h \in HistType BY <1>2, <1>4
<1>6. hist' \in HistType /\ (hist.removed => hist'.removed) /\ (~hist.removed => hist' = h)
  BY <1>1, <1>5, RecordIs
<1>7. last + 1 \in Msgs /\ (\A n \in box : n < last + 1) /\ last + 1 \in 0..MaxMsgs
      /\ box \cup {last + 1} \subseteq 1..(last + 1)
  BY <1>1, BoundsAssumption DEF Types, Msgs
<1>8. Types' BY <1>1, <1>2, <1>6, <1>7 DEF Types
<1> QED BY <1>1, <1>4, <1>6, <1>7, <1>8 DEF skew

LEMMA DisappearIs ==
  ASSUME Types, Disappear
  PROVE  Types' /\ UNCHANGED <<last, tie, walk>> /\ (walk.pc # "idle" => hist'.removed)
<1>1. hist' \in HistType /\ (walk.pc # "idle" => hist'.removed)
  BY SpoiltIs DEF Disappear, Types
<1>2. UNCHANGED <<last, tie, walk>> /\ box' \subseteq box BY DEF Disappear
<1> QED BY <1>1, <1>2 DEF Types

\* The l messages of q from place s on, of N.
IsPage(e, q, s, l, N) == e = SubSeq(q, s + 1, Min({s + l, N}))

LEMMA PageOf ==
  ASSUME NEW S, S \subseteq Msgs, NEW q, NEW rank, Lists(q, S, rank),
         NEW s \in Nat, NEW l \in Nat, NEW e,
         IsPage(e, q, s, l, Cardinality(S))
  PROVE  /\ e \in Seq(Msgs)
         /\ \A n \in DOMAIN e : e[n] \in S /\ s <= rank[e[n]] /\ rank[e[n]] < s + l
         /\ \A m \in S : Copies(e, m) = IF s <= rank[m] /\ rank[m] < s + l THEN 1 ELSE 0
<1> DEFINE N == Cardinality(S)
           to == Min({s + l, N})
           first == s + 1
           len == IF first <= to THEN to - first + 1 ELSE 0
<1>1. N \in Nat BY MsgsFinite
<1>2. to \in Nat /\ to <= N /\ to <= s + l /\ (to = N \/ to = s + l)
  <2> HIDE DEF N
  <2>1. s + l \in Int /\ N \in Int /\ s + l \in Nat BY <1>1
  <2>2. Min({s + l, N}) = IF s + l <= N THEN s + l ELSE N BY <2>1, MaxOf
  <2> QED BY <1>1, <2>1, <2>2
<1>3. /\ q \in [1..N -> S] /\ \A i \in 1..N : rank[q[i]] = i - 1
      /\ \A m \in S : rank[m] + 1 \in 1..N /\ q[rank[m] + 1] = m
  BY DEF Lists
<1> DEFINE f == SubSeq(q, first, to)
<1>4. e = f BY DEF IsPage
<1>5. first \in Nat \ {0} /\ first = s + 1 OBVIOUS
<1> HIDE DEF N, to, first
<1>6. \A i \in first..to : q[i] \in Msgs
  <2>1. \A i \in first..to : i \in 1..N BY <1>1, <1>2, <1>5
  <2> QED BY <1>3, <2>1
<1>7. e \in Seq(Msgs) /\ Len(e) = len /\ \A n \in 1..(to - first + 1) : e[n] = q[first + n - 1]
  <2>1. first \in Int /\ to \in Int BY <1>2, <1>5
  <2>2. f \in Seq(Msgs) /\ Len(f) = len /\ \A n \in 1..(to - first + 1) : f[n] = q[first + n - 1]
    BY <1>6, <2>1, SubSeqProperties
  <2> HIDE DEF f, len
  <2> QED BY <1>4, <2>2
<1> HIDE DEF f
<1>8. len \in Nat /\ 1..len = 1..(to - first + 1) BY <1>2, <1>5
<1> HIDE DEF len
<1>9. DOMAIN e = 1..(to - first + 1) BY <1>7, <1>8
<1>10. ASSUME NEW n \in DOMAIN e
       PROVE  e[n] \in S /\ rank[e[n]] = s + n - 1 /\ s <= rank[e[n]] /\ rank[e[n]] < s + l
  <2> DEFINE i == first + n - 1
  <2>1. n \in 1..(to - first + 1) BY <1>9
  <2>2. i \in 1..N /\ i - 1 = s + n - 1 /\ s <= i - 1 /\ i - 1 < s + l
    BY <1>1, <1>2, <1>5, <2>1
  <2>3. e[n] = q[i] BY <1>7, <2>1
  <2> HIDE DEF i
  <2>4. q[i] \in S /\ rank[q[i]] = i - 1 BY <1>3, <2>2
  <2> QED BY <2>2, <2>3, <2>4
<1>11. ASSUME NEW m \in S
       PROVE  Copies(e, m) = IF s <= rank[m] /\ rank[m] < s + l THEN 1 ELSE 0
  <2> DEFINE j == rank[m] + 1
  <2>1. j \in 1..N /\ q[j] = m BY <1>3
  <2>2. rank[m] = j - 1
    <3> HIDE DEF j
    <3> QED BY <1>3, <2>1
  <2> HIDE DEF j
  <2>3. CASE s <= rank[m] /\ rank[m] < s + l
    <3> DEFINE k == j - s
    <3>1. k \in 1..(to - first + 1) /\ first + k - 1 = j
      BY <1>1, <1>2, <1>5, <2>1, <2>2, <2>3
    <3>2. k \in DOMAIN e /\ k = rank[m] + 1 - s BY <1>9, <2>1, <2>2, <3>1
    <3> HIDE DEF k
    <3>3. e[k] = m BY <1>7, <2>1, <3>1
    <3>4. ASSUME NEW n \in DOMAIN e, e[n] = m PROVE n = k
      <4>1. rank[m] = s + n - 1 /\ n \in Int BY <1>9, <1>10, <3>4
      <4> QED BY <3>2, <4>1
    <3>5. \A n \in DOMAIN e : e[n] = m <=> n = k BY <3>3, <3>4
    <3>6. Copies(e, m) = 1 BY <1>7, <3>2, <3>5, CopiesIs
    <3> QED BY <2>3, <3>6
  <2>4. CASE ~(s <= rank[m] /\ rank[m] < s + l)
    <3>1. \A n \in DOMAIN e : e[n] # m BY <1>10, <2>4
    <3>2. Copies(e, m) = 0 BY <1>7, <3>1, CopiesIs
    <3> QED BY <2>4, <3>2
  <2> QED BY <2>3, <2>4
<1> QED BY <1>7, <1>10, <1>11

LEMMA PageIs ==
  ASSUME Types, Page
  PROVE  /\ Types' /\ UNCHANGED <<box, last, tie, hist>> /\ SamePage(walk', walk)
         /\ walk.pc = "query" /\ walk'.pc = "query" /\ walk'.total = walk.total
         /\ "page" \in walk.todo /\ walk'.todo = walk.todo \ {"page"}
         /\ \E rank :
              /\ \A m \in box : /\ rank[m] \in Nat
                                /\ Later(box, m) <= rank[m] /\ rank[m] < NoEarlier(box, m)
                                /\ NoTie(box) => rank[m] = Newer(box, m)
              /\ \A n \in DOMAIN walk'.emails :
                   LET m == walk'.emails[n] IN
                   m \in box /\ Skip(walk) <= rank[m] /\ rank[m] < Skip(walk) + walk.limit
              /\ \A m \in box :
                   Copies(walk'.emails, m) =
                     IF Skip(walk) <= rank[m] /\ rank[m] < Skip(walk) + walk.limit THEN 1 ELSE 0
<1>1. PICK swap \in BOOLEAN :
        walk' = [walk EXCEPT !.todo = walk.todo \ {"page"},
                             !.emails = SubSeq(NewestFirst(box, swap), Skip(walk) + 1,
                                               Min({Skip(walk) + walk.limit, Cardinality(box)}))]
  BY DEF Page
<1> DEFINE e == SubSeq(NewestFirst(box, swap), Skip(walk) + 1,
                       Min({Skip(walk) + walk.limit, Cardinality(box)}))
           todo == walk.todo \ {"page"}
<1>2. walk.pc = "query" /\ "page" \in walk.todo /\ UNCHANGED <<box, last, tie, hist>> BY DEF Page
<1>3. walk \in WalkType /\ WalkOK(walk) /\ box \subseteq Msgs /\ tie \in Nat BY BoxIs DEF Types
<1>4. Skip(walk) \in Nat /\ walk.limit \in Nat BY <1>3, SkipIs
<1>5. PICK rank : /\ Lists(NewestFirst(box, swap), box, rank)
                  /\ \A m \in box : /\ rank[m] \in Nat
                                    /\ Later(box, m) <= rank[m] /\ rank[m] < NoEarlier(box, m)
                                    /\ NoTie(box) => rank[m] = Newer(box, m)
  BY <1>3, NewestFirstIs
<1>6. /\ e \in Seq(Msgs)
      /\ \A n \in DOMAIN e : /\ e[n] \in box /\ Skip(walk) <= rank[e[n]]
                             /\ rank[e[n]] < Skip(walk) + walk.limit
      /\ \A m \in box : Copies(e, m) = IF Skip(walk) <= rank[m] /\ rank[m] < Skip(walk) + walk.limit
                                       THEN 1 ELSE 0
  <2>1. IsPage(e, NewestFirst(box, swap), Skip(walk), walk.limit, Cardinality(box)) BY DEF IsPage
  <2> DEFINE s == Skip(walk)
             l == walk.limit
             q == NewestFirst(box, swap)
  <2> HIDE DEF e, s, l, q
  <2>2. /\ e \in Seq(Msgs)
        /\ \A n \in DOMAIN e : e[n] \in box /\ s <= rank[e[n]] /\ rank[e[n]] < s + l
        /\ \A m \in box : Copies(e, m) = IF s <= rank[m] /\ rank[m] < s + l THEN 1 ELSE 0
    <3>1. box \subseteq Msgs /\ Lists(q, box, rank) /\ s \in Nat /\ l \in Nat
      BY <1>3, <1>4, <1>5 DEF s, l, q
    <3>2. IsPage(e, q, s, l, Cardinality(box)) BY <2>1 DEF s, l, q
    <3> QED BY <3>1, <3>2, PageOf
  <2> QED BY <2>2 DEF s, l
<1>7. todo \in SUBSET {"count", "page"} BY <1>3 DEF WalkType
<1>8. walk' = [walk EXCEPT !.todo = todo, !.emails = e] BY <1>1
<1> HIDE DEF e, todo
<1>9. /\ walk' \in WalkType /\ SamePage(walk', walk) /\ walk'.pc = walk.pc
      /\ walk'.emails = e /\ walk'.todo = todo /\ walk'.total = walk.total /\ walk'.to = walk.to
  BY <1>3, <1>6, <1>7, <1>8 DEF WalkType, SamePage
<1>10. WalkOK(walk') BY <1>2, <1>3, <1>9 DEF WalkOK, SamePage
<1>11. Types' BY <1>2, <1>9, <1>10 DEF Types
<1> QED BY <1>2, <1>5, <1>6, <1>9, <1>11 DEF todo

-----------------------------------------------------------------------------
(* The type invariant *)

LEMMA TypesInit == ASSUME Init PROVE Types
<1>1. tie \in 0..MaxMsgs /\ last \in 0..MaxMsgs /\ box \subseteq 1..last
  BY BoundsAssumption DEF Init
<1>2. walk \in WalkType /\ WalkOK(walk) /\ hist \in HistType BY IdleIs, NoHistoryIs DEF Init
<1> QED BY <1>1, <1>2 DEF Types

LEMMA TypesNext == ASSUME Types, [Next]_vars PROVE Types'
<1>1. CASE UNCHANGED vars BY <1>1 DEF vars, Types, WalkOK
<1>2. CASE FirstPage BY <1>2, FirstPageIs
<1>3. CASE Open BY <1>3, OpenIs
<1>4. CASE Retrieve BY <1>4, RetrieveIs
<1>5. CASE RetrieveFails BY <1>5, RetrieveFailsIs
<1>6. CASE FetchEnd \/ Reply BY <1>6, AnsweredIs
<1>7. CASE Count BY <1>7, CountIs
<1>8. CASE Page BY <1>8, PageIs
<1>9. CASE NextPage BY <1>9, NextPageIs
<1>10. CASE EndWalk BY <1>10, EndWalkIs
<1>11. CASE Fails BY <1>11, FailsIs
<1>12. CASE Arrive BY <1>12, ArriveIs
<1>13. CASE Disappear BY <1>13, DisappearIs
<1> QED BY <1>1, <1>2, <1>3, <1>4, <1>5, <1>6, <1>7, <1>8, <1>9, <1>10, <1>11, <1>12, <1>13
        DEF Next, Step

LEMMA TypesOK == ASSUME Types PROVE TypeOK
<1>1. /\ box \subseteq Msgs /\ walk \in WalkType /\ WalkOK(walk) /\ hist \in HistType
      /\ last \in 0..MaxMsgs /\ tie \in 0..MaxMsgs
  BY BoxIs DEF Types
<1>2. DOMAIN walk = DOMAIN Idle BY <1>1 DEF WalkType, Idle
<1>3. DOMAIN hist = DOMAIN NoHistory BY <1>1 DEF HistType, NoHistory
<1>4. walk.to \in 0..walk.total BY <1>1 DEF WalkType, WalkOK
<1>5. /\ \A n \in DOMAIN walk.view : walk.view[n] \in Msgs
      /\ \A n \in DOMAIN walk.emails : walk.emails[n] \in Msgs
  BY <1>1 DEF WalkType
<1> QED BY <1>1, <1>2, <1>3, <1>4, <1>5 DEF TypeOK, WalkType

\* The shape of the state: a session never asks for a number beyond the mailbox
\* it opened, and no page has a message that never arrived.
THEOREM TypeCorrect == Spec => []TypeOK
<1>1. Init => Types BY TypesInit
<1>2. Types /\ [Next]_vars => Types' BY TypesNext
<1>3. Types => TypeOK BY TypesOK
<1> QED BY <1>1, <1>2, <1>3, PTL DEF Spec

-----------------------------------------------------------------------------
(* Mail that arrives hides none *)

\* How many messages an asker of pages gets before m.
Place(m) == IF walk.method = "pop3" THEN Older(box, m) ELSE Newer(box, m)

Walking == walk.pc \notin {"idle", "failed"}

\* Nothing of what was there when the walk began is gone, and a database or Graph
\* page goes with a total taken of the same mailbox.
Kept ==
  Walking /\ ~hist.removed =>
    /\ hist.start \subseteq box
    /\ walk.pc = "query" /\ walk.todo = {"page"} /\ ~hist.skew => walk.total = Cardinality(box)

InPage(m) == \E n \in DOMAIN walk.emails : walk.emails[n] = m

\* A message not yet seen is still to come.
Ahead(m) ==
  LET s == Skip(walk)
      e == Skip(walk) + walk.limit
  IN
  /\ walk.pc = "open" => Place(m) >= s
  /\ walk.pc = "query" =>
       IF "page" \in walk.todo THEN Place(m) >= s
       ELSE InPage(m) \/ (Place(m) >= e /\ ("count" \notin walk.todo => walk.total > e))
  /\ walk.pc = "fetch" =>
       \/ InPage(m) \/ \E i \in walk.at..walk.to : walk.view[i] = m
       \/ Place(m) >= e /\ walk.total > e
  /\ walk.pc = "answered" => walk.more /\ Place(m) >= e

Reach ==
  Walking /\ ~hist.removed /\ ~hist.skew /\ SteadyOrder =>
    \A m \in hist.start : m \notin hist.skipped /\ hist.seen[m] = 0 => Ahead(m)

LEMMA PlaceIs ==
  ASSUME Types, NEW m \in box
  PROVE  /\ m \in Msgs /\ Place(m) \in Nat /\ Place(m) < Cardinality(box)
         /\ Older(box, m) \in Nat /\ Newer(box, m) \in Nat /\ Cardinality(box) \in 1..MaxMsgs
         /\ Older(box, m) + Newer(box, m) + 1 = Cardinality(box)
<1>1. box \subseteq Msgs /\ Cardinality(box) \in 0..MaxMsgs BY BoxIs
<1>2. /\ Older(box, m) \in Nat /\ Newer(box, m) \in Nat /\ Cardinality(box) \in Nat
      /\ Older(box, m) + Newer(box, m) + 1 = Cardinality(box)
  BY <1>1, Places
<1> QED BY <1>1, <1>2 DEF Place

\* A step within a page leaves the places as they are.
LEMMA SamePlace ==
  ASSUME Types, Types', SamePage(walk', walk), UNCHANGED <<box, tie>>
  PROVE  /\ Skip(walk') = Skip(walk) /\ walk'.limit = walk.limit /\ walk'.method = walk.method
         /\ \A m : Place(m)' = Place(m)
         /\ SteadyOrder' <=> SteadyOrder
<1>1. walk'.method = walk.method /\ walk'.limit = walk.limit /\ walk'.page = walk.page
  BY DEF SamePage
<1>2. Skip(walk') = Skip(walk) BY <1>1 DEF Skip
<1>3. \A m : Place(m)' = Place(m) BY <1>1 DEF Place, Older, Newer
<1>4. SteadyOrder' <=> SteadyOrder BY <1>1 DEF SteadyOrder, ReceivedAt
<1> QED BY <1>1, <1>2, <1>3, <1>4

\* Mail that arrives comes after what is there, or before all of it.
LEMMA ArrivesAhead ==
  ASSUME Types, Arrive
  PROVE  /\ box \subseteq box' /\ (SteadyOrder' => SteadyOrder)
         /\ \A m \in box : Place(m)' \in Nat /\ Place(m)' >= Place(m)
<1>1. PICK x \in Msgs : box' = box \cup {x} /\ \A n \in box : n < x BY ArriveIs
<1>2. UNCHANGED <<tie, walk>> BY ArriveIs
<1>3. box \subseteq Msgs BY BoxIs
<1>4. ASSUME NEW m \in box PROVE Place(m)' \in Nat /\ Place(m)' >= Place(m)
  <2>1. /\ Older(box', m) = Older(box, m) /\ Newer(box', m) >= Newer(box, m)
        /\ Newer(box', m) \in Nat
    BY <1>1, <1>3, PlacesGrow
  <2>2. Older(box, m) \in Nat /\ Newer(box, m) \in Nat BY PlaceIs
  <2> QED BY <1>2, <2>1, <2>2 DEF Place
<1>5. SteadyOrder' => SteadyOrder BY <1>1, <1>2 DEF SteadyOrder, ReceivedAt
<1> QED BY <1>1, <1>4, <1>5

\* A session's numbers: the page has those of the places it is for.
LEMMA ViewIs ==
  ASSUME Types
  PROVE  /\ \A m \in box : OldestFirst(box)[Older(box, m) + 1] = m
         /\ \A i \in 1..Cardinality(box) : /\ OldestFirst(box)[i] \in box
                                           /\ Older(box, OldestFirst(box)[i]) = i - 1
<1> DEFINE q == OldestFirst(box)
           rank == [m \in box |-> Older(box, m)]
<1>1. Lists(q, box, rank) BY BoxIs, OldestFirstIs
<1>2. \A m \in box : rank[m] = Older(box, m) OBVIOUS
<1> HIDE DEF q, rank
<1>3. /\ \A m \in box : q[rank[m] + 1] = m
      /\ \A i \in 1..Cardinality(box) : q[i] \in box /\ rank[q[i]] = i - 1
  BY <1>1 DEF Lists
<1> QED BY <1>2, <1>3 DEF q

LEMMA Covers ==
  ASSUME Types, walk.method \in Sessions, NEW m \in box
  PROVE  LET N == Cardinality(box)
             r == PageRange(walk, N)
             s == Skip(walk)
             i == Older(box, m) + 1
         IN /\ i \in 1..N /\ r.at \in Nat \ {0} /\ r.to \in 1..N
            /\ s <= Place(m) /\ Place(m) < s + walk.limit => r.at <= i /\ i <= r.to
            /\ (s = 0 \/ s < N) /\ r.at <= i /\ i <= r.to => s <= Place(m) /\ Place(m) < s + walk.limit
<1> DEFINE N == Cardinality(box)
           r == PageRange(walk, N)
           s == Skip(walk)
           l == walk.limit
           i == Older(box, m) + 1
           j == Newer(box, m)
<1>1. N \in 1..MaxMsgs /\ j \in Nat /\ i \in Nat \ {0} /\ i + j = N
  <2>1. /\ Older(box, m) \in Nat /\ Newer(box, m) \in Nat /\ N \in 1..MaxMsgs
        /\ Older(box, m) + Newer(box, m) + 1 = N
    BY PlaceIs
  <2> HIDE DEF N
  <2> QED BY <2>1
<1>2. walk \in WalkType BY BoxIs
<1>3. s \in Nat /\ l \in Nat \ {0} BY <1>2, SkipIs
<1>4. /\ r.at \in Nat \ {0} /\ r.to \in 1..N
      /\ walk.method = "imap" => /\ r.at = IF N - s - l + 1 > 1 THEN N - s - l + 1 ELSE 1
                                 /\ r.to = IF N - s > 1 THEN N - s ELSE 1
      /\ walk.method # "imap" => /\ r.at = s + 1
                                 /\ r.to = IF s + l < N THEN s + l ELSE N
  BY <1>1, <1>2, RangeIs
<1>5. /\ walk.method = "imap" => Place(m) = j
      /\ walk.method # "imap" => Place(m) = i - 1
  BY <1>1, PlaceIs DEF Place, Sessions
<1> DEFINE at == r.at
           to == r.to
<1> HIDE DEF N, r, s, l, i, j
<1>6. N \in Nat \ {0} BY <1>1, BoundsAssumption
<1>7. CASE walk.method = "imap"
  <2> DEFINE p == Place(m)
  <2>1. /\ at = IF N - s - l + 1 > 1 THEN N - s - l + 1 ELSE 1
        /\ to = IF N - s > 1 THEN N - s ELSE 1
        /\ p = j
    BY <1>4, <1>5, <1>7
  <2> HIDE DEF at, to, p
  <2>2. /\ s <= p /\ p < s + l => at <= i /\ i <= to
        /\ (s = 0 \/ s < N) /\ at <= i /\ i <= to => s <= p /\ p < s + l
    BY <1>1, <1>3, <1>6, <2>1
  <2>3. i \in 1..N BY <1>1, <1>6
  <2> QED BY <1>4, <2>2, <2>3 DEF at, to, p, N, r, s, l, i
<1>8. CASE walk.method # "imap"
  <2> DEFINE p == Place(m)
  <2>1. at = s + 1 /\ to = (IF s + l < N THEN s + l ELSE N) /\ p = i - 1
    BY <1>4, <1>5, <1>8
  <2> HIDE DEF at, to, p
  <2>2. /\ s <= p /\ p < s + l => at <= i /\ i <= to
        /\ (s = 0 \/ s < N) /\ at <= i /\ i <= to => s <= p /\ p < s + l
    BY <1>1, <1>3, <1>6, <2>1
  <2>3. i \in 1..N BY <1>1, <1>6
  <2> QED BY <1>4, <2>2, <2>3 DEF at, to, p, N, r, s, l, i
<1> QED BY <1>7, <1>8

\* After these nothing is claimed of the walk.
LEMMA Over ==
  ASSUME Types, Fails \/ EndWalk \/ Disappear
  PROVE  ~(Walking' /\ ~hist'.removed)
BY FailsIs, EndWalkIs, DisappearIs DEF Walking

LEMMA KeptNext == ASSUME Types, Kept, [Next]_vars PROVE Kept'
<1> SUFFICES ASSUME Walking', ~hist'.removed
             PROVE  /\ hist'.start \subseteq box'
                    /\ walk'.pc = "query" /\ walk'.todo = {"page"} /\ ~hist'.skew =>
                         walk'.total = Cardinality(box')
  BY DEF Kept
<1>1. CASE UNCHANGED vars BY <1>1 DEF vars, Kept, Walking
<1>2. CASE FirstPage
  <2>1. PICK m \in Methods, n \in 1..MaxLimit : Asks(walk', m, n, 1) BY <1>2, FirstPageIs
  <2>2. m \in Sessions \cup Queries BY MethodsAssumption DEF AllMethods, Sessions, Queries
  <2>3. walk'.pc = "query" => walk'.todo = {"count", "page"} BY <2>1, <2>2 DEF Asks
  <2> QED BY <1>2, <2>3, FirstPageIs
<1>3. CASE Open BY <1>3, OpenIs DEF Kept, Walking
<1>4. CASE Retrieve BY <1>4, RetrieveIs DEF Kept, Walking
<1>5. CASE RetrieveFails BY <1>5, RetrieveFailsIs DEF Kept, Walking
<1>6. CASE FetchEnd \/ Reply BY <1>6, AnsweredIs DEF Kept, Walking, Answers
<1>7. CASE Count BY <1>7, CountIs DEF Kept, Walking
<1>8. CASE Page BY <1>8, PageIs DEF Kept, Walking
<1>9. CASE NextPage
  <2>1. Asks(walk', walk.method, walk.limit, walk.page + 1) BY <1>9, NextPageIs
  <2>2. walk.method \in Sessions \cup Queries
    BY <1>9, NextPageIs, MethodsAssumption DEF Types, WalkOK, AllMethods, Sessions, Queries
  <2>3. walk'.pc = "query" => walk'.todo = {"count", "page"} BY <2>1, <2>2 DEF Asks
  <2> QED BY <1>9, <2>3, NextPageIs DEF Kept, Walking
<1>10. CASE Fails \/ EndWalk \/ Disappear BY <1>10, Over
<1>11. CASE Arrive
  <2>1. UNCHANGED walk /\ box \subseteq box' /\ ~hist.removed /\ Walking
    BY <1>11, ArriveIs, ArrivesAhead DEF Walking
  <2>2. hist'.start = hist.start /\ hist'.skew = (hist.skew \/ Skewed(walk))
    BY <1>11, <2>1, ArriveIs DEF Walking
  <2> QED BY <2>1, <2>2 DEF Kept, Skewed
<1> QED BY <1>1, <1>2, <1>3, <1>4, <1>5, <1>6, <1>7, <1>8, <1>9, <1>10, <1>11 DEF Next, Step

LEMMA InPageIs ==
  ASSUME Types, NEW m
  PROVE  InPage(m) <=> Copies(walk.emails, m) # 0
BY BoxIs, CopiesIs DEF InPage, WalkType

LEMMA ReachNext ==
  ASSUME Types, Types', Kept, Kept', Reach, [Next]_vars
  PROVE  Reach'
<1> SUFFICES ASSUME Walking', ~hist'.removed, ~hist'.skew, SteadyOrder',
                    NEW m \in hist'.start, m \notin hist'.skipped, hist'.seen[m] = 0
             PROVE  Ahead(m)'
  BY DEF Reach
<1> DEFINE s == Skip(walk)
           l == walk.limit
           p == Place(m)
           N == Cardinality(box)
<1>0. /\ walk \in WalkType /\ hist \in HistType /\ s \in Nat /\ l \in Nat \ {0}
      /\ box \subseteq Msgs /\ N \in Nat
  BY BoxIs, SkipIs
<1>1. ASSUME Walking, ~hist.removed, ~hist.skew, SteadyOrder, m \in hist.start,
             m \notin hist.skipped, hist.seen[m] = 0
      PROVE  Ahead(m) /\ m \in box /\ m \in Msgs /\ p \in Nat /\ p < N
  <2>1. m \in box BY <1>1 DEF Kept
  <2>2. Ahead(m) BY <1>1 DEF Reach
  <2> QED BY <2>1, <2>2, PlaceIs
<1>2. CASE UNCHANGED vars
  BY <1>1, <1>2 DEF vars, Walking, SteadyOrder, ReceivedAt, Ahead, Place, Older, Newer, InPage
<1>3. CASE FirstPage
  <2>1. PICK k \in Methods, n \in 1..MaxLimit : Asks(walk', k, n, 1) BY <1>3, FirstPageIs
  <2>2. /\ walk' \in WalkType /\ walk'.page = 1 /\ walk'.pc \in {"open", "query"}
        /\ walk'.pc = "query" => walk'.todo = {"count", "page"}
    BY <2>1, MethodsAssumption DEF Asks, AllMethods, Sessions, Queries
  <2>3. Skip(walk') = 0 BY <2>2, SkipIs
  <2>4. Place(m)' \in Nat
    <3>1. m \in box /\ box' = box BY <1>3, FirstPageIs
    <3>2. Older(box, m) \in Nat /\ Newer(box, m) \in Nat BY <3>1, PlaceIs
    <3> QED BY <3>1, <3>2 DEF Place
  <2> QED BY <2>2, <2>3, <2>4 DEF Ahead
<1>4. CASE Open
  <2> DEFINE r == PageRange(walk, N)
             i == Older(box, m) + 1
  <2>1. UNCHANGED <<box, tie, hist>> /\ walk.pc = "open" /\ SamePage(walk', walk) BY <1>4, OpenIs
  <2>2. Skip(walk') = s /\ walk'.limit = l /\ Place(m)' = p /\ SteadyOrder
    BY <2>1, SamePlace
  <2>3. Ahead(m) /\ m \in box /\ p \in Nat /\ p < N BY <1>1, <2>1, <2>2 DEF Walking
  <2>4. p >= s BY <2>1, <2>3 DEF Ahead
  <2>5. /\ walk'.pc = "fetch" /\ walk'.total = N /\ walk'.view = OldestFirst(box)
        /\ walk'.at = r.at /\ walk'.to = r.to
    BY <1>4, <2>3, OpenIs
  <2>6. walk.method \in Sessions BY <2>1 DEF Types, WalkOK
  <2>7. /\ i \in 1..N /\ r.at \in Nat \ {0} /\ r.to \in 1..N
        /\ s <= p /\ p < s + l => r.at <= i /\ i <= r.to
    BY <2>3, <2>6, Covers
  <2>8. OldestFirst(box)[i] = m BY <2>3, ViewIs
  <2> HIDE DEF s, l, p, N, r, i
  <2>9. CASE p < s + l
    <3>1. i \in walk'.at..walk'.to BY <1>0, <2>3, <2>4, <2>5, <2>7, <2>9
    <3>2. walk'.view[i] = m BY <2>5, <2>8
    <3> QED BY <2>5, <3>1, <3>2 DEF Ahead
  <2>10. CASE p >= s + l
    <3>1. walk'.total > s + l BY <1>0, <2>3, <2>5, <2>10
    <3> QED BY <2>2, <2>5, <2>10, <3>1 DEF Ahead
  <2> QED BY <1>0, <2>3, <2>9, <2>10
<1>5. CASE Retrieve
  <2> DEFINE x == walk.view[walk.at]
  <2>1. /\ UNCHANGED <<box, tie, hist>> /\ walk.pc = "fetch" /\ walk'.pc = "fetch"
        /\ SamePage(walk', walk) /\ walk.at <= walk.to /\ walk'.at = walk.at + 1
        /\ walk'.emails = Append(walk.emails, x) /\ walk'.view = walk.view
        /\ walk'.total = walk.total /\ walk'.to = walk.to
    BY <1>5, RetrieveIs
  <2>2. Skip(walk') = s /\ walk'.limit = l /\ Place(m)' = p /\ SteadyOrder
    BY <2>1, SamePlace
  <2>3. Ahead(m) BY <1>1, <2>1, <2>2 DEF Walking
  <2>4. walk.emails \in Seq(Msgs) /\ walk.at \in Nat /\ walk.to \in Nat BY <1>0 DEF WalkType
  <2>5. /\ InPage(m) => InPage(m)'
        /\ x = m => InPage(m)'
    <3>1. walk'.emails \in Seq(Msgs) BY BoxIs DEF Types, WalkType
    <3>2. /\ Len(walk'.emails) = Len(walk.emails) + 1 /\ walk'.emails[Len(walk.emails) + 1] = x
          /\ \A n \in 1..Len(walk.emails) : walk'.emails[n] = walk.emails[n]
      BY <2>1, <2>4
    <3>3. Len(walk.emails) \in Nat /\ DOMAIN walk.emails = 1..Len(walk.emails)
          /\ DOMAIN walk'.emails = 1..Len(walk'.emails)
      BY <2>4, <3>1
    <3> QED BY <3>2, <3>3 DEF InPage
  <2>6. \A i \in walk.at..walk.to : i = walk.at \/ i \in walk'.at..walk'.to BY <2>1, <2>4
  <2>7. /\ InPage(m) \/ (\E i \in walk.at..walk.to : walk.view[i] = m)
           \/ (p >= s + l /\ walk.total > s + l)
    BY <2>1, <2>3 DEF Ahead
  <2> HIDE DEF s, l, p, x
  <2>8. CASE InPage(m) BY <2>1, <2>5, <2>8 DEF Ahead
  <2>9. CASE \E i \in walk.at..walk.to : walk.view[i] = m
    <3>1. PICK i \in walk.at..walk.to : walk.view[i] = m BY <2>9
    <3>2. CASE i = walk.at BY <2>1, <2>5, <3>1, <3>2 DEF Ahead, x
    <3>3. CASE i \in walk'.at..walk'.to BY <2>1, <3>1, <3>3 DEF Ahead
    <3> QED BY <2>6, <3>1, <3>2, <3>3
  <2>10. CASE p >= s + l /\ walk.total > s + l BY <2>1, <2>2, <2>10 DEF Ahead
  <2> QED BY <2>7, <2>8, <2>9, <2>10
<1>6. CASE RetrieveFails
  <2>1. /\ UNCHANGED <<box, tie>> /\ walk.pc = "fetch" /\ walk'.pc = "fetch"
        /\ SamePage(walk', walk) /\ walk.at <= walk.to /\ walk'.at = walk.at + 1
        /\ walk'.emails = walk.emails /\ walk'.view = walk.view
        /\ walk'.total = walk.total /\ walk'.to = walk.to
        /\ ~hist.removed
    BY <1>6, RetrieveFailsIs
  <2>2. /\ hist'.skipped = hist.skipped \cup {walk.view[walk.at]} /\ hist'.start = hist.start
        /\ hist'.seen = hist.seen /\ hist'.skew = hist.skew
    BY <1>6, <2>1, RetrieveFailsIs
  <2>3. Skip(walk') = s /\ walk'.limit = l /\ Place(m)' = p /\ SteadyOrder
    BY <2>1, SamePlace
  <2>4. Ahead(m) /\ m # walk.view[walk.at] BY <1>1, <2>1, <2>2, <2>3 DEF Walking
  <2>5. walk.at \in Nat /\ walk.to \in Nat BY <1>0 DEF WalkType
  <2>6. \A i \in walk.at..walk.to : i = walk.at \/ i \in walk'.at..walk'.to BY <2>1, <2>5
  <2>7. InPage(m)' <=> InPage(m) BY <2>1 DEF InPage
  <2> QED BY <2>1, <2>3, <2>4, <2>6, <2>7 DEF Ahead
<1>7. CASE FetchEnd \/ Reply
  <2>1. /\ UNCHANGED <<box, tie>> /\ Answers(walk', walk, HasMore(walk, walk.total))
        /\ \/ walk.pc = "fetch" /\ walk.at > walk.to
           \/ walk.pc = "query" /\ walk.todo = {}
        /\ ~hist.removed
    BY <1>7, AnsweredIs
  <2>2. /\ \A n \in Msgs : hist'.seen[n] = hist.seen[n] + Copies(walk.emails, n)
        /\ hist'.start = hist.start /\ hist'.skipped = hist.skipped /\ hist'.skew = hist.skew
    BY <1>7, <2>1, AnsweredIs
  <2>3. SamePage(walk', walk) /\ walk'.pc = "answered" /\ (walk'.more <=> s + l < walk.total)
    BY <2>1 DEF Answers, HasMore
  <2>4. Skip(walk') = s /\ walk'.limit = l /\ Place(m)' = p /\ SteadyOrder
    BY <2>1, <2>3, SamePlace
  <2>5. m \in Msgs BY <1>0, <2>2 DEF HistType
  <2>6. hist.seen[m] = 0 /\ Copies(walk.emails, m) = 0
    <3>1. hist.seen[m] \in Nat /\ walk.emails \in Seq(Msgs) BY <1>0, <2>5 DEF HistType, WalkType
    <3>2. Copies(walk.emails, m) \in Nat BY <3>1, CopiesIs
    <3>3. hist.seen[m] + Copies(walk.emails, m) = 0 BY <2>2, <2>5
    <3> QED BY <3>1, <3>2, <3>3
  <2>7. Ahead(m) BY <1>1, <2>1, <2>2, <2>4, <2>6 DEF Walking
  <2>8. ~InPage(m) BY <2>6, InPageIs
  <2>9. walk.at \in Nat /\ walk.to \in Nat /\ walk.total \in Nat BY <1>0, BoundsAssumption DEF WalkType
  <2> HIDE DEF s, l, p
  <2>10. p >= s + l /\ walk.total > s + l
    <3>1. walk.at > walk.to => walk.at..walk.to = {} BY <2>9
    <3> QED BY <2>1, <2>7, <2>8, <3>1 DEF Ahead, s, l, p
  <2>11. walk'.more BY <1>0, <2>3, <2>9, <2>10
  <2> QED BY <2>3, <2>4, <2>10, <2>11 DEF Ahead
<1>8. CASE Count
  <2>1. /\ UNCHANGED <<box, tie, hist>> /\ SamePage(walk', walk)
        /\ walk.pc = "query" /\ walk'.pc = "query" /\ walk'.emails = walk.emails
        /\ "count" \in walk.todo /\ walk'.todo = walk.todo \ {"count"} /\ walk'.total = N
    BY <1>8, CountIs
  <2>2. Skip(walk') = s /\ walk'.limit = l /\ Place(m)' = p /\ SteadyOrder
    BY <2>1, SamePlace
  <2>3. Ahead(m) /\ p \in Nat /\ p < N BY <1>1, <2>1, <2>2 DEF Walking
  <2>4. InPage(m)' <=> InPage(m) BY <2>1 DEF InPage
  <2>5. "page" \in walk'.todo <=> "page" \in walk.todo BY <2>1
  <2>6. IF "page" \in walk.todo THEN p >= s ELSE InPage(m) \/ p >= s + l
    BY <2>1, <2>3 DEF Ahead
  <2> HIDE DEF s, l, p, N
  <2>7. p >= s + l => walk'.total > s + l BY <1>0, <2>1, <2>3
  <2> QED BY <2>1, <2>2, <2>4, <2>5, <2>6, <2>7 DEF Ahead
<1>9. CASE Page
  <2>1. /\ UNCHANGED <<box, tie, hist>> /\ SamePage(walk', walk)
        /\ walk.pc = "query" /\ walk'.pc = "query" /\ walk'.total = walk.total
        /\ "page" \in walk.todo /\ walk'.todo = walk.todo \ {"page"}
    BY <1>9, PageIs
  <2>2. PICK rank :
          /\ \A n \in box : NoTie(box) => rank[n] = Newer(box, n)
          /\ \A n \in box : Copies(walk'.emails, n) = IF s <= rank[n] /\ rank[n] < s + l THEN 1 ELSE 0
    BY <1>9, PageIs
  <2>3. Skip(walk') = s /\ walk'.limit = l /\ Place(m)' = p /\ SteadyOrder
    BY <2>1, SamePlace
  <2>4. Ahead(m) /\ m \in box /\ p \in Nat /\ p < N BY <1>1, <2>1, <2>3 DEF Walking
  <2>5. p >= s BY <2>1, <2>4 DEF Ahead
  <2>6. walk.method \in Queries BY <2>1 DEF Types, WalkOK
  <2>7. NoTie(box) /\ p = Newer(box, m)
    BY <2>3, <2>6 DEF SteadyOrder, NoTie, Queries, Place
  <2>8. Copies(walk'.emails, m) = IF s <= p /\ p < s + l THEN 1 ELSE 0 BY <2>2, <2>4, <2>7
  <2>9. InPage(m)' <=> Copies(walk'.emails, m) # 0
    BY BoxIs, CopiesIs DEF InPage, Types, WalkType
  <2>10. "count" \notin walk'.todo => walk.todo = {"page"} BY <1>0, <2>1 DEF WalkType
  <2>11. "count" \notin walk'.todo => walk'.total = N
    BY <2>1, <2>10 DEF Kept, Walking
  <2>12. "page" \notin walk'.todo BY <2>1
  <2> HIDE DEF s, l, p, N
  <2>13. CASE p < s + l BY <2>1, <2>5, <2>8, <2>9, <2>12, <2>13 DEF Ahead
  <2>14. CASE p >= s + l
    <3>1. "count" \notin walk'.todo => walk'.total > s + l BY <1>0, <2>4, <2>11, <2>14
    <3> QED BY <2>1, <2>3, <2>12, <2>14, <3>1 DEF Ahead
  <2> QED BY <1>0, <2>4, <2>13, <2>14
<1>10. CASE NextPage
  <2>1. /\ UNCHANGED <<box, tie, hist>> /\ walk.pc = "answered"
        /\ Asks(walk', walk.method, walk.limit, walk.page + 1)
    BY <1>10, NextPageIs
  <2>2. walk.method \in Sessions \cup Queries
    BY <2>1, MethodsAssumption DEF Types, WalkOK, AllMethods, Sessions, Queries
  <2>3. /\ walk' \in WalkType /\ walk'.page = walk.page + 1 /\ walk'.limit = walk.limit
        /\ walk'.method = walk.method /\ walk'.pc \in {"open", "query"}
        /\ walk'.pc = "query" => walk'.todo = {"count", "page"}
    BY <2>1, <2>2 DEF Asks
  <2>4. Skip(walk') = s + l BY <1>0, <2>3, SkipIs
  <2>5. Place(m)' = p BY <2>1, <2>3 DEF Place, Older, Newer
  <2>6. SteadyOrder BY <2>1, <2>3 DEF SteadyOrder, ReceivedAt
  <2>7. p >= s + l BY <1>1, <2>1, <2>6 DEF Walking, Ahead
  <2> QED BY <2>3, <2>4, <2>5, <2>7 DEF Ahead
<1>11. CASE Fails \/ EndWalk \/ Disappear BY <1>11, Over
<1>12. CASE Arrive
  <2>1. /\ UNCHANGED walk /\ box \subseteq box' /\ SteadyOrder /\ ~hist.removed /\ Walking
        /\ \A n \in box : Place(n)' \in Nat /\ Place(n)' >= Place(n)
    BY <1>12, ArriveIs, ArrivesAhead DEF Walking
  <2>2. /\ hist'.start = hist.start /\ hist'.skew = (hist.skew \/ Skewed(walk))
        /\ hist'.skipped = hist.skipped /\ hist'.seen = hist.seen
    BY <1>12, <2>1, ArriveIs DEF Walking
  <2>3. Ahead(m) /\ m \in box /\ p \in Nat BY <1>1, <2>1, <2>2
  <2> DEFINE p1 == Place(m)'
  <2>4. p1 \in Nat /\ p1 >= p BY <2>1, <2>3
  <2>5. InPage(m)' <=> InPage(m) BY <2>1 DEF InPage
  <2>6. /\ p >= s => p1 >= s
        /\ p >= s + l => p1 >= s + l
    <3> HIDE DEF p, p1, s, l
    <3> QED BY <1>0, <2>3, <2>4
  <2> QED BY <2>1, <2>3, <2>5, <2>6 DEF Ahead
<1> QED BY <1>2, <1>3, <1>4, <1>5, <1>6, <1>7, <1>8, <1>9, <1>10, <1>11, <1>12 DEF Next, Step

-----------------------------------------------------------------------------
(* The mailbox that stays as it is *)

\* Nothing has come or gone since the walk began.
Still == Walking /\ ~hist.removed /\ ~hist.grew

\* What a walk then knows of the mailbox.
Knows ==
  LET s == Skip(walk)
      N == Cardinality(box)
      r == PageRange(walk, N)
  IN
  /\ box = hist.start /\ (walk.pc # "answered" => s = 0 \/ s < N)
  /\ walk.pc = "fetch" => /\ walk.view = OldestFirst(box) /\ walk.total = N /\ walk.to = r.to
                          /\ r.at <= walk.at /\ walk.at <= walk.to + 1
  /\ walk.pc = "query" /\ "count" \notin walk.todo => walk.total = N
  /\ walk.pc = "answered" => (walk.more <=> s + walk.limit < N)
  /\ walk.method \in Queries => hist.skipped = {}

StillOK == Still => Knows

LEMMA SameRange ==
  ASSUME SamePage(walk', walk), NEW n
  PROVE  PageRange(walk', n) = PageRange(walk, n)
BY DEF SamePage, PageRange, Skip

\* A page that is asked for has messages, unless the mailbox is empty.
LEMMA RangeNotEmpty ==
  ASSUME Types, walk.method \in Sessions, Cardinality(box) > 0,
         Skip(walk) = 0 \/ Skip(walk) < Cardinality(box)
  PROVE  LET r == PageRange(walk, Cardinality(box)) IN
         r.at \in Nat \ {0} /\ r.to \in Nat /\ r.at <= r.to /\ r.to <= Cardinality(box)
<1> DEFINE N == Cardinality(box)
           r == PageRange(walk, N)
           s == Skip(walk)
           l == walk.limit
           at == r.at
           to == r.to
<1>1. walk \in WalkType /\ N \in 1..MaxMsgs BY BoxIs
<1>2. s \in Nat /\ l \in Nat \ {0} /\ N \in Nat \ {0} /\ (s = 0 \/ s < N) BY <1>1, SkipIs
<1>3. /\ at \in Nat \ {0} /\ to \in 1..N
      /\ walk.method = "imap" => /\ at = IF N - s - l + 1 > 1 THEN N - s - l + 1 ELSE 1
                                 /\ to = IF N - s > 1 THEN N - s ELSE 1
      /\ walk.method # "imap" => /\ at = s + 1
                                 /\ to = IF s + l < N THEN s + l ELSE N
  BY <1>1, RangeIs
<1> HIDE DEF N, r, s, l, at, to
<1>4. at <= to BY <1>2, <1>3
<1> QED BY <1>2, <1>3, <1>4 DEF at, to, r, N

LEMMA StillNext ==
  ASSUME Types, Types', StillOK, [Next]_vars
  PROVE  StillOK'
<1> SUFFICES ASSUME Still' PROVE Knows'
  BY DEF StillOK
<1> DEFINE s == Skip(walk)
           l == walk.limit
           N == Cardinality(box)
<1>0. /\ walk \in WalkType /\ hist \in HistType /\ s \in Nat /\ l \in Nat \ {0}
      /\ box \subseteq Msgs /\ N \in Nat
  BY BoxIs, SkipIs
<1>1. CASE UNCHANGED vars
  BY <1>1 DEF vars, StillOK, Still, Walking, Knows, Skip, PageRange, OldestFirst
<1>2. CASE FirstPage
  <2>1. PICK k \in Methods, n \in 1..MaxLimit : Asks(walk', k, n, 1) BY <1>2, FirstPageIs
  <2>2. /\ walk' \in WalkType /\ walk'.page = 1 /\ walk'.pc \in {"open", "query"}
        /\ walk'.pc = "query" => walk'.todo = {"count", "page"}
    BY <2>1, MethodsAssumption DEF Asks, AllMethods, Sessions, Queries
  <2>3. Skip(walk') = 0 BY <2>2, SkipIs
  <2>4. box' = hist'.start /\ hist'.skipped = {} BY <1>2, FirstPageIs
  <2> QED BY <2>2, <2>3, <2>4 DEF Knows
<1>3. CASE Open
  <2> DEFINE r == PageRange(walk, N)
  <2>1. /\ UNCHANGED <<box, tie, hist>> /\ walk.pc = "open" /\ SamePage(walk', walk)
        /\ walk'.pc \in {"answered", "fetch"}
    BY <1>3, OpenIs
  <2>2. Skip(walk') = s /\ walk'.limit = l /\ walk'.method = walk.method
        /\ PageRange(walk', N) = r
    BY <2>1, SamePlace, SameRange
  <2>3. Knows BY <2>1 DEF StillOK, Still, Walking
  <2>4. /\ box = hist.start /\ (s = 0 \/ s < N)
        /\ walk.method \in Queries => hist.skipped = {}
    BY <2>1, <2>3 DEF Knows
  <2>5. CASE N = 0
    <3>1. walk'.pc = "answered" /\ ~walk'.more BY <1>3, <2>5, OpenIs
    <3>2. ~(s + l < N) BY <1>0, <2>5
    <3> QED BY <2>1, <2>2, <2>4, <3>1, <3>2 DEF Knows
  <2>6. CASE N > 0
    <3>1. /\ walk'.pc = "fetch" /\ walk'.total = N /\ walk'.view = OldestFirst(box)
          /\ walk'.at = r.at /\ walk'.to = r.to
      BY <1>3, <2>6, OpenIs
    <3>2. walk.method \in Sessions BY <2>1 DEF Types, WalkOK
    <3>3. r.at \in Nat /\ r.to \in Nat /\ r.at <= r.to
      BY <2>4, <2>6, <3>2, RangeNotEmpty
    <3>4. OldestFirst(box)' = OldestFirst(box) BY <2>1 DEF OldestFirst
    <3> HIDE DEF r, s, l, N
    <3>5. r.at <= walk'.at /\ walk'.at <= walk'.to + 1 BY <3>1, <3>3
    <3> QED BY <2>1, <2>2, <2>4, <3>1, <3>4, <3>5 DEF Knows, r, N, s, l
  <2> QED BY <1>0, <2>5, <2>6
<1>4. CASE Retrieve \/ RetrieveFails
  <2>1. /\ UNCHANGED <<box, tie>> /\ walk.pc = "fetch" /\ walk'.pc = "fetch"
        /\ SamePage(walk', walk) /\ walk.at <= walk.to /\ walk'.at = walk.at + 1
        /\ walk'.view = walk.view /\ walk'.total = walk.total /\ walk'.to = walk.to
        /\ ~hist.removed
    BY <1>4, RetrieveIs, RetrieveFailsIs DEF Still
  <2>2. hist'.start = hist.start /\ ~hist.grew
    BY <1>4, <2>1, RetrieveIs, RetrieveFailsIs DEF Still
  <2>3. /\ Skip(walk') = s /\ walk'.limit = l /\ walk'.method = walk.method
        /\ PageRange(walk', N) = PageRange(walk, N)
    BY <2>1, SamePlace, SameRange
  <2>4. Knows BY <2>1, <2>2 DEF StillOK, Still, Walking
  <2>5. walk.method \notin Queries BY <2>1 DEF Types, WalkOK, Sessions, Queries
  <2>6. walk.at \in Nat /\ walk.to \in Nat BY <1>0 DEF WalkType
  <2>7. OldestFirst(box)' = OldestFirst(box) BY <2>1 DEF OldestFirst
  <2>8. PageRange(walk, N).at <= walk.at => PageRange(walk, N).at <= walk'.at
    <3>1. PageRange(walk, N).at \in Nat
      <4>2. walk.total = N BY <2>1, <2>4 DEF Knows
      <4>1. N \in 1..MaxMsgs
        <5>1. walk.total \in 0..MaxMsgs /\ walk.total > 0 BY <2>1 DEF Types, WalkOK, WalkType
        <5> HIDE DEF N
        <5> QED BY <4>2, <5>1
      <4> QED BY <1>0, <4>1, RangeIs
    <3> QED BY <2>1, <2>6, <3>1
  <2>9. walk'.at <= walk'.to + 1 BY <2>1, <2>6
  <2> QED BY <2>1, <2>2, <2>3, <2>4, <2>5, <2>7, <2>8, <2>9 DEF Knows
<1>5. CASE FetchEnd \/ Reply
  <2>1. /\ UNCHANGED <<box, tie>> /\ Answers(walk', walk, HasMore(walk, walk.total))
        /\ \/ walk.pc = "fetch" /\ walk.at > walk.to
           \/ walk.pc = "query" /\ walk.todo = {}
        /\ ~hist.removed
    BY <1>5, AnsweredIs DEF Still
  <2>2. /\ hist'.start = hist.start /\ hist'.skipped = hist.skipped /\ ~hist.grew
    BY <1>5, <2>1, AnsweredIs DEF Still
  <2>3. SamePage(walk', walk) /\ walk'.pc = "answered" /\ (walk'.more <=> s + l < walk.total)
    BY <2>1 DEF Answers, HasMore
  <2>4. Skip(walk') = s /\ walk'.limit = l /\ walk'.method = walk.method
    BY <2>1, <2>3, SamePlace
  <2>5. Knows BY <2>1, <2>2 DEF StillOK, Still, Walking
  <2>6. walk.total = N BY <2>1, <2>5 DEF Knows
  <2> QED BY <2>1, <2>2, <2>3, <2>4, <2>5, <2>6 DEF Knows
<1>6. CASE Count \/ Page
  <2>1. /\ UNCHANGED <<box, tie, hist>> /\ SamePage(walk', walk)
        /\ walk.pc = "query" /\ walk'.pc = "query"
    BY <1>6, CountIs, PageIs
  <2>2. "count" \in walk'.todo \/ walk'.total = N \/ ("count" \notin walk.todo /\ walk'.total = walk.total)
    BY <1>6, CountIs, PageIs
  <2>3. Skip(walk') = s /\ walk'.limit = l /\ walk'.method = walk.method
    BY <2>1, SamePlace
  <2>4. Knows BY <2>1 DEF StillOK, Still, Walking
  <2> QED BY <2>1, <2>2, <2>3, <2>4 DEF Knows
<1>7. CASE NextPage
  <2>1. /\ UNCHANGED <<box, tie, hist>> /\ walk.pc = "answered" /\ walk.more
        /\ Asks(walk', walk.method, walk.limit, walk.page + 1)
    BY <1>7, NextPageIs
  <2>2. walk.method \in Sessions \cup Queries
    BY <2>1, MethodsAssumption DEF Types, WalkOK, AllMethods, Sessions, Queries
  <2>3. /\ walk' \in WalkType /\ walk'.page = walk.page + 1 /\ walk'.limit = walk.limit
        /\ walk'.method = walk.method /\ walk'.pc \in {"open", "query"}
        /\ walk'.pc = "query" => walk'.todo = {"count", "page"}
    BY <2>1, <2>2 DEF Asks
  <2>4. Skip(walk') = s + l BY <1>0, <2>3, SkipIs
  <2>5. Knows BY <2>1 DEF StillOK, Still, Walking
  <2>6. s + l < N BY <2>1, <2>5 DEF Knows
  <2> QED BY <2>1, <2>3, <2>4, <2>5, <2>6 DEF Knows
<1>8. CASE Fails \/ EndWalk \/ Disappear BY <1>8, Over DEF Still
<1>9. CASE Arrive
  <2>1. UNCHANGED walk /\ ~hist.removed /\ Walking BY <1>9, ArriveIs DEF Still, Walking
  <2> QED BY <1>9, <2>1, ArriveIs DEF Still, Walking
<1> QED BY <1>1, <1>2, <1>3, <1>4, <1>5, <1>6, <1>7, <1>8, <1>9 DEF Next, Step

-----------------------------------------------------------------------------
(* Every message once *)

Times(cond) == IF cond THEN 1 ELSE 0

\* The session has come past the number of m.
Fetched(m) ==
  LET i == Older(box, m) + 1 IN
  PageRange(walk, Cardinality(box)).at <= i /\ i < walk.at

Counted(m) ==
  LET s == Skip(walk)
      e == Skip(walk) + walk.limit
      ok == m \notin hist.skipped
  IN
  /\ walk.pc # "answered" => hist.seen[m] = Times(Place(m) < s /\ ok)
  /\ walk.pc = "open" => (~ok => Place(m) < s) /\ Copies(walk.emails, m) = 0
  /\ walk.pc = "fetch" => /\ ~ok => Place(m) < s \/ Fetched(m)
                          /\ Copies(walk.emails, m) = Times(Fetched(m) /\ ok)
  /\ walk.pc = "query" =>
       Copies(walk.emails, m) = Times("page" \notin walk.todo /\ s <= Place(m) /\ Place(m) < e)
  /\ walk.pc = "answered" => /\ hist.seen[m] = Times(Place(m) < e /\ ok)
                             /\ ~ok => Place(m) < e

Once == Still /\ SteadyOrder => \A m \in box : Counted(m)

\* What a step finds in a mailbox that stays as it is.
LEMMA NextInSession ==
  ASSUME Types, Knows, walk.pc = "fetch", walk.at <= walk.to
  PROVE  LET x == walk.view[walk.at] IN
         /\ x \in box /\ Older(box, x) + 1 = walk.at
         /\ \A m \in box : Older(box, m) + 1 = walk.at <=> m = x
         /\ Skip(walk) <= Place(x) /\ Place(x) < Skip(walk) + walk.limit
<1> DEFINE x == walk.view[walk.at]
           N == Cardinality(box)
           r == PageRange(walk, N)
<1>1. /\ walk.view = OldestFirst(box) /\ walk.to = r.to /\ r.at <= walk.at
      /\ Skip(walk) = 0 \/ Skip(walk) < N
  BY DEF Knows
<1>2. walk \in WalkType /\ walk.method \in Sessions /\ walk.at \in Nat \ {0} /\ walk.to \in Nat
  BY DEF Types, WalkOK, WalkType
<1>3. N \in 1..MaxMsgs
  <2>1. walk.total = N /\ walk.total > 0 /\ walk.total \in 0..MaxMsgs
    BY DEF Knows, Types, WalkOK, WalkType
  <2> HIDE DEF N
  <2> QED BY <2>1
<1>4. walk.at \in 1..N
  <2>1. walk.to \in 1..N BY <1>1, <1>2, <1>3, RangeIs
  <2> HIDE DEF N
  <2> QED BY <1>2, <1>3, <2>1
<1>5. x \in box /\ Older(box, x) = walk.at - 1 BY <1>1, <1>4, ViewIs
<1>6. ASSUME NEW m \in box, Older(box, m) + 1 = walk.at PROVE m = x
  BY <1>1, <1>6, ViewIs
<1>7. Older(box, x) + 1 = walk.at BY <1>2, <1>5
<1>8. Skip(walk) <= Place(x) /\ Place(x) < Skip(walk) + walk.limit
  BY <1>1, <1>2, <1>5, <1>7, Covers
<1> QED BY <1>5, <1>6, <1>7, <1>8

LEMMA OnceNext ==
  ASSUME Types, Types', StillOK, StillOK', Once, [Next]_vars
  PROVE  Once'
<1> SUFFICES ASSUME Still', SteadyOrder', NEW m \in box' PROVE Counted(m)'
  BY DEF Once
<1> DEFINE s == Skip(walk)
           l == walk.limit
           p == Place(m)
           N == Cardinality(box)
           i == Older(box, m) + 1
<1>0. /\ walk \in WalkType /\ hist \in HistType /\ s \in Nat /\ l \in Nat \ {0}
      /\ box \subseteq Msgs /\ N \in Nat
  BY BoxIs, SkipIs
<1>1. ASSUME Still, SteadyOrder, box' = box
      PROVE  Counted(m) /\ Knows /\ m \in box /\ m \in Msgs /\ p \in Nat /\ p < N /\ i \in Nat
  BY <1>1, PlaceIs DEF Once, StillOK
<1>2. CASE UNCHANGED vars
  BY <1>1, <1>2 DEF vars, Still, Walking, SteadyOrder, ReceivedAt, Counted, Place, Older, Newer,
                    Fetched, PageRange, Skip
<1>3. CASE FirstPage
  <2>1. PICK k \in Methods, n \in 1..MaxLimit : Asks(walk', k, n, 1) BY <1>3, FirstPageIs
  <2>2. /\ walk' \in WalkType /\ walk'.page = 1 /\ walk'.pc \in {"open", "query"}
        /\ walk'.pc = "query" => walk'.todo = {"count", "page"}
        /\ walk'.emails = <<>>
    BY <2>1, MethodsAssumption DEF Asks, AllMethods, Sessions, Queries
  <2>3. Skip(walk') = 0 BY <2>2, SkipIs
  <2>4. m \in box /\ box' = box /\ hist'.skipped = {} /\ m \in Msgs /\ hist'.seen[m] = 0
    BY <1>0, <1>3, FirstPageIs
  <2>5. Place(m)' \in Nat
    <3>1. Older(box, m) \in Nat /\ Newer(box, m) \in Nat BY <2>4, PlaceIs
    <3> QED BY <2>4, <3>1 DEF Place
  <2>6. Copies(walk'.emails, m) = 0
    <3>1. <<>> \in Seq(Msgs) /\ \A j \in DOMAIN <<>> : <<>>[j] # m OBVIOUS
    <3>2. Copies(<<>>, m) = 0 BY <3>1, CopiesIs
    <3> QED BY <2>2, <3>2
  <2> QED BY <2>2, <2>3, <2>4, <2>5, <2>6 DEF Counted, Times
<1>4. CASE Open
  <2> DEFINE r == PageRange(walk, N)
  <2>1. UNCHANGED <<box, tie, hist>> /\ walk.pc = "open" /\ SamePage(walk', walk)
        /\ walk'.emails = walk.emails
    BY <1>4, OpenIs
  <2>2. /\ Skip(walk') = s /\ walk'.limit = l /\ Place(m)' = p /\ SteadyOrder
        /\ PageRange(walk', N) = r
    BY <2>1, SamePlace, SameRange
  <2>3. Counted(m) /\ m \in box /\ p \in Nat /\ p < N /\ i \in Nat
    BY <1>1, <2>1, <2>2 DEF Still, Walking
  <2>4. walk'.pc = "fetch" /\ walk'.at = r.at
    <3>1. N # 0
      <4> HIDE DEF N, p
      <4> QED BY <1>0, <2>3
    <3> QED BY <1>4, <3>1, OpenIs
  <2>5. ~Fetched(m)'
    <3>1. r.at \in Nat
      <4>1. N \in 1..MaxMsgs BY <2>3, PlaceIs
      <4> QED BY <1>0, <4>1, RangeIs
    <3> DEFINE at == r.at
    <3>2. Fetched(m)' <=> at <= i /\ i < at BY <2>1, <2>2, <2>4 DEF Fetched, Older
    <3> HIDE DEF at, i
    <3>3. at \in Nat BY <3>1 DEF at
    <3> QED BY <2>3, <3>2, <3>3
  <2> QED BY <2>1, <2>2, <2>3, <2>4, <2>5 DEF Counted, Times
<1>5. CASE Retrieve \/ RetrieveFails
  <2> DEFINE x == walk.view[walk.at]
             at == PageRange(walk, N).at
  <2>1. /\ UNCHANGED <<box, tie>> /\ walk.pc = "fetch" /\ walk'.pc = "fetch"
        /\ SamePage(walk', walk) /\ walk.at <= walk.to /\ walk'.at = walk.at + 1
        /\ ~hist.removed
    BY <1>5, RetrieveIs, RetrieveFailsIs DEF Still
  <2>2. ~hist.grew /\ hist'.seen = hist.seen
    BY <1>5, <2>1, RetrieveIs, RetrieveFailsIs DEF Still
  <2>3. /\ Skip(walk') = s /\ walk'.limit = l /\ Place(m)' = p /\ SteadyOrder
        /\ PageRange(walk', N) = PageRange(walk, N)
    BY <2>1, SamePlace, SameRange
  <2>4. Counted(m) /\ Knows /\ m \in box /\ m \in Msgs /\ p \in Nat /\ i \in Nat
    BY <1>1, <2>1, <2>2, <2>3 DEF Still, Walking
  <2>5. /\ x \in box /\ (i = walk.at <=> m = x) /\ s <= Place(x)
    BY <2>1, <2>4, NextInSession
  <2>6. walk.at \in Nat /\ at \in Nat /\ at <= walk.at
    <3>1. N \in 1..MaxMsgs BY <2>4, PlaceIs
    <3>2. at \in Nat BY <1>0, <3>1, RangeIs
    <3>3. at <= walk.at BY <2>1, <2>4 DEF Knows
    <3> QED BY <1>0, <3>2, <3>3 DEF WalkType
  <2>7. /\ Fetched(m) <=> at <= i /\ i < walk.at
        /\ Fetched(m)' <=> at <= i /\ i < walk'.at
    <3>1. Fetched(m) <=> at <= i /\ i < walk.at BY DEF Fetched
    <3>2. Fetched(m)' <=> at <= i /\ i < walk'.at BY <2>1, <2>3 DEF Fetched, Older
    <3> QED BY <3>1, <3>2
  <2> HIDE DEF at, i, x, s, p, l, N
  <2>8. /\ m = x => ~Fetched(m) /\ Fetched(m)'
        /\ m # x => (Fetched(m)' <=> Fetched(m))
    BY <2>1, <2>4, <2>5, <2>6, <2>7
  <2>9. m = x => p >= s /\ ~(p < s)
    <3>1. m = x => p >= s BY <2>5 DEF p
    <3> QED BY <1>0, <2>4, <3>1
  <2>10. /\ m \notin hist.skipped => hist.seen[m] = Times(p < s)
         /\ m \in hist.skipped => hist.seen[m] = 0 /\ (p < s \/ Fetched(m))
         /\ Copies(walk.emails, m) = Times(Fetched(m) /\ m \notin hist.skipped)
    BY <2>1, <2>4 DEF Counted, Times, p, s
  <2>11. CASE Retrieve
    <3>1. hist' = hist /\ walk'.emails = Append(walk.emails, x) BY <2>11, RetrieveIs DEF x
    <3>2. Copies(walk'.emails, m) = Copies(walk.emails, m) + IF x = m THEN 1 ELSE 0
      <4>1. x \in Msgs /\ walk.emails \in Seq(Msgs) BY <1>0, <2>5 DEF WalkType
      <4> QED BY <3>1, <4>1, CopiesIs
    <3>3. Copies(walk'.emails, m) = Times(Fetched(m)' /\ m \notin hist.skipped)
      <4>1. CASE m = x BY <2>8, <2>9, <2>10, <3>2, <4>1 DEF Times
      <4>2. CASE m # x BY <2>8, <2>10, <3>2, <4>2 DEF Times
      <4> QED BY <4>1, <4>2
    <3>4. m \in hist.skipped => p < s \/ Fetched(m)' BY <2>8, <2>10
    <3>5. hist.seen[m] = Times(p < s /\ m \notin hist.skipped) BY <2>10 DEF Times
    <3> QED BY <2>1, <2>3, <3>1, <3>3, <3>4, <3>5 DEF Counted
  <2>12. CASE RetrieveFails
    <3>1. hist'.skipped = hist.skipped \cup {x} /\ walk'.emails = walk.emails
      BY <2>1, <2>12, RetrieveFailsIs DEF x
    <3>2. Copies(walk'.emails, m) = Times(Fetched(m)' /\ m \notin hist'.skipped)
      <4>1. CASE m = x BY <2>8, <2>10, <3>1, <4>1 DEF Times
      <4>2. CASE m # x BY <2>8, <2>10, <3>1, <4>2 DEF Times
      <4> QED BY <4>1, <4>2
    <3>3. m \in hist'.skipped => p < s \/ Fetched(m)' BY <2>8, <2>10, <3>1
    <3>4. hist'.seen[m] = Times(p < s /\ m \notin hist'.skipped)
      <4>1. CASE m = x BY <2>2, <2>9, <2>10, <3>1, <4>1 DEF Times
      <4>2. CASE m # x BY <2>2, <2>10, <3>1, <4>2 DEF Times
      <4> QED BY <4>1, <4>2
    <3> QED BY <2>1, <2>3, <3>2, <3>3, <3>4 DEF Counted
  <2> QED BY <1>5, <2>11, <2>12
<1>6. CASE FetchEnd \/ Reply
  <2> DEFINE c == Copies(walk.emails, m)
             ok == m \notin hist.skipped
  <2>1. /\ UNCHANGED <<box, tie>> /\ Answers(walk', walk, HasMore(walk, walk.total))
        /\ \/ walk.pc = "fetch" /\ walk.at > walk.to
           \/ walk.pc = "query" /\ walk.todo = {}
        /\ ~hist.removed
    BY <1>6, AnsweredIs DEF Still
  <2>2. /\ \A n \in Msgs : hist'.seen[n] = hist.seen[n] + Copies(walk.emails, n)
        /\ hist'.skipped = hist.skipped /\ ~hist.grew
    BY <1>6, <2>1, AnsweredIs DEF Still
  <2>3. SamePage(walk', walk) /\ walk'.pc = "answered"
    BY <2>1 DEF Answers
  <2>4. Skip(walk') = s /\ walk'.limit = l /\ Place(m)' = p /\ SteadyOrder
    BY <2>1, <2>3, SamePlace
  <2>5. Counted(m) /\ Knows /\ m \in box /\ m \in Msgs /\ p \in Nat /\ i \in Nat
    BY <1>1, <2>1, <2>2, <2>4 DEF Still, Walking
  <2>6. hist'.seen[m] = hist.seen[m] + c BY <2>2, <2>5
  <2>7. hist.seen[m] = Times(p < s /\ ok) BY <2>1, <2>5 DEF Counted
  <2>8. c = Times(s <= p /\ p < s + l /\ ok) /\ (~ok => p < s + l)
    <3>1. CASE walk.pc = "fetch" /\ walk.at > walk.to
      <4> DEFINE r == PageRange(walk, N)
      <4>1. walk.to = r.to /\ walk.at <= walk.to + 1 /\ (s = 0 \/ s < N)
        BY <2>5, <3>1 DEF Knows
      <4>2. walk.method \in Sessions BY <3>1 DEF Types, WalkOK
      <4>3. /\ s <= p /\ p < s + l => r.at <= i /\ i <= r.to
            /\ r.at <= i /\ i <= r.to => s <= p /\ p < s + l
        BY <2>5, <4>1, <4>2, Covers
      <4>4. walk.at \in Nat /\ walk.to \in Nat BY <1>0 DEF WalkType
      <4>5. Fetched(m) <=> r.at <= i /\ i < walk.at BY DEF Fetched
      <4> DEFINE first == r.at
                 to == r.to
      <4> HIDE DEF first, to, i, p, s, l, c
      <4>6. i < walk.at <=> i <= walk.to BY <2>5, <3>1, <4>1, <4>4
      <4>7. Fetched(m) <=> s <= p /\ p < s + l BY <4>1, <4>3, <4>5, <4>6
      <4>8. c = Times(Fetched(m) /\ ok) /\ (~ok => p < s \/ Fetched(m))
        BY <2>5, <3>1 DEF Counted, p, s, c
      <4>9. p < s => p < s + l BY <1>0, <2>5
      <4> QED BY <4>7, <4>8, <4>9 DEF Times
    <3>2. CASE walk.pc = "query" /\ walk.todo = {}
      <4>1. walk.method \in Queries BY <3>2 DEF Types, WalkOK
      <4>2. ok BY <2>5, <4>1 DEF Knows
      <4>3. c = Times(s <= p /\ p < s + l) BY <2>5, <3>2 DEF Counted, Times
      <4> QED BY <4>2, <4>3 DEF Times
    <3> QED BY <2>1, <3>1, <3>2
  <2> HIDE DEF c, p, s, l
  <2>9. hist'.seen[m] = Times(p < s + l /\ ok)
    BY <1>0, <2>5, <2>6, <2>7, <2>8 DEF Times
  <2> QED BY <2>2, <2>3, <2>4, <2>8, <2>9 DEF Counted
<1>7. CASE Count
  <2>1. /\ UNCHANGED <<box, tie, hist>> /\ SamePage(walk', walk)
        /\ walk.pc = "query" /\ walk'.pc = "query" /\ walk'.emails = walk.emails
        /\ walk'.todo = walk.todo \ {"count"}
    BY <1>7, CountIs
  <2>2. Skip(walk') = s /\ walk'.limit = l /\ Place(m)' = p /\ SteadyOrder
    BY <2>1, SamePlace
  <2>3. Counted(m) BY <1>1, <2>1, <2>2 DEF Still, Walking
  <2>4. "page" \in walk'.todo <=> "page" \in walk.todo BY <2>1
  <2> QED BY <2>1, <2>2, <2>3, <2>4 DEF Counted
<1>8. CASE Page
  <2>1. /\ UNCHANGED <<box, tie, hist>> /\ SamePage(walk', walk)
        /\ walk.pc = "query" /\ walk'.pc = "query" /\ walk'.todo = walk.todo \ {"page"}
    BY <1>8, PageIs
  <2>2. PICK rank :
          /\ \A n \in box : NoTie(box) => rank[n] = Newer(box, n)
          /\ \A n \in box : Copies(walk'.emails, n) = IF s <= rank[n] /\ rank[n] < s + l THEN 1 ELSE 0
    BY <1>8, PageIs
  <2>3. Skip(walk') = s /\ walk'.limit = l /\ Place(m)' = p /\ SteadyOrder
    BY <2>1, SamePlace
  <2>4. Counted(m) /\ m \in box BY <1>1, <2>1, <2>3 DEF Still, Walking
  <2>5. walk.method \in Queries BY <2>1 DEF Types, WalkOK
  <2>6. NoTie(box) /\ p = Newer(box, m)
    BY <2>3, <2>5 DEF SteadyOrder, NoTie, Queries, Place
  <2>7. Copies(walk'.emails, m) = IF s <= p /\ p < s + l THEN 1 ELSE 0 BY <2>2, <2>4, <2>6
  <2>8. "page" \notin walk'.todo BY <2>1
  <2> QED BY <2>1, <2>3, <2>4, <2>7, <2>8 DEF Counted, Times
<1>9. CASE NextPage
  <2>1. /\ UNCHANGED <<box, tie, hist>> /\ walk.pc = "answered"
        /\ Asks(walk', walk.method, walk.limit, walk.page + 1)
    BY <1>9, NextPageIs
  <2>2. walk.method \in Sessions \cup Queries
    BY <2>1, MethodsAssumption DEF Types, WalkOK, AllMethods, Sessions, Queries
  <2>3. /\ walk' \in WalkType /\ walk'.page = walk.page + 1 /\ walk'.limit = walk.limit
        /\ walk'.method = walk.method /\ walk'.pc \in {"open", "query"}
        /\ walk'.pc = "query" => walk'.todo = {"count", "page"}
        /\ walk'.emails = <<>>
    BY <2>1, <2>2 DEF Asks
  <2>4. Skip(walk') = s + l BY <1>0, <2>3, SkipIs
  <2>5. Place(m)' = p BY <2>1, <2>3 DEF Place, Older, Newer
  <2>6. SteadyOrder BY <2>1, <2>3 DEF SteadyOrder, ReceivedAt
  <2>7. Counted(m) BY <1>1, <2>1, <2>6 DEF Still, Walking
  <2>8. Copies(walk'.emails, m) = 0
    <3>1. <<>> \in Seq(Msgs) /\ \A j \in DOMAIN <<>> : <<>>[j] # m OBVIOUS
    <3>2. Copies(<<>>, m) = 0 BY <3>1, CopiesIs
    <3> QED BY <2>3, <3>2
  <2> QED BY <2>1, <2>3, <2>4, <2>5, <2>7, <2>8 DEF Counted, Times
<1>10. CASE Fails \/ EndWalk \/ Disappear BY <1>10, Over DEF Still
<1>11. CASE Arrive
  <2>1. UNCHANGED walk /\ ~hist.removed /\ Walking BY <1>11, ArriveIs DEF Still, Walking
  <2> QED BY <1>11, <2>1, ArriveIs DEF Still, Walking
<1> QED BY <1>2, <1>3, <1>4, <1>5, <1>6, <1>7, <1>8, <1>9, <1>10, <1>11 DEF Next, Step

-----------------------------------------------------------------------------
(* Pages in order *)

\* Messages of one time come in any order: the first and last place m may have.
Lowest(m) == IF walk.method = "pop3" THEN Older(box, m) ELSE Later(box, m)
Highest(m) == IF walk.method = "pop3" THEN Older(box, m) ELSE NoEarlier(box, m) - 1

Ordered ==
  LET s == Skip(walk)
      e == Skip(walk) + walk.limit
  IN
  /\ \A m \in Msgs : hist.seen[m] > 0 =>
       m \in box /\ Lowest(m) < (IF walk.pc = "answered" THEN e ELSE s)
  /\ \A m \in hist.before :
       m \in Msgs /\ hist.seen[m] > 0 /\ (walk.pc = "answered" => Lowest(m) < s)
  /\ \A n \in DOMAIN walk.emails :
       LET m == walk.emails[n] IN m \in box /\ s <= Highest(m) /\ Lowest(m) < e

OrderOK == Still => Ordered

LEMMA Bounds ==
  ASSUME Types, NEW m \in box
  PROVE  /\ Lowest(m) \in Nat /\ Lowest(m) <= Place(m)
         /\ Highest(m) \in Int /\ Place(m) <= Highest(m)
         /\ Later(box, m) \in Nat /\ NoEarlier(box, m) \in Nat
<1> DEFINE L == {n \in box : ReceivedAt(n) > ReceivedAt(m)}
           F == {n \in box : n > m}
           E == {n \in box : ReceivedAt(n) >= ReceivedAt(m)}
<1>1. IsFiniteSet(box) /\ box \subseteq Nat /\ tie \in Nat BY BoxIs, MsgsFinite
<1>2. L \subseteq F /\ F \cup {m} \subseteq E /\ m \notin F
  <2>1. \A n \in box : /\ ReceivedAt(n) > ReceivedAt(m) => n > m
                       /\ n > m => ReceivedAt(n) >= ReceivedAt(m)
    BY <1>1 DEF ReceivedAt
  <2>2. ReceivedAt(m) >= ReceivedAt(m) /\ ~(m > m) BY <1>1 DEF ReceivedAt
  <2> QED BY <2>1, <2>2
<1>3. IsFiniteSet(F) /\ IsFiniteSet(E)
  <2>1. F \subseteq box /\ E \subseteq box OBVIOUS
  <2> HIDE DEF F, E
  <2> QED BY <1>1, <2>1, FS_Subset
<1> HIDE DEF L, F, E
<1>4. Cardinality(L) \in Nat /\ Cardinality(L) <= Cardinality(F) BY <1>2, <1>3, FS_Subset, FS_CardinalityType
<1>5. Cardinality(F) \in Nat /\ Cardinality(F \cup {m}) = Cardinality(F) + 1
  BY <1>2, <1>3, FS_AddElement, FS_CardinalityType
<1>6. Cardinality(E) \in Nat /\ Cardinality(F \cup {m}) <= Cardinality(E)
  BY <1>2, <1>3, FS_Subset, FS_CardinalityType
<1>7. Later(box, m) = Cardinality(L) /\ Newer(box, m) = Cardinality(F)
      /\ NoEarlier(box, m) = Cardinality(E)
  BY DEF Later, Newer, NoEarlier, L, F, E
<1>8. Older(box, m) \in Nat BY PlaceIs
<1> QED BY <1>4, <1>5, <1>6, <1>7, <1>8 DEF Lowest, Highest, Place

LEMMA OrderNext ==
  ASSUME Types, Types', StillOK, OrderOK, [Next]_vars
  PROVE  OrderOK'
<1> SUFFICES ASSUME Still' PROVE Ordered'
  BY DEF OrderOK
<1> DEFINE s == Skip(walk)
           l == walk.limit
           N == Cardinality(box)
<1>0. /\ walk \in WalkType /\ hist \in HistType /\ s \in Nat /\ l \in Nat \ {0}
      /\ box \subseteq Msgs /\ N \in Nat
  BY BoxIs, SkipIs
<1>1. ASSUME UNCHANGED <<box, tie>>, walk'.method = walk.method
      PROVE  \A m : Lowest(m)' = Lowest(m) /\ Highest(m)' = Highest(m)
  BY <1>1 DEF Lowest, Highest, Older, Later, NoEarlier, ReceivedAt
<1>2. CASE UNCHANGED vars
  BY <1>1, <1>2 DEF vars, OrderOK, Still, Walking, Ordered, Skip
<1>3. CASE FirstPage
  <2>1. PICK k \in Methods, n \in 1..MaxLimit : Asks(walk', k, n, 1) BY <1>3, FirstPageIs
  <2>2. DOMAIN walk'.emails = {} BY <2>1 DEF Asks
  <2>3. hist'.before = {} /\ \A m \in Msgs : hist'.seen[m] = 0 BY <1>3, FirstPageIs
  <2> QED BY <2>2, <2>3 DEF Ordered
<1>4. CASE Open
  <2>1. /\ UNCHANGED <<box, tie, hist>> /\ walk.pc = "open" /\ SamePage(walk', walk)
        /\ walk'.emails = walk.emails
    BY <1>4, OpenIs
  <2>2. Skip(walk') = s /\ walk'.limit = l /\ \A m : Lowest(m)' = Lowest(m) /\ Highest(m)' = Highest(m)
    BY <1>1, <2>1, SamePlace
  <2>3. Ordered BY <2>1 DEF OrderOK, Still, Walking
  <2>4. \A m \in Msgs : hist.seen[m] > 0 => m \in box /\ Lowest(m) < s /\ Lowest(m) < s + l
    <3>1. ASSUME NEW m \in Msgs, hist.seen[m] > 0
          PROVE  m \in box /\ Lowest(m) < s /\ Lowest(m) < s + l
      <4>1. m \in box /\ Lowest(m) < s BY <2>1, <2>3, <3>1 DEF Ordered
      <4>2. Lowest(m) \in Nat BY <4>1, Bounds
      <4> QED BY <1>0, <4>1, <4>2
    <3> QED BY <3>1
  <2>5. \A m \in hist.before : m \in Msgs /\ hist.seen[m] > 0 BY <2>3 DEF Ordered
  <2>6. \A n \in DOMAIN walk.emails :
          LET m == walk.emails[n] IN m \in box /\ s <= Highest(m) /\ Lowest(m) < s + l
    BY <2>3 DEF Ordered
  <2> QED BY <2>1, <2>2, <2>4, <2>5, <2>6 DEF Ordered
<1>5. CASE Retrieve
  <2> DEFINE x == walk.view[walk.at]
  <2>1. /\ UNCHANGED <<box, tie, hist>> /\ walk.pc = "fetch" /\ walk'.pc = "fetch"
        /\ SamePage(walk', walk) /\ walk.at <= walk.to
        /\ walk'.emails = Append(walk.emails, x)
    BY <1>5, RetrieveIs
  <2>2. Skip(walk') = s /\ walk'.limit = l /\ \A m : Lowest(m)' = Lowest(m) /\ Highest(m)' = Highest(m)
    BY <1>1, <2>1, SamePlace
  <2>3. Ordered /\ Knows BY <2>1 DEF OrderOK, StillOK, Still, Walking
  <2>4. x \in box /\ s <= Place(x) /\ Place(x) < s + l BY <2>1, <2>3, NextInSession
  <2>5. s <= Highest(x) /\ Lowest(x) < s + l
    <3>1. /\ Lowest(x) \in Nat /\ Highest(x) \in Int /\ Lowest(x) <= Place(x)
          /\ Place(x) <= Highest(x) /\ Place(x) \in Nat
      BY <2>4, Bounds, PlaceIs
    <3> HIDE DEF x
    <3> QED BY <1>0, <2>4, <3>1
  <2>6. \A n \in DOMAIN walk'.emails : walk'.emails[n] = x \/ \E k \in DOMAIN walk.emails : walk'.emails[n] = walk.emails[k]
    <3>1. walk.emails \in Seq(Msgs) BY <1>0 DEF WalkType
    <3>2. x \in Msgs BY <1>0, <2>4
    <3> HIDE DEF x
    <3>3. /\ DOMAIN walk'.emails = 1..(Len(walk.emails) + 1) /\ walk'.emails[Len(walk.emails) + 1] = x
          /\ \A n \in 1..Len(walk.emails) : walk'.emails[n] = walk.emails[n]
      BY <2>1, <3>1, <3>2
    <3>4. DOMAIN walk.emails = 1..Len(walk.emails) /\ Len(walk.emails) \in Nat BY <3>1
    <3> QED BY <3>3, <3>4
  <2> HIDE DEF x
  <2> QED BY <2>1, <2>2, <2>3, <2>4, <2>5, <2>6 DEF Ordered
<1>6. CASE RetrieveFails
  <2>1. /\ UNCHANGED <<box, tie>> /\ walk.pc = "fetch" /\ walk'.pc = "fetch"
        /\ SamePage(walk', walk) /\ walk'.emails = walk.emails /\ ~hist.removed
    BY <1>6, RetrieveFailsIs DEF Still
  <2>2. hist'.seen = hist.seen /\ hist'.before = hist.before /\ ~hist.grew
    BY <1>6, <2>1, RetrieveFailsIs DEF Still
  <2>3. Skip(walk') = s /\ walk'.limit = l /\ \A m : Lowest(m)' = Lowest(m) /\ Highest(m)' = Highest(m)
    BY <1>1, <2>1, SamePlace
  <2>4. Ordered BY <2>1, <2>2 DEF OrderOK, Still, Walking
  <2> QED BY <2>1, <2>2, <2>3, <2>4 DEF Ordered
<1>7. CASE FetchEnd \/ Reply
  <2>1. /\ UNCHANGED <<box, tie>> /\ Answers(walk', walk, HasMore(walk, walk.total))
        /\ walk.pc \in {"fetch", "query"} /\ ~hist.removed
    BY <1>7, AnsweredIs DEF Still
  <2>2. /\ \A n \in Msgs : hist'.seen[n] = hist.seen[n] + Copies(walk.emails, n)
        /\ hist'.before = {m \in Msgs : hist.seen[m] > 0} /\ ~hist.grew
    BY <1>7, <2>1, AnsweredIs DEF Still
  <2>3. SamePage(walk', walk) /\ walk'.pc = "answered" /\ walk'.emails = walk.emails
    BY <2>1 DEF Answers
  <2>4. Skip(walk') = s /\ walk'.limit = l /\ \A m : Lowest(m)' = Lowest(m) /\ Highest(m)' = Highest(m)
    BY <1>1, <2>1, <2>3, SamePlace
  <2>5. Ordered BY <2>1, <2>2 DEF OrderOK, Still, Walking
  <2>6. ASSUME NEW m \in Msgs
        PROVE  hist.seen[m] \in Nat /\ Copies(walk.emails, m) \in Nat
    BY <1>0, CopiesIs DEF HistType, WalkType
  <2>7. ASSUME NEW m \in Msgs, hist'.seen[m] > 0 PROVE m \in box /\ Lowest(m) < s + l
    <3>1. hist.seen[m] > 0 \/ Copies(walk.emails, m) # 0 BY <2>2, <2>6, <2>7
    <3>2. CASE hist.seen[m] > 0
      <4>1. m \in box /\ Lowest(m) < s BY <2>1, <2>5, <3>2 DEF Ordered
      <4>2. Lowest(m) \in Nat BY <4>1, Bounds
      <4> QED BY <1>0, <4>1, <4>2
    <3>3. CASE Copies(walk.emails, m) # 0
      <4>1. PICK n \in DOMAIN walk.emails : walk.emails[n] = m BY <3>3, InPageIs DEF InPage
      <4> QED BY <2>5, <4>1 DEF Ordered
    <3> QED BY <3>1, <3>2, <3>3
  <2>8. ASSUME NEW m \in hist'.before PROVE m \in Msgs /\ hist'.seen[m] > 0 /\ Lowest(m) < s
    <3>1. m \in Msgs /\ hist.seen[m] > 0 BY <2>2
    <3>2. Lowest(m) < s BY <2>1, <2>5, <3>1 DEF Ordered
    <3>3. hist'.seen[m] > 0 BY <2>2, <2>6, <3>1
    <3> QED BY <3>1, <3>2, <3>3
  <2>9. \A n \in DOMAIN walk.emails :
          LET m == walk.emails[n] IN m \in box /\ s <= Highest(m) /\ Lowest(m) < s + l
    BY <2>5 DEF Ordered
  <2> QED BY <2>1, <2>3, <2>4, <2>7, <2>8, <2>9 DEF Ordered
<1>8. CASE Count
  <2>1. /\ UNCHANGED <<box, tie, hist>> /\ SamePage(walk', walk)
        /\ walk.pc = "query" /\ walk'.pc = "query" /\ walk'.emails = walk.emails
    BY <1>8, CountIs
  <2>2. Skip(walk') = s /\ walk'.limit = l /\ \A m : Lowest(m)' = Lowest(m) /\ Highest(m)' = Highest(m)
    BY <1>1, <2>1, SamePlace
  <2>3. Ordered BY <2>1 DEF OrderOK, Still, Walking
  <2> QED BY <2>1, <2>2, <2>3 DEF Ordered
<1>9. CASE Page
  <2>1. /\ UNCHANGED <<box, tie, hist>> /\ SamePage(walk', walk)
        /\ walk.pc = "query" /\ walk'.pc = "query"
    BY <1>9, PageIs
  <2>2. PICK rank :
          /\ \A m \in box : /\ rank[m] \in Nat
                            /\ Later(box, m) <= rank[m] /\ rank[m] < NoEarlier(box, m)
          /\ \A m \in box : Copies(walk'.emails, m) = IF s <= rank[m] /\ rank[m] < s + l THEN 1 ELSE 0
          /\ \A n \in DOMAIN walk'.emails :
               LET m == walk'.emails[n] IN m \in box /\ s <= rank[m] /\ rank[m] < s + l
    BY <1>9, PageIs
  <2>3. Skip(walk') = s /\ walk'.limit = l /\ \A m : Lowest(m)' = Lowest(m) /\ Highest(m)' = Highest(m)
    BY <1>1, <2>1, SamePlace
  <2>4. Ordered BY <2>1 DEF OrderOK, Still, Walking
  <2>5. walk.method # "pop3" BY <2>1 DEF Types, WalkOK, Queries
  <2>6. ASSUME NEW n \in DOMAIN walk'.emails
        PROVE  LET m == walk'.emails[n] IN m \in box /\ s <= Highest(m) /\ Lowest(m) < s + l
    <3> DEFINE m == walk'.emails[n]
    <3>1. m \in box /\ s <= rank[m] /\ rank[m] < s + l BY <2>2
    <3>2. Later(box, m) <= rank[m] /\ rank[m] < NoEarlier(box, m) BY <2>2, <3>1
    <3>3. /\ Lowest(m) = Later(box, m) /\ Highest(m) = NoEarlier(box, m) - 1
          /\ Lowest(m) \in Nat /\ Highest(m) \in Int
      BY <2>5, <3>1, Bounds DEF Lowest, Highest
    <3>4. rank[m] \in Nat /\ NoEarlier(box, m) \in Nat BY <2>2, <3>1, Bounds
    <3> HIDE DEF m
    <3> QED BY <1>0, <3>1, <3>2, <3>3, <3>4 DEF m
  <2> QED BY <2>1, <2>3, <2>4, <2>6 DEF Ordered
<1>10. CASE NextPage
  <2>1. /\ UNCHANGED <<box, tie, hist>> /\ walk.pc = "answered"
        /\ Asks(walk', walk.method, walk.limit, walk.page + 1)
    BY <1>10, NextPageIs
  <2>2. /\ walk' \in WalkType /\ walk'.page = walk.page + 1 /\ walk'.limit = walk.limit
        /\ walk'.method = walk.method /\ walk'.pc # "answered" /\ DOMAIN walk'.emails = {}
    BY <2>1 DEF Asks
  <2>3. Skip(walk') = s + l BY <1>0, <2>2, SkipIs
  <2>4. \A m : Lowest(m)' = Lowest(m) BY <1>1, <2>1, <2>2
  <2>5. Ordered BY <2>1 DEF OrderOK, Still, Walking
  <2> QED BY <2>1, <2>2, <2>3, <2>4, <2>5 DEF Ordered
<1>11. CASE Fails \/ EndWalk \/ Disappear BY <1>11, Over DEF Still
<1>12. CASE Arrive
  <2>1. UNCHANGED walk /\ ~hist.removed /\ Walking BY <1>12, ArriveIs DEF Still, Walking
  <2> QED BY <1>12, <2>1, ArriveIs DEF Still, Walking
<1> QED BY <1>2, <1>3, <1>4, <1>5, <1>6, <1>7, <1>8, <1>9, <1>10, <1>11, <1>12 DEF Next, Step

-----------------------------------------------------------------------------
(* Theorems *)

IInv == Types /\ Kept /\ Reach /\ StillOK /\ Once /\ OrderOK

LEMMA IInvInit == ASSUME Init PROVE IInv
<1>1. Types BY TypesInit
<1>2. ~Walking BY IdleIs DEF Init, Walking
<1> QED BY <1>1, <1>2 DEF IInv, Kept, Reach, StillOK, Once, OrderOK, Still

LEMMA IInvNext == ASSUME IInv, [Next]_vars PROVE IInv'
<1>1. Types' BY TypesNext DEF IInv
<1>2. Kept' BY KeptNext DEF IInv
<1>3. Reach' BY <1>1, <1>2, ReachNext DEF IInv
<1>4. StillOK' BY <1>1, StillNext DEF IInv
<1>5. Once' BY <1>1, <1>4, OnceNext DEF IInv
<1>6. OrderOK' BY <1>1, OrderNext DEF IInv
<1> QED BY <1>1, <1>2, <1>3, <1>4, <1>5, <1>6 DEF IInv

\* What a walk has seen, what it is still to be given, and what it knows of the
\* mailbox agree, whatever arrives and goes meanwhile.
THEOREM Invariant == Spec => []IInv
<1>1. Init => IInv BY IInvInit
<1>2. IInv /\ [Next]_vars => IInv' BY IInvNext
<1> QED BY <1>1, <1>2, PTL DEF Spec

LEMMA ReachIsEnough == ASSUME IInv PROVE NothingMissed
<1> SUFFICES ASSUME Complete, ~hist.removed, ~hist.skew, SteadyOrder,
                    NEW m \in hist.start \ hist.skipped
             PROVE  hist.seen[m] > 0
  BY DEF NothingMissed
<1>1. hist.seen[m] \in Nat BY DEF IInv, Types, HistType
<1>2. ~Ahead(m) BY DEF Complete, Ahead
<1>3. hist.seen[m] # 0 BY <1>2 DEF IInv, Reach, Complete, Walking
<1> QED BY <1>1, <1>3

\* Mail that arrives during a walk hides none that was there before: who follows
\* hasMore to the end has been given every message that could be retrieved, as
\* long as nothing is removed and, of Graph and the table, nothing arrived between
\* the count and the page of one answer.
THEOREM NothingIsMissed == Spec => []NothingMissed
<1>1. IInv => NothingMissed BY ReachIsEnough
<1> QED BY <1>1, Invariant, PTL

LEMMA OnceIsEnough == ASSUME IInv PROVE EachOnce
<1> SUFFICES ASSUME Complete, ~hist.removed, ~hist.grew, SteadyOrder, NEW m \in hist.start
             PROVE  hist.seen[m] = IF m \in hist.skipped THEN 0 ELSE 1
  BY DEF EachOnce
<1> DEFINE e == Skip(walk) + walk.limit
           N == Cardinality(box)
<1>1. Types /\ Still /\ walk.pc = "answered" /\ ~walk.more BY DEF IInv, Still, Walking, Complete
<1>2. Knows BY <1>1 DEF IInv, StillOK
<1>3. m \in box /\ ~(e < N) BY <1>1, <1>2 DEF Knows
<1>4. Counted(m) BY <1>1, <1>3 DEF IInv, Once
<1>5. hist.seen[m] = Times(Place(m) < e /\ m \notin hist.skipped) BY <1>1, <1>4 DEF Counted
<1>6. Place(m) < e
  <2>1. Place(m) \in Nat /\ Place(m) < N BY <1>1, <1>3, PlaceIs
  <2>2. e \in Nat /\ N \in Nat BY <1>1, BoxIs, SkipIs
  <2> HIDE DEF e, N
  <2> QED BY <1>3, <2>1, <2>2
<1> QED BY <1>5, <1>6 DEF Times

\* In a mailbox that does not change the pages are a partition: each message comes
\* exactly once, over all four ways of reading.
THEOREM PagesPartition == Spec => []EachOnce
<1>1. IInv => EachOnce BY OnceIsEnough
<1> QED BY <1>1, Invariant, PTL

LEMMA OrderIsEnough == ASSUME IInv PROVE PagesInOrder
<1> SUFFICES ASSUME walk.pc = "answered", ~hist.removed, ~hist.grew,
                    NEW n \in DOMAIN walk.emails, NEW m \in hist.before
             PROVE  IF walk.method = "pop3" THEN walk.emails[n] > m
                    ELSE ReceivedAt(walk.emails[n]) <= ReceivedAt(m)
  BY DEF PagesInOrder
<1> DEFINE x == walk.emails[n]
           s == Skip(walk)
<1>1. Types /\ Ordered BY DEF IInv, OrderOK, Still, Walking
<1>2. x \in box /\ s <= Highest(x) BY <1>1 DEF Ordered
<1>3. m \in box /\ Lowest(m) < s BY <1>1 DEF Ordered
<1>4. s \in Nat /\ Lowest(m) \in Nat /\ Highest(x) \in Int BY <1>1, <1>2, <1>3, BoxIs, SkipIs, Bounds
<1> HIDE DEF x, s
<1>5. Lowest(m) < Highest(x) BY <1>2, <1>3, <1>4
<1>6. IsFiniteSet(box) /\ box \subseteq Nat /\ tie \in Nat BY <1>1, BoxIs, MsgsFinite
<1>7. CASE walk.method = "pop3"
  <2> DEFINE A == {k \in box : k < m}
             B == {k \in box : k < x}
  <2>1. Lowest(m) = Cardinality(A) /\ Highest(x) = Cardinality(B)
    BY <1>7 DEF Lowest, Highest, Older
  <2>2. ~(x <= m)
    <3>1. SUFFICES ASSUME x <= m PROVE FALSE OBVIOUS
    <3>2. B \subseteq A BY <1>2, <1>3, <1>6, <3>1
    <3>3. IsFiniteSet(A)
      <4>1. A \subseteq box OBVIOUS
      <4> HIDE DEF A
      <4> QED BY <1>6, <4>1, FS_Subset
    <3> HIDE DEF A, B
    <3>4. Cardinality(B) <= Cardinality(A) BY <3>2, <3>3, FS_Subset
    <3> QED BY <1>4, <1>5, <2>1, <3>4
  <2>3. x \in Nat /\ m \in Nat BY <1>2, <1>3, <1>6
  <2>4. x > m BY <2>2, <2>3
  <2> QED BY <1>7, <2>4 DEF x
<1>8. CASE walk.method # "pop3"
  <2> DEFINE A == {k \in box : ReceivedAt(k) > ReceivedAt(m)}
             B == {k \in box : ReceivedAt(k) >= ReceivedAt(x)}
  <2>1. Lowest(m) = Cardinality(A) /\ Highest(x) = Cardinality(B) - 1 /\ Cardinality(B) \in Nat
    BY <1>1, <1>2, <1>8, Bounds DEF Lowest, Highest, Later, NoEarlier
  <2>2. \A k \in box : ReceivedAt(k) \in Nat BY <1>6 DEF ReceivedAt
  <2>3. ~(ReceivedAt(x) > ReceivedAt(m))
    <3>1. SUFFICES ASSUME ReceivedAt(x) > ReceivedAt(m) PROVE FALSE OBVIOUS
    <3>2. B \subseteq A
      <4>1. \A k \in box : ReceivedAt(k) >= ReceivedAt(x) => ReceivedAt(k) > ReceivedAt(m)
        BY <1>2, <1>3, <2>2, <3>1
      <4> QED BY <4>1
    <3>3. IsFiniteSet(A)
      <4>1. A \subseteq box OBVIOUS
      <4> HIDE DEF A
      <4> QED BY <1>6, <4>1, FS_Subset
    <3> HIDE DEF A, B
    <3>4. Cardinality(B) <= Cardinality(A) BY <3>2, <3>3, FS_Subset
    <3> QED BY <1>4, <1>5, <2>1, <3>4
  <2> QED BY <1>2, <1>3, <1>8, <2>2, <2>3 DEF x
<1> QED BY <1>7, <1>8

\* Page by page a walk goes back in time, over POP3 forward, unless the mailbox
\* changes, and whichever way the table has messages of one time.
THEOREM WalkInOrder == Spec => []PagesInOrder
<1>1. IInv => PagesInOrder BY OrderIsEnough
<1> QED BY <1>1, Invariant, PTL
=============================================================================
