--------------------------- MODULE GatewayProofs ---------------------------
(***************************************************************************)
(* Proofs about Gateway and the RateLimit it extends, for every number of   *)
(* paths and open requests, every limit and window: the type invariant,     *)
(* with what one tick of a window admits, and what the gauge counts.        *)
(***************************************************************************)
EXTENDS Gateway, Counting, TLAPS

Request == [path : Paths \cup {"none"}, pc : {"free", "handler", "refused", "ended"},
            connected : BOOLEAN]

\* What the count of a window admits.
Used(count) == IF count <= Limit THEN count ELSE Limit

\* What was admitted in the current tick was counted by the current window; what was
\* admitted before that window began, within reach, by at most one other.
Windows ==
  \A k \in Paths :
    /\ limits[k].age > Ttl => recent[k][0] = 0
    /\ limits[k].age <= Ttl => recent[k][0] <= limits[k].count
    /\ \A t \in 0..Ttl :
         recent[k][t] <= Used(limits[k].count) + IF t < limits[k].age THEN 0 ELSE Limit

\* An open request is on a path; only an open one has a client, and an answer on its
\* way always has.
Open == \A r \in Requests : /\ request[r].pc # "free" => request[r].path \in Paths
                            /\ request[r].pc = "free" => ~request[r].connected
                            /\ request[r].pc = "ended" => request[r].connected

Types == /\ TypeOK
         /\ request \in [Requests -> Request]
         /\ gauge \in [Paths -> Nat]
         /\ lost \in [Paths -> 0..MaxGone]

\* The inductive invariant.
IInv == Types /\ Windows /\ Open /\ GaugeAccounts

-----------------------------------------------------------------------------
(* The guard *)

LEMMA LimitInit == Init => TypeOK /\ Windows
BY LimitAssumption DEF Init, TypeOK, Windows, Used, Fresh, Quiet, CountMax

LEMMA LimitTick == TypeOK /\ Windows /\ Tick => TypeOK' /\ Windows'
<1> SUFFICES ASSUME TypeOK, Windows, Tick PROVE TypeOK' /\ Windows' OBVIOUS
<1> USE LimitAssumption DEF TypeOK
<1> DEFINE older(k) == IF limits[k].count = 0 \/ limits[k].age > Ttl THEN limits[k].age
                                                                     ELSE limits[k].age + 1
<1>0. CountMax \in Nat BY DEF CountMax
<1>1. \A k \in Paths : /\ limits[k] \in [count : 0..CountMax, age : 0..(Ttl + 1)]
                       /\ older(k) \in 0..(Ttl + 1)
  OBVIOUS
<1>2. limits' = [k \in Paths |-> [limits[k] EXCEPT !.age = older(k)]] BY DEF Tick
<1> HIDE DEF older
<1>3. /\ limits' \in [Paths -> [count : 0..CountMax, age : 0..(Ttl + 1)]]
      /\ \A k \in Paths : limits'[k].count = limits[k].count /\ limits'[k].age = older(k)
  BY <1>1, <1>2
<1>4. \A k \in Paths, t \in 0..Ttl : recent'[k][t] = IF t = 0 THEN 0 ELSE recent[k][t - 1]
  BY DEF Tick
<1>5. recent' \in [Paths -> [0..Ttl -> Nat]]
  <2>1. \A k \in Paths, t \in 0..Ttl : (IF t = 0 THEN 0 ELSE recent[k][t - 1]) \in Nat
    OBVIOUS
  <2> QED BY <2>1 DEF Tick
<1>6. \A k \in Paths : recent'[k][0] = 0 BY <1>4
<1>7. ASSUME NEW k \in Paths, NEW t \in 0..Ttl
      PROVE  recent'[k][t] <= Used(limits'[k].count) + IF t < limits'[k].age THEN 0 ELSE Limit
  <2>1. limits[k].count \in Nat /\ limits[k].age \in Nat BY <1>1
  <2>2. CASE t = 0 BY <1>3, <1>6, <2>1, <2>2, <1>1 DEF Used
  <2>3. CASE t # 0
    <3>1. t - 1 \in 0..Ttl BY <2>3
    <3>2. recent[k][t - 1] <= Used(limits[k].count) + IF t - 1 < limits[k].age THEN 0 ELSE Limit
      BY <3>1 DEF Windows
    <3>3. recent'[k][t] = recent[k][t - 1] /\ recent[k][t - 1] \in Nat BY <1>4, <2>3, <3>1
    <3>4. Used(limits[k].count) \in Nat BY <2>1 DEF Used
    <3>5. t < older(k) => t - 1 < limits[k].age BY <2>1 DEF older
    <3>6. older(k) \in Nat BY <1>1
    <3> HIDE DEF TypeOK
    <3> QED BY <1>3, <2>1, <3>2, <3>3, <3>4, <3>5, <3>6
  <2> QED BY <2>2, <2>3
<1>8. refused' \in [Paths -> BOOLEAN] BY DEF Tick
<1>9. Windows' BY <1>3, <1>6, <1>7 DEF Windows
<1> QED BY <1>3, <1>5, <1>6, <1>8, <1>9

\* A request is admitted only while the window's count, itself included, is within
\* the limit; a reset leaves what the window before it admitted.
LEMMA LimitActivate ==
  ASSUME TypeOK, Windows, NEW k \in Paths, CanActivate(k)
  PROVE  TypeOK' /\ Windows'
<1> USE LimitAssumption DEF TypeOK
<1> DEFINE record == Opened(limits[k])
           count == Counted(record)
           more == IF Admits(count) THEN 1 ELSE 0
           bound(r, t) == Used(r.count) + IF t < r.age THEN 0 ELSE Limit
<1>0. /\ limits[k] \in [count : 0..CountMax, age : 0..(Ttl + 1)] /\ recent[k] \in [0..Ttl -> Nat]
      /\ CountMax \in Nat
  BY DEF CountMax
<1>1. /\ record \in [count : 0..CountMax, age : 0..(Ttl + 1)] /\ record.age <= Ttl
      /\ recent[k][0] <= record.count /\ recent[k][0] <= Limit
      /\ \A t \in 0..Ttl : recent[k][t] <= bound(record, t)
  <2>1. CASE limits[k].age > Ttl
    <3>1. record = [count |-> 0, age |-> 0] BY <2>1 DEF Opened, Expired, Fresh
    <3>2. record.count = 0 /\ record.age = 0 BY <3>1
    <3>3. record \in [count : 0..CountMax, age : 0..(Ttl + 1)] BY <1>0, <3>1
    <3>4. recent[k][0] = 0 BY <2>1 DEF Windows
    <3> HIDE DEF record
    <3>5. ASSUME NEW t \in 0..Ttl PROVE recent[k][t] <= bound(record, t)
      <4>1. recent[k][t] <= bound(limits[k], t) BY DEF Windows
      <4>2. t < limits[k].age BY <1>0, <2>1
      <4>3. recent[k][t] <= Limit BY <1>0, <4>1, <4>2 DEF Used
      <4>4. bound(record, t) = Limit BY <3>2 DEF Used
      <4> HIDE DEF bound
      <4> QED BY <4>3, <4>4
    <3> HIDE DEF bound
    <3> QED BY <1>0, <3>2, <3>3, <3>4, <3>5
  <2>2. CASE ~(limits[k].age > Ttl)
    <3>1. record = limits[k] BY <2>2 DEF Opened, Expired
    <3>2. limits[k].age <= Ttl BY <1>0, <2>2
    <3>3. recent[k][0] <= limits[k].count /\ recent[k][0] <= Limit BY <3>2 DEF Windows
    <3>4. \A t \in 0..Ttl : recent[k][t] <= bound(limits[k], t) BY DEF Windows
    <3> HIDE DEF record, bound
    <3> QED BY <1>0, <3>1, <3>2, <3>3, <3>4
  <2> QED BY <2>1, <2>2
<1>2. /\ limits' = [limits EXCEPT ![k] = [record EXCEPT !.count = count]]
      /\ refused' = [refused EXCEPT ![k] = ~Admits(count)]
      /\ recent' = [recent EXCEPT ![k] = [t \in 0..Ttl |-> recent[k][t] + more]]
  BY DEF CanActivate
<1> HIDE DEF record
<1>3. record.count \in 0..CountMax /\ record.age \in 0..(Ttl + 1) BY <1>1
<1>4. /\ more \in {0, 1} /\ (more = 1 => count <= Limit)
      /\ count \in 0..CountMax /\ count >= record.count + more
      /\ Used(count) >= Used(record.count) + more
  BY <1>3 DEF Admits, Used, Counted, CountMax
<1> DEFINE r == [record EXCEPT !.count = count]
<1>5. /\ r \in [count : 0..CountMax, age : 0..(Ttl + 1)]
      /\ r.age = record.age /\ r.count = count
  <2>1. count \in 0..CountMax BY <1>4
  <2> HIDE DEF count
  <2> QED BY <1>1, <2>1
<1> HIDE DEF r, more
<1>6. \A j \in Paths : limits'[j] = IF j = k THEN r ELSE limits[j] BY <1>2 DEF r
<1>7. limits' \in [Paths -> [count : 0..CountMax, age : 0..(Ttl + 1)]] BY <1>2, <1>5 DEF r
<1>8. \A j \in Paths, t \in 0..Ttl :
        recent'[j][t] = IF j = k THEN recent[k][t] + more ELSE recent[j][t]
  BY <1>2
<1>9. recent' \in [Paths -> [0..Ttl -> Nat]]
  <2>1. [t \in 0..Ttl |-> recent[k][t] + more] \in [0..Ttl -> Nat] BY <1>0, <1>4
  <2> QED BY <1>2, <2>1
<1>10. refused' \in [Paths -> BOOLEAN] BY <1>2 DEF Admits
<1>11. /\ recent'[k][0] <= Limit /\ recent'[k][0] <= r.count /\ r.age <= Ttl
       /\ \A t \in 0..Ttl : recent'[k][t] <= bound(r, t)
  <2>1. 0 \in 0..Ttl OBVIOUS
  <2>2. recent'[k][0] <= Limit /\ recent'[k][0] <= r.count /\ r.age <= Ttl
    BY <1>0, <1>1, <1>3, <1>4, <1>5, <1>8, <2>1
  <2>3. ASSUME NEW t \in 0..Ttl PROVE recent'[k][t] <= bound(r, t)
    <3>1. Used(count) \in Nat /\ Used(record.count) \in Nat BY <1>0, <1>3, <1>4 DEF Used
    <3>2. recent'[k][t] = recent[k][t] + more /\ recent[k][t] \in Nat BY <1>0, <1>8
    <3>3. recent[k][t] <= Used(record.count) + IF t < record.age THEN 0 ELSE Limit BY <1>1
    <3> QED BY <1>3, <1>4, <1>5, <3>1, <3>2, <3>3
  <2> QED BY <2>2, <2>3
<1>12. \A j \in Paths : recent'[j][0] <= Limit
  <2>1. 0 \in 0..Ttl /\ \A j \in Paths : recent[j][0] <= Limit OBVIOUS
  <2>2. \A j \in Paths \ {k} : recent'[j][0] = recent[j][0] BY <1>8, <2>1
  <2> QED BY <1>11, <2>1, <2>2
<1>13. Windows'
  <2> SUFFICES ASSUME NEW j \in Paths
               PROVE  /\ limits'[j].age > Ttl => recent'[j][0] = 0
                      /\ limits'[j].age <= Ttl => recent'[j][0] <= limits'[j].count
                      /\ \A t \in 0..Ttl : recent'[j][t] <= bound(limits'[j], t)
    BY DEF Windows
  <2>1. CASE j = k
    <3>1. limits'[j] = r /\ r.age \in Int BY <1>5, <1>6, <2>1
    <3> HIDE DEF bound
    <3> QED BY <1>11, <2>1, <3>1
  <2>2. CASE j # k
    <3>1. limits'[j] = limits[j] /\ \A t \in 0..Ttl : recent'[j][t] = recent[j][t]
      BY <1>6, <1>8, <2>2
    <3>2. 0 \in 0..Ttl OBVIOUS
    <3> QED BY <3>1, <3>2 DEF Windows
  <2> QED BY <2>1, <2>2
<1> QED BY <1>7, <1>9, <1>10, <1>12, <1>13

-----------------------------------------------------------------------------
(* The gauge *)

\* How the step of one request changes the number in progress on a path.
LEMMA Turn ==
  ASSUME request \in [Requests -> Request], NEW r \in Requests, NEW q \in Request,
         request' = [request EXCEPT ![r] = q], NEW k \in Paths
  PROVE  /\ Cardinality(InProgress(k)) \in Nat
         /\ Cardinality(InProgress(k))' \in Nat
         /\ Cardinality(InProgress(k))' = Cardinality(InProgress(k))
              + (IF q.path = k /\ q.connected THEN 1 ELSE 0)
              - (IF request[r].path = k /\ request[r].connected THEN 1 ELSE 0)
<1>1. \A x \in Requests : request'[x] = IF x = r THEN q ELSE request[x] OBVIOUS
<1>2. IsFiniteSet(InProgress(k)) /\ IsFiniteSet(InProgress(k)')
  <2>1. InProgress(k) \subseteq Requests /\ InProgress(k)' \subseteq Requests BY DEF InProgress
  <2> QED BY <2>1, GatewayAssumption, FS_Subset
<1>3. InProgress(k) \ {r} = InProgress(k)' \ {r} BY <1>1 DEF InProgress
<1>4. /\ r \in InProgress(k) <=> request[r].path = k /\ request[r].connected
      /\ r \in InProgress(k)' <=> q.path = k /\ q.connected
  BY <1>1 DEF InProgress
<1>5. /\ Cardinality(InProgress(k)) \in Nat /\ Cardinality(InProgress(k)') \in Nat
      /\ (r \in InProgress(k) <=> r \in InProgress(k)') =>
           Cardinality(InProgress(k)') = Cardinality(InProgress(k))
      /\ r \in InProgress(k) /\ r \notin InProgress(k)' =>
           Cardinality(InProgress(k)') = Cardinality(InProgress(k)) - 1
      /\ r \notin InProgress(k) /\ r \in InProgress(k)' =>
           Cardinality(InProgress(k)') = Cardinality(InProgress(k)) + 1
  BY <1>2, <1>3, CountStep
<1> QED BY <1>4, <1>5

\* A step of one request, by what it does to the gauge and to the lost clients of its path.
LEMMA RequestStep ==
  ASSUME IInv, NEW r \in Requests, NEW q \in Request, NEW k \in Paths,
         NEW dg \in {-1, 0, 1}, NEW dl \in {0, 1},
         request' = [request EXCEPT ![r] = q],
         TypeOK', Windows',
         gauge' = [gauge EXCEPT ![k] = @ + dg], lost' = [lost EXCEPT ![k] = @ + dl],
         lost[k] + dl <= MaxGone,
         q.pc # "free" => q.path \in Paths, q.pc = "free" => ~q.connected,
         q.pc = "ended" => q.connected,
         request[r].connected => request[r].path = k, q.connected => q.path = k,
         dg - dl = (IF q.connected THEN 1 ELSE 0) - (IF request[r].connected THEN 1 ELSE 0)
  PROVE  IInv'
<1>1. /\ request \in [Requests -> Request] /\ gauge \in [Paths -> Nat]
      /\ lost \in [Paths -> 0..MaxGone] /\ MaxGone \in Nat
  BY GatewayAssumption DEF IInv, Types
<1>2. \A x \in Requests : request'[x] = IF x = r THEN q ELSE request[x] BY <1>1
<1>3. \A j \in Paths : /\ gauge'[j] = IF j = k THEN gauge[j] + dg ELSE gauge[j]
                       /\ lost'[j] = IF j = k THEN lost[j] + dl ELSE lost[j]
  BY <1>1
<1>4. request[r].connected \in BOOLEAN /\ q.connected \in BOOLEAN BY <1>1 DEF Request
<1>5. \A j \in Paths : gauge'[j] = Cardinality(InProgress(j))' + lost'[j]
                       /\ Cardinality(InProgress(j))' \in Nat
  <2> TAKE j \in Paths
  <2>1. gauge[j] = Cardinality(InProgress(j)) + lost[j] BY DEF IInv, GaugeAccounts
  <2>2. /\ Cardinality(InProgress(j)) \in Nat /\ Cardinality(InProgress(j))' \in Nat
        /\ Cardinality(InProgress(j))' = Cardinality(InProgress(j))
             + (IF q.path = j /\ q.connected THEN 1 ELSE 0)
             - (IF request[r].path = j /\ request[r].connected THEN 1 ELSE 0)
    BY <1>1, Turn
  <2>3. lost[j] \in Nat BY <1>1
  <2>4. CASE j # k BY <1>3, <2>1, <2>2, <2>3, <2>4
  <2>5. CASE j = k
    <3>1. Cardinality(InProgress(j))' = Cardinality(InProgress(j)) + (dg - dl)
      BY <1>4, <2>2, <2>5
    <3> QED BY <1>3, <2>1, <2>2, <2>3, <2>5, <3>1
  <2> QED BY <2>4, <2>5
<1>6. GaugeAccounts' BY <1>5 DEF GaugeAccounts
<1>7. Types'
  <2>1. lost' \in [Paths -> 0..MaxGone] BY <1>1
  <2>2. gauge' \in [Paths -> Nat]
    <3>1. \A j \in Paths : gauge'[j] \in Nat BY <1>5, <2>1
    <3>2. DOMAIN gauge' = Paths /\ gauge' = [j \in Paths |-> gauge'[j]] BY <1>1
    <3> QED BY <3>1, <3>2
  <2> QED BY <1>1, <2>1, <2>2 DEF Types
<1>8. Open' BY <1>1, <1>2 DEF IInv, Open
<1> QED BY <1>6, <1>7, <1>8 DEF IInv

-----------------------------------------------------------------------------
(* Steps *)

LEMMA InitInv == GatewayInit => IInv
<1> SUFFICES ASSUME GatewayInit PROVE IInv OBVIOUS
<1>1. TypeOK /\ Windows BY LimitInit DEF GatewayInit
<1>2. Types /\ Open BY <1>1, GatewayAssumption DEF GatewayInit, Types, Open, Free, Request
<1>3. GaugeAccounts
  <2> SUFFICES ASSUME NEW k \in Paths PROVE gauge[k] = Cardinality(InProgress(k)) + lost[k]
    BY DEF GaugeAccounts
  <2>1. InProgress(k) = {} BY DEF GatewayInit, Free, InProgress
  <2> QED BY <2>1, FS_EmptySet DEF GatewayInit
<1> QED BY <1>1, <1>2, <1>3 DEF IInv

LEMMA TickInv == ASSUME IInv, Tick, UNCHANGED <<request, gauge, lost>> PROVE IInv'
<1>1. TypeOK' /\ Windows' BY LimitTick DEF IInv, Types
<1> QED BY <1>1 DEF IInv, Types, Open, GaugeAccounts, InProgress

\* The limits while the guard does not run.
LEMMA LimitKept == ASSUME IInv, UNCHANGED vars PROVE TypeOK' /\ Windows'
BY DEF IInv, Types, vars, TypeOK, Windows

LEMMA ArriveInv ==
  ASSUME IInv, NEW r \in Requests, NEW k \in Paths, Arrive(r, k)
  PROVE  IInv'
<1> DEFINE q == [path |-> k, pc |-> IF refused'[k] THEN "refused" ELSE "handler",
                 connected |-> TRUE]
<1>1. TypeOK' /\ Windows' BY LimitActivate DEF Arrive, IInv, Types
<1>2. q \in Request /\ q.path = k /\ q.connected /\ q.pc # "free" BY DEF Request
<1>3. request' = [request EXCEPT ![r] = q] BY DEF Arrive
<1>4. /\ ~request[r].connected /\ gauge \in [Paths -> Nat] /\ lost \in [Paths -> 0..MaxGone]
  BY DEF Arrive, IInv, Open, Types
<1>5. /\ gauge' = [gauge EXCEPT ![k] = @ + 1] /\ lost' = [lost EXCEPT ![k] = @ + 0]
      /\ lost[k] + 0 <= MaxGone
  <2>1. lost[k] + 0 = lost[k] BY <1>4
  <2> QED BY <1>4, <2>1, GatewayAssumption DEF Arrive, Entered, Inc
<1> HIDE DEF q
<1> QED BY <1>1, <1>2, <1>3, <1>4, <1>5, RequestStep

LEMMA EndInv == ASSUME IInv, NEW r \in Requests, End(r) PROVE IInv'
<1> DEFINE k == request[r].path
           q == IF request[r].connected THEN [request[r] EXCEPT !.pc = "ended"] ELSE Free
<1>1. TypeOK' /\ Windows' BY LimitKept DEF End
<1>2. /\ request[r] \in Request /\ k \in Paths
      /\ gauge \in [Paths -> Nat] /\ lost \in [Paths -> 0..MaxGone]
  BY DEF End, IInv, Open, Types
<1>3. /\ q \in Request /\ (q.connected => q.path = k) /\ (q.pc # "free" => q.path \in Paths)
      /\ (q.pc = "free" => ~q.connected) /\ q.connected = request[r].connected
      /\ (q.pc = "ended" => q.connected)
  <2>1. CASE request[r].connected BY <1>2, <2>1 DEF Request
  <2>2. CASE ~request[r].connected BY <1>2, <2>2 DEF Request, Free
  <2> QED BY <2>1, <2>2
<1>4. request' = [request EXCEPT ![r] = q] BY DEF End
<1>5. /\ gauge' = [gauge EXCEPT ![k] = @ + 0] /\ lost' = [lost EXCEPT ![k] = @ + 0]
      /\ lost[k] + 0 <= MaxGone
  <2>1. lost[k] + 0 = lost[k] /\ gauge[k] + 0 = gauge[k] BY <1>2
  <2> QED BY <1>2, <2>1, GatewayAssumption DEF End
<1>6. 0 - 0 = (IF q.connected THEN 1 ELSE 0) - (IF request[r].connected THEN 1 ELSE 0)
  <2> HIDE DEF q
  <2> QED BY <1>3
<1>7. request[r].connected => request[r].path = k OBVIOUS
<1> HIDE DEF q, k
<1> QED BY <1>1, <1>2, <1>3, <1>4, <1>5, <1>6, <1>7, RequestStep

LEMMA FinishInv == ASSUME IInv, NEW r \in Requests, Finish(r) PROVE IInv'
<1> DEFINE k == request[r].path
           q == Free
<1>1. TypeOK' /\ Windows' BY LimitKept DEF Finish
<1>2. /\ request[r] \in Request /\ k \in Paths /\ request[r].connected
      /\ gauge \in [Paths -> Nat] /\ lost \in [Paths -> 0..MaxGone]
  BY DEF Finish, IInv, Open, Types
<1>3. q \in Request /\ ~q.connected /\ q.pc = "free" BY <1>2 DEF Request, Free
<1>4. request' = [request EXCEPT ![r] = q] BY DEF Finish
<1>5. /\ gauge' = [gauge EXCEPT ![k] = @ + (-1)] /\ lost' = [lost EXCEPT ![k] = @ + 0]
      /\ lost[k] + 0 <= MaxGone
  <2>1. lost[k] + 0 = lost[k] /\ gauge[k] + (-1) = gauge[k] - 1 BY <1>2
  <2>2. gauge' = [gauge EXCEPT ![k] = gauge[k] - 1] /\ lost' = lost BY DEF Finish, Dec
  <2>3. [lost EXCEPT ![k] = lost[k] + 0] = lost BY <1>2, <2>1
  <2>4. lost[k] <= MaxGone BY <1>2, GatewayAssumption
  <2> HIDE DEF k
  <2> QED BY <2>1, <2>2, <2>3, <2>4
<1>6. -1 - 0 = (IF q.connected THEN 1 ELSE 0) - (IF request[r].connected THEN 1 ELSE 0)
  <2> HIDE DEF q
  <2> QED BY <1>2, <1>3
<1>7. request[r].connected => request[r].path = k OBVIOUS
<1> HIDE DEF q, k
<1> QED BY <1>1, <1>2, <1>3, <1>4, <1>5, <1>6, <1>7, RequestStep

LEMMA DisconnectInv == ASSUME IInv, NEW r \in Requests, Disconnect(r) PROVE IInv'
<1> DEFINE k == request[r].path
           q == IF request[r].pc = "ended" THEN Free ELSE [request[r] EXCEPT !.connected = FALSE]
<1>1. TypeOK' /\ Windows' BY LimitKept DEF Disconnect
<1>2. /\ request[r] \in Request /\ k \in Paths /\ request[r].connected
      /\ gauge \in [Paths -> Nat] /\ lost \in [Paths -> 0..MaxGone]
  BY DEF Disconnect, IInv, Open, Types
<1>3. q \in Request /\ ~q.connected /\ (q.pc # "free" => q.path \in Paths) /\ q.pc # "ended"
  <2>1. CASE request[r].pc = "ended" BY <2>1 DEF Request, Free
  <2>2. CASE request[r].pc # "ended" BY <1>2, <2>2 DEF Request
  <2> QED BY <2>1, <2>2
<1>4. request' = [request EXCEPT ![r] = q] BY DEF Disconnect
<1>5. /\ gauge' = [gauge EXCEPT ![k] = @ + 0] /\ lost' = [lost EXCEPT ![k] = @ + 1]
      /\ lost[k] + 1 <= MaxGone
  <2>1. gauge[k] + 0 = gauge[k] BY <1>2
  <2>2. lost[k] < MaxGone /\ lost[k] \in Nat BY <1>2 DEF Disconnect
  <2> QED BY <1>2, <2>1, <2>2, GatewayAssumption DEF Disconnect
<1> HIDE DEF q, k
<1> QED BY <1>1, <1>2, <1>3, <1>4, <1>5, RequestStep DEF k

LEMMA NextInv == ASSUME IInv, [GatewayNext]_gatewayVars PROVE IInv'
<1>1. CASE UNCHANGED gatewayVars
  <2>1. TypeOK' /\ Windows' BY <1>1, LimitKept DEF gatewayVars
  <2> QED BY <1>1, <2>1 DEF gatewayVars, IInv, Types, Open, GaugeAccounts, InProgress
<1>2. CASE Tick /\ UNCHANGED <<request, gauge, lost>> BY <1>2, TickInv
<1>3. ASSUME NEW r \in Requests, (\E k \in Paths : Arrive(r, k)) \/ End(r) \/ Finish(r) \/ Disconnect(r)
      PROVE  IInv'
  BY <1>3, ArriveInv, EndInv, FinishInv, DisconnectInv
<1> QED BY <1>1, <1>2, <1>3 DEF GatewayNext

-----------------------------------------------------------------------------
(* Theorems *)

\* The windows and the requests together: the invariant the others follow from.
THEOREM Invariant == GatewaySpec => []IInv
<1>1. GatewayInit => IInv BY InitInv
<1>2. IInv /\ [GatewayNext]_gatewayVars => IInv' BY NextInv
<1> QED BY <1>1, <1>2, PTL DEF GatewaySpec

\* MetricsMiddleware's gauge is, per path, the requests in progress and the clients that
\* went before their answer, and nothing else, for any number of requests and paths.
THEOREM GaugeIsExplained == GatewaySpec => []GaugeAccounts
<1>1. IInv => GaugeAccounts BY DEF IInv
<1> QED BY <1>1, Invariant, PTL

\* GatewayTypeOK: the types of the state; the guard never admits more than the limit in
\* one tick, and the gauge stays within the open requests and the clients that went.
THEOREM TypeCorrect == GatewaySpec => []GatewayTypeOK
<1>1. IInv => GatewayTypeOK
  <2> SUFFICES ASSUME IInv PROVE GatewayTypeOK OBVIOUS
  <2>1. Cardinality(Requests) \in Nat BY GatewayAssumption, FS_CardinalityType
  <2>2. \A k \in Paths : gauge[k] \in 0..(Cardinality(Requests) + MaxGone)
    <3> TAKE k \in Paths
    <3>1. InProgress(k) \subseteq Requests BY DEF InProgress
    <3>2. Cardinality(InProgress(k)) \in Nat /\ Cardinality(InProgress(k)) <= Cardinality(Requests)
      BY <3>1, GatewayAssumption, FS_Subset, FS_CardinalityType
    <3>3. gauge[k] = Cardinality(InProgress(k)) + lost[k] /\ lost[k] \in 0..MaxGone
      BY DEF IInv, GaugeAccounts, Types
    <3> QED BY <2>1, <3>2, <3>3, GatewayAssumption
  <2>3. Types BY DEF IInv
  <2>4. gauge \in [Paths -> 0..(Cardinality(Requests) + MaxGone)]
    BY <2>2, <2>3 DEF Types
  <2> QED BY <2>3, <2>4 DEF GatewayTypeOK, Types, Request
<1> QED BY <1>1, Invariant, PTL

\* RateLimitGuard: whatever the limit, the window and the moments of the requests, no
\* client is admitted more than twice the limit in any ttl of time.
THEOREM BurstIsBounded == GatewaySpec => []TwoWindows
<1>1. IInv => TwoWindows
  <2> SUFFICES ASSUME IInv, NEW k \in Paths PROVE recent[k][Ttl] <= 2 * Limit
    BY DEF TwoWindows
  <2>1. /\ limits[k] \in [count : 0..CountMax, age : 0..(Ttl + 1)]
        /\ recent[k] \in [0..Ttl -> Nat]
    BY DEF IInv, Types, TypeOK
  <2>2. Ttl \in 0..Ttl /\ Limit \in Nat BY LimitAssumption
  <2>3. recent[k][Ttl] <= Used(limits[k].count) + IF Ttl < limits[k].age THEN 0 ELSE Limit
    BY <2>2 DEF IInv, Windows
  <2> QED BY <2>1, <2>2, <2>3 DEF Used
<1> QED BY <1>1, Invariant, PTL
=============================================================================
