----------------------------- MODULE RateLimit -----------------------------
(***************************************************************************)
(* RateLimitGuard: a counter per client and path, reset by the first        *)
(* request after its window of ttl milliseconds has passed.  canActivate    *)
(* does not await, so a request is one action.  Time is counted in ticks,   *)
(* and each record keeps its age instead of the time of its last reset.     *)
(***************************************************************************)
EXTENDS Naturals, Sequences, FiniteSetsExt

CONSTANTS
  Paths,    \* client address and path pairs: the keys of the map
  Limit, Ttl

ASSUME LimitAssumption == Limit \in Nat \ {0} /\ Ttl \in Nat

\* The count is only compared with the limit: beyond it the code counts on and the
\* model stops, so that a client may be refused any number of times.
CountMax == Limit + 1

VARIABLES
  limits,  \* the map: count and age of each record, age counted up to Ttl + 1
  recent,  \* per key and age, requests admitted since that many ticks ago
  refused  \* per key, whether the last request was refused

vars == <<limits, recent, refused>>

Fresh == [count |-> 0, age |-> 0]
Quiet == [t \in 0..Ttl |-> 0]

Init ==
  /\ limits = [k \in Paths |-> Fresh]
  /\ recent = [k \in Paths |-> Quiet]
  /\ refused = [k \in Paths |-> FALSE]

\* now - record.lastReset > this.ttl
Expired(record) == record.age > Ttl

\* Mutant of Opened: every request starts a window.
OpenedAlways(record) == Fresh

Opened(record) == IF Expired(record) THEN Fresh ELSE record

\* Mutant of Admits: the check comes with one request too many.
AdmitsOneMore(count) == count <= Limit + 1

Admits(count) == count <= Limit

\* record.count++
Counted(record) == IF record.count < CountMax THEN record.count + 1 ELSE CountMax

\* Mutant of CanActivate: a refused request starts the window again.
CanActivateSliding(k) ==
  LET record == Opened(limits[k])
      count  == Counted(record)
  IN
  /\ limits' = [limits EXCEPT ![k] =
       [count |-> count, age |-> IF Admits(count) THEN record.age ELSE 0]]
  /\ refused' = [refused EXCEPT ![k] = ~Admits(count)]
  /\ recent' = [recent EXCEPT ![k] = [t \in 0..Ttl |-> @[t] + IF Admits(count) THEN 1 ELSE 0]]

\* A key without a record starts with a fresh one, like a key at its reset.
CanActivate(k) ==
  LET record == Opened(limits[k])
      count  == Counted(record)
  IN
  /\ limits' = [limits EXCEPT ![k] = [record EXCEPT !.count = count]]
  /\ refused' = [refused EXCEPT ![k] = ~Admits(count)]
  /\ recent' = [recent EXCEPT ![k] = [t \in 0..Ttl |-> @[t] + IF Admits(count) THEN 1 ELSE 0]]

\* A tick of the clock: records age, and the oldest admissions are forgotten.
Tick ==
  /\ limits' = [k \in Paths |->
       [limits[k] EXCEPT !.age = IF limits[k].count = 0 \/ @ > Ttl THEN @ ELSE @ + 1]]
  /\ recent' = [k \in Paths |-> [t \in 0..Ttl |-> IF t = 0 THEN 0 ELSE recent[k][t - 1]]]
  /\ UNCHANGED refused

Next == Tick \/ \E k \in Paths : CanActivate(k)

Spec == Init /\ [][Next]_vars

-----------------------------------------------------------------------------
(* Properties *)

\* The shape of the records, within the window; no more than a full
\* window is admitted in one tick.
TypeOK ==
  /\ limits \in [Paths -> [count : 0..CountMax, age : 0..(Ttl + 1)]]
  /\ recent \in [Paths -> [0..Ttl -> Nat]] /\ \A k \in Paths : recent[k][0] <= Limit
  /\ refused \in [Paths -> BOOLEAN]

\* A burst around a reset is let through, but never more than two full windows
\* in any ttl of time.
TwoWindows == \A k \in Paths : recent[k][Ttl] <= 2 * Limit

\* Refused requests are counted and do not extend the window: a client that keeps
\* asking while it is refused is served again.
ServedAgain == \A k \in Paths : refused[k] ~> ~refused[k]
=============================================================================
