------------------------------ MODULE Gateway ------------------------------
(***************************************************************************)
(* What every request passes through: MetricsMiddleware, the global         *)
(* RateLimitGuard, the handler, the answer.  The middleware and the guard   *)
(* run before the first await of a request, so its arrival is one action    *)
(* with RateLimit's CanActivate.  The rest is the end of the response and   *)
(* its 'finish' event, which MetricsMiddleware listens to.                  *)
(*                                                                          *)
(* Node is external: the answer to a client that has gone is still ended,   *)
(* and then there is no 'finish', only 'close'.  The counter and the        *)
(* histogram, which only grow by one per 'finish', are left out.            *)
(***************************************************************************)
EXTENDS RateLimit

CONSTANTS
  Requests, \* bound: requests that are open together
  MaxGone   \* bound: clients that disconnect, per path

ASSUME GatewayAssumption == MaxGone \in Nat /\ IsFiniteSet(Requests)

VARIABLES
  request,  \* the path of each request, where it is, and whether its client is there
  gauge,    \* httpRequestsInProgress, by path
  lost      \* history: per path, clients that went before their answer

gatewayVars == <<vars, request, gauge, lost>>

Free == [path |-> "none", pc |-> "free", connected |-> FALSE]

GatewayInit ==
  /\ Init
  /\ request = [r \in Requests |-> Free]
  /\ gauge = [k \in Paths |-> 0]
  /\ lost = [k \in Paths |-> 0]

\* incrementHttpRequestsInProgress, decrementHttpRequestsInProgress
Inc(k) == gauge' = [gauge EXCEPT ![k] = @ + 1]
Dec(k) == gauge' = [gauge EXCEPT ![k] = @ - 1]

\* Mutant of Entered: only what the guard admits is in progress.
EnteredAdmitted(k) ==
  IF Admits(Opened(limits[k]).count + 1) THEN Inc(k) ELSE UNCHANGED gauge

\* MetricsMiddleware.use runs before the guard, for refused requests too.
Entered(k) == Inc(k)

\* A request arrives: the middleware, then the guard.
Arrive(r, k) ==
  /\ request[r].pc = "free"
  /\ Entered(k)
  /\ CanActivate(k)
  /\ request' = [request EXCEPT ![r] =
       [path |-> k, pc |-> IF refused'[k] THEN "refused" ELSE "handler",
        connected |-> TRUE]]
  /\ UNCHANGED lost

\* The handler returns or throws, or the exception filter answers 429: res.end.
\* For a client that has gone that is all.
End(r) ==
  LET q == request[r] IN
  /\ q.pc \in {"handler", "refused"}
  /\ request' = [request EXCEPT ![r] =
       IF q.connected THEN [q EXCEPT !.pc = "ended"] ELSE Free]
  /\ UNCHANGED <<vars, gauge, lost>>

\* 'finish': the answer is out.
Finish(r) ==
  /\ request[r].pc = "ended"
  /\ Dec(request[r].path)
  /\ request' = [request EXCEPT ![r] = Free]
  /\ UNCHANGED <<vars, lost>>

\* The client disconnects before its answer is out.
Disconnect(r) ==
  /\ request[r].pc # "free" /\ request[r].connected /\ lost[request[r].path] < MaxGone
  /\ lost' = [lost EXCEPT ![request[r].path] = @ + 1]
  /\ request' = [request EXCEPT ![r] =
       IF request[r].pc = "ended" THEN Free ELSE [request[r] EXCEPT !.connected = FALSE]]
  /\ UNCHANGED <<vars, gauge>>

GatewayNext ==
  \/ Tick /\ UNCHANGED <<request, gauge, lost>>
  \/ \E r \in Requests : (\E k \in Paths : Arrive(r, k)) \/ End(r) \/ Finish(r) \/ Disconnect(r)

GatewaySpec == GatewayInit /\ [][GatewayNext]_gatewayVars

\* Time passes and the client of every path keeps asking, refused or not.  That
\* handlers return and answers go out is only there to free the bounded Requests
\* for it: the code has no such bound, a handler that hangs holds up no other
\* request, and the limits do not depend on it.
GatewayFairSpec ==
  /\ GatewaySpec
  /\ WF_gatewayVars(Tick /\ UNCHANGED <<request, gauge, lost>>)
  /\ \A k \in Paths : SF_gatewayVars(\E r \in Requests : Arrive(r, k))
  /\ \A r \in Requests : WF_gatewayVars(End(r)) /\ WF_gatewayVars(Finish(r))

-----------------------------------------------------------------------------
(* Properties *)

\* The shape of the state, RateLimit's included.
GatewayTypeOK ==
  /\ TypeOK
  /\ request \in [Requests -> [path : Paths \cup {"none"}, pc : {"free", "handler", "refused", "ended"},
                               connected : BOOLEAN]]
  /\ gauge \in [Paths -> 0..(Cardinality(Requests) + MaxGone)]
  /\ lost \in [Paths -> 0..MaxGone]

\* Those that will be recorded when they end.
InProgress(k) == {r \in Requests : request[r].path = k /\ request[r].connected}

\* The gauge is the requests in progress and, for ever, those whose client went:
\* refused requests and errors leave it as they found it.
GaugeAccounts == \A k \in Paths : gauge[k] = Cardinality(InProgress(k)) + lost[k]
=============================================================================
