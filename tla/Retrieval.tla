----------------------------- MODULE Retrieval -----------------------------
(***************************************************************************)
(* Reading a mailbox page by page: the conversations inside fetchEmailsIMAP,*)
(* fetchEmailsPOP3 and MicrosoftGraphEmailService.fetchEmails, and the two  *)
(* queries of getEmailsFromDatabase.  The client asks for page 1 and goes   *)
(* on to the next page for as long as the answer says hasMore; meanwhile    *)
(* mail arrives and is removed.                                             *)
(*                                                                          *)
(* What is followed is the array of emails a handler retrieves; MailStore   *)
(* has what is stored of it and read back.  Messages are numbered in the    *)
(* order they arrive, which is the order of an IMAP or POP3 mailbox; Graph  *)
(* and the table are sorted by receivedAt, which need not be distinct.      *)
(***************************************************************************)
EXTENDS Integers, Sequences, SequencesExt

CONSTANTS
  Methods,   \* the ways of reading in this instance
  MaxMsgs,   \* bound: messages that ever arrive
  MaxLimit,  \* bound: the page sizes clients ask for
  Faults     \* TRUE: servers and database may fail

AllMethods == {"imap", "pop3", "graph", "db"}

ASSUME MethodsAssumption == Methods \subseteq AllMethods /\ Faults \in BOOLEAN
ASSUME BoundsAssumption == MaxMsgs \in Nat /\ MaxLimit \in Nat \ {0}

VARIABLES
  box,   \* the messages in the mailbox, or the rows not marked deleted
  last,  \* the newest message that ever arrived
  tie,   \* messages tie and tie + 1 have the same receivedAt; 0: none has
  walk,  \* the client's walk and the request for its current page
  hist   \* history of the walk, for the properties

vars == <<box, last, tie, walk, hist>>

Msgs == 1..MaxMsgs

-----------------------------------------------------------------------------
(* Pages *)

ReceivedAt(m) == IF 0 < tie /\ tie < m THEN m - 1 ELSE m

\* The messages in order of arrival: the i-th has i - 1 before it.
OldestFirst(S) ==
  [i \in 1..Cardinality(S) |-> CHOOSE m \in S : Cardinality({n \in S : n < m}) = i - 1]

\* orderBy receivedAt desc: messages of the same time in either order.
NewestFirst(S, swap) ==
  LET Before(a, b) == \/ ReceivedAt(a) > ReceivedAt(b)
                      \/ ReceivedAt(a) = ReceivedAt(b) /\ IF swap THEN a < b ELSE a > b
  IN  [i \in 1..Cardinality(S) |->
         CHOOSE m \in S : Cardinality({n \in S : Before(n, m)}) = i - 1]

Skip(w) == (w.page - 1) * w.limit

\* Mutants of PageRange: an IMAP page reaches one message too far; IMAP counts
\* from the oldest message; POP3 does not stop at the total.
PageRangeWide(w, total) ==
  IF w.method = "imap" THEN [at |-> Max({1, total - Skip(w) - w.limit}),
                             to |-> Max({1, total - Skip(w)})]
  ELSE [at |-> Skip(w) + 1, to |-> Min({Skip(w) + w.limit, total})]
PageRangeFromOldest(w, total) ==
  [at |-> Skip(w) + 1, to |-> Min({Skip(w) + w.limit, total})]
PageRangePastTotal(w, total) ==
  IF w.method = "imap" THEN [at |-> Max({1, total - Skip(w) - w.limit + 1}),
                             to |-> Max({1, total - Skip(w)})]
  ELSE [at |-> Skip(w) + 1, to |-> Skip(w) + w.limit]

\* The sequence numbers of the page: IMAP counts from the newest message back,
\* POP3 from the oldest on, and stops at the total.
PageRange(w, total) ==
  IF w.method = "imap" THEN [at |-> Max({1, total - Skip(w) - w.limit + 1}),
                             to |-> Max({1, total - Skip(w)})]
  ELSE [at |-> Skip(w) + 1, to |-> Min({Skip(w) + w.limit, total})]

\* Mutant of HasMore: the last page is left out when it has one message.
HasMoreLess(w, total) == Skip(w) + w.limit + 1 < total

\* skip + limit < total; POP3's end < total is the same
HasMore(w, total) == Skip(w) + w.limit < total

-----------------------------------------------------------------------------
(* The walk *)

Idle == [pc |-> "idle", method |-> "none", limit |-> 1, page |-> 1, total |-> 0,
         view |-> <<>>, at |-> 1, to |-> 0, todo |-> {}, emails |-> <<>>, more |-> FALSE]

NoHistory == [start |-> {}, seen |-> [m \in Msgs |-> 0], before |-> {},
              skipped |-> {}, removed |-> FALSE, grew |-> FALSE, skew |-> FALSE]

\* Once something is removed nothing more is claimed of the walk.
Spoilt == [NoHistory EXCEPT !.removed = TRUE]
Record(h) == hist' = IF hist.removed THEN Spoilt ELSE h

Init ==
  /\ last \in 0..MaxMsgs /\ box = 1..last
  /\ tie \in 0..(MaxMsgs - 1)
  /\ walk = Idle
  /\ hist = NoHistory

\* The request for a page: a session, or two queries; Graph awaits the count
\* before it asks for the page, the table is asked for both at once.
Ask(w, page) ==
  LET session == w.method \in {"imap", "pop3"} IN
  [Idle EXCEPT !.method = w.method, !.limit = w.limit, !.page = page,
               !.pc = IF session THEN "open" ELSE "query",
               !.todo = IF session THEN {} ELSE {"count", "page"}]

Answer(w, more) == [w EXCEPT !.pc = "answered", !.more = more]

FirstPage ==
  /\ walk.pc = "idle"
  /\ \E m \in Methods, n \in 1..MaxLimit :
       walk' = Ask([Idle EXCEPT !.method = m, !.limit = n], 1)
  /\ hist' = [NoHistory EXCEPT !.start = box]
  /\ UNCHANGED <<box, last, tie>>

\* openBox, or connect, login and stat: the session numbers the messages there
\* are now.
Open ==
  LET w == walk
      total == Cardinality(box)
      range == PageRange(w, total)
  IN
  /\ w.pc = "open"
  /\ walk' = IF total = 0 THEN Answer(w, FALSE)
             ELSE [w EXCEPT !.pc = "fetch", !.total = total, !.view = OldestFirst(box),
                            !.at = range.at, !.to = range.to]
  /\ UNCHANGED <<box, last, tie, hist>>

\* The next message of the session; one removed since may still be there.
Retrieve ==
  LET w == walk IN
  /\ w.pc = "fetch" /\ w.at <= w.to /\ w.at <= w.total
  /\ walk' = [w EXCEPT !.at = @ + 1, !.emails = Append(@, w.view[w.at])]
  /\ UNCHANGED <<box, last, tie, hist>>

\* Mutant of RetrieveFails: a failed retrieval counts twice.
RetrieveFailsTwo ==
  LET w == walk IN
  /\ w.pc = "fetch" /\ w.at <= w.to
  /\ \/ w.method = "pop3" /\ Faults
     \/ w.method = "imap" /\ w.view[w.at] \notin box
  /\ walk' = [w EXCEPT !.at = @ + 2]
  /\ Record([hist EXCEPT !.skipped = @ \cup {w.view[w.at]}])
  /\ UNCHANGED <<box, last, tie>>

\* A message that is gone, cannot be retrieved or, over POP3, not parsed: the
\* handler goes on with the next one.
RetrieveFails ==
  LET w == walk IN
  /\ w.pc = "fetch" /\ w.at <= w.to
  /\ \/ w.method = "pop3" /\ Faults
     \/ w.method = "imap" /\ w.view[w.at] \notin box
  /\ walk' = [w EXCEPT !.at = @ + 1]
  /\ Record([hist EXCEPT !.skipped = @ \cup {w.view[w.at]}])
  /\ UNCHANGED <<box, last, tie>>

\* A page is answered: what it adds to what the walk has seen.
Seen(w) ==
  Record([hist EXCEPT
            !.before = {m \in Msgs : hist.seen[m] > 0},
            !.seen = [m \in Msgs |-> @[m] + Cardinality({n \in DOMAIN w.emails : w.emails[n] = m})]])

\* Mutant of FetchEnd: a page of which nothing could be retrieved is not answered.
FetchEndNotEmpty ==
  /\ walk.pc = "fetch" /\ walk.at > walk.to /\ walk.emails # <<>>
  /\ walk' = Answer(walk, HasMore(walk, walk.total))
  /\ Seen(walk)
  /\ UNCHANGED <<box, last, tie>>

\* fetch 'end', or retrieveNext past the last message of the page.
FetchEnd ==
  /\ walk.pc = "fetch" /\ walk.at > walk.to
  /\ walk' = Answer(walk, HasMore(walk, walk.total))
  /\ Seen(walk)
  /\ UNCHANGED <<box, last, tie>>

Count ==
  /\ walk.pc = "query" /\ "count" \in walk.todo
  /\ walk' = [walk EXCEPT !.todo = @ \ {"count"}, !.total = Cardinality(box)]
  /\ UNCHANGED <<box, last, tie, hist>>

Page ==
  LET w == walk IN
  /\ w.pc = "query" /\ "page" \in w.todo
  /\ w.method = "graph" => "count" \notin w.todo
  /\ \E swap \in BOOLEAN :
       walk' = [w EXCEPT !.todo = @ \ {"page"},
                         !.emails = SubSeq(NewestFirst(box, swap), Skip(w) + 1,
                                           Min({Skip(w) + w.limit, Cardinality(box)}))]
  /\ UNCHANGED <<box, last, tie, hist>>

Reply ==
  /\ walk.pc = "query" /\ walk.todo = {}
  /\ walk' = Answer(walk, HasMore(walk, walk.total))
  /\ Seen(walk)
  /\ UNCHANGED <<box, last, tie>>

NextPage ==
  /\ walk.pc = "answered" /\ walk.more
  /\ walk' = Ask(walk, walk.page + 1)
  /\ UNCHANGED <<box, last, tie, hist>>

\* An error event, a query that fails: the request is rejected, the walk is over.
Fails ==
  /\ Faults /\ walk.pc \in {"open", "fetch", "query"}
  /\ walk' = [walk EXCEPT !.pc = "failed"]
  /\ UNCHANGED <<box, last, tie, hist>>

EndWalk ==
  /\ walk.pc = "failed" \/ (walk.pc = "answered" /\ ~walk.more)
  /\ walk' = Idle /\ hist' = NoHistory
  /\ UNCHANGED <<box, last, tie>>

-----------------------------------------------------------------------------
(* The mailbox *)

\* Mail came between the count and the page of one answer.
Skewed(w) == w.pc = "query" /\ w.todo = {"page"}

Arrive ==
  /\ last < MaxMsgs
  /\ last' = last + 1 /\ box' = box \cup {last + 1}
  /\ Record(IF walk.pc = "idle" THEN hist
            ELSE [hist EXCEPT !.grew = TRUE, !.skew = @ \/ Skewed(walk)])
  /\ UNCHANGED <<tie, walk>>

Disappear ==
  /\ \E m \in box : box' = box \ {m}
  /\ hist' = IF walk.pc = "idle" THEN hist ELSE Spoilt
  /\ UNCHANGED <<last, tie, walk>>

Step == \/ Open \/ Retrieve \/ RetrieveFails \/ FetchEnd \/ Count \/ Page \/ Reply
        \/ NextPage \/ EndWalk

Next == FirstPage \/ Step \/ Fails \/ Arrive \/ Disappear

Spec == Init /\ [][Next]_vars

\* Servers and database answer, and the client goes on while there is more.
FairSpec == Spec /\ WF_vars(Step)

-----------------------------------------------------------------------------
(* Properties *)

\* The shape of the state; a session stays within the mailbox it opened.
TypeOK ==
  /\ box \subseteq Msgs /\ last \in 0..MaxMsgs /\ tie \in 0..MaxMsgs
  /\ DOMAIN walk = DOMAIN Idle
  /\ walk.pc \in {"idle", "open", "fetch", "query", "answered", "failed"}
  /\ walk.method \in Methods \cup {"none"} /\ walk.limit \in 1..MaxLimit
  /\ walk.page \in Nat \ {0} /\ walk.total \in 0..MaxMsgs
  /\ walk.todo \subseteq {"count", "page"} /\ walk.more \in BOOLEAN
  /\ walk.at \in Nat \ {0} /\ walk.to \in 0..walk.total \cup {0}
  /\ \A n \in DOMAIN walk.view : walk.view[n] \in Msgs
  /\ \A n \in DOMAIN walk.emails : walk.emails[n] \in Msgs
  /\ DOMAIN hist = DOMAIN NoHistory

\* The walk has come to its last page.
Complete == walk.pc = "answered" /\ ~walk.more

\* The order of the messages is the same for every request.
SteadyOrder ==
  walk.method \in {"graph", "db"} => \A m, n \in box : ReceivedAt(m) = ReceivedAt(n) => m = n

\* Mail that arrives during a walk never hides mail that was there before:
\* whoever follows hasMore to the end has been given every message that could be
\* retrieved, as long as nothing is removed and (Graph, database) nothing arrived
\* between the count and the page of one answer.
NothingMissed ==
  Complete /\ ~hist.removed /\ ~hist.skew /\ SteadyOrder =>
    \A m \in hist.start \ hist.skipped : hist.seen[m] > 0

\* In a mailbox that does not change, the pages are a partition: each message
\* comes exactly once, over all four ways of reading.
EachOnce ==
  Complete /\ ~hist.removed /\ ~hist.grew /\ SteadyOrder =>
    \A m \in hist.start : hist.seen[m] = IF m \in hist.skipped THEN 0 ELSE 1

\* Page by page a walk goes back in time (over POP3, forward), unless the
\* mailbox changes.
PagesInOrder ==
  walk.pc = "answered" /\ ~hist.removed /\ ~hist.grew =>
    \A n \in DOMAIN walk.emails, m \in hist.before :
      IF walk.method = "pop3" THEN walk.emails[n] > m
      ELSE ReceivedAt(walk.emails[n]) <= ReceivedAt(m)

\* Every walk ends: hasMore becomes false, or a request fails.
WalkEnds == walk.pc # "idle" ~> walk.pc = "idle"
=============================================================================
