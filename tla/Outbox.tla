------------------------------- MODULE Outbox -------------------------------
(***************************************************************************)
(* Sending mail: EmailService.sendEmail over SMTP or, for users who enabled *)
(* it, MicrosoftGraphEmailService.sendEmail, also reachable by its own      *)
(* route.  The handler first hands the message to the server and then       *)
(* writes a row in the SENT folder: two systems, no transaction.  The       *)
(* client of one account sends a message again when it was told, or takes   *)
(* it for granted after waiting, that it failed.                            *)
(*                                                                          *)
(* Addresses and contents are left out: a message is a model value.  The    *)
(* password of the account comes out of the CredentialVault, of which this  *)
(* module is the user: the configuration is written and read through it,    *)
(* and a restart of the process is a restart of both.                       *)
(***************************************************************************)
EXTENDS CredentialVault

CONSTANTS
  Procs,     \* requests in flight
  Msgs,      \* messages the user writes
  Confs,     \* configurations the user may save
  MaxTries,  \* bound: how often a client sends one message
  Faults     \* TRUE: servers and database may fail, the process may restart

\* graph, smtp: enabled; full: host, ports and name are all set; name:
\* emailUsername is set
Conf == {c \in [graph : BOOLEAN, smtp : BOOLEAN, full : BOOLEAN, name : BOOLEAN] :
           c.full => c.name}

ASSUME ConfsAssumption == Confs \subseteq Conf /\ Faults \in BOOLEAN
ASSUME TriesAssumption == MaxTries \in Nat \ {0} /\ Nil \notin Msgs
ASSUME ProcsAssumption == IsFiniteSet(Procs)

VARIABLES
  conf,      \* the account's configuration in the User row, without password
  accepted,  \* per message, copies a mail server accepted
  sent,      \* per message, rows with folder SENT
  tries,     \* per message, times the client sent it
  told,      \* per message, what the client believes
  req        \* the request each process is serving

vars == <<conf, accepted, sent, tries, told, req, vaultVars>>

Idle == [pc |-> "idle", msg |-> Nil, name |-> FALSE, pass |-> Nil, waits |-> FALSE, resp |-> "none"]

Set(p, r) == req' = [req EXCEPT ![p] = r]
Answer(r, resp) == [r EXCEPT !.pc = "done", !.resp = resp, !.pass = Nil]

Init ==
  /\ VaultInit
  /\ conf \in Confs
  /\ accepted = [m \in Msgs |-> 0] /\ sent = accepted /\ tries = accepted
  /\ told = [m \in Msgs |-> "nothing"]
  /\ req = [p \in Procs |-> Idle]

\* EmailService.sendEmail reads the user and picks the way.
Dispatch(c, pass, r) ==
  IF c.graph THEN [r EXCEPT !.pc = "user"]
  ELSE IF ~c.smtp THEN Answer(r, "notfound")
  ELSE IF ~c.full \/ pass = Nil THEN Answer(r, "error")
  ELSE [r EXCEPT !.pc = "send", !.name = TRUE, !.pass = pass]

\* POST /email/send, or POST /microsoft-graph/send-email, which goes to Graph
\* whatever the user's configuration says.
SendEmail(p) ==
  /\ req[p].pc = "idle"
  /\ \E m \in Msgs :
       LET r == [Idle EXCEPT !.msg = m, !.waits = TRUE] IN
       /\ told[m] \in {"nothing", "failed"} /\ tries[m] < MaxTries
       /\ \/ \E pass \in FindUser : Set(p, Dispatch(conf, pass, r))
          \/ Set(p, [r EXCEPT !.pc = "user"])
       /\ tries' = [tries EXCEPT ![m] = @ + 1]
       /\ told' = [told EXCEPT ![m] = "waiting"]
  /\ UNCHANGED <<conf, accepted, sent, vaultVars>>

\* Graph's sendEmail reads the user again, then asks for a token.
GraphUser(p) ==
  /\ req[p].pc = "user"
  /\ Set(p, [req[p] EXCEPT !.pc = "send", !.name = conf.name])
  /\ UNCHANGED <<conf, accepted, sent, tries, told, vaultVars>>

\* Mutant of Accept: the send is not awaited.
AcceptNotAwaited(p) ==
  /\ req[p].pc = "send"
  /\ \E n \in 0..1 : accepted' = [accepted EXCEPT ![req[p].msg] = @ + n]
  /\ Set(p, [req[p] EXCEPT !.pc = "record"])
  /\ UNCHANGED <<conf, sent, tries, told, vaultVars>>

\* The server takes the message; the client library may still see a failure
\* (a connection that breaks before the reply).
Accept(p) ==
  LET r == req[p] IN
  /\ r.pc = "send" /\ r.pass # Garbage
  /\ accepted' = [accepted EXCEPT ![r.msg] = @ + 1]
  /\ \/ Set(p, [r EXCEPT !.pc = "record"])
     \/ Faults /\ Set(p, Answer(r, "error"))
  /\ UNCHANGED <<conf, sent, tries, told, vaultVars>>

\* The server does not know the password.
Refuse(p) ==
  /\ req[p].pc = "send" /\ req[p].pass = Garbage
  /\ Set(p, Answer(req[p], "error"))
  /\ UNCHANGED <<conf, accepted, sent, tries, told, vaultVars>>

\* Mutant of Fails: a send that failed is tried again from the start, for ever.
FailsRetries(p) ==
  /\ Faults
  /\ req[p].pc \in {"user", "send", "record"}
  /\ Set(p, IF req[p].pc = "record" THEN Answer(req[p], "error")
            ELSE [req[p] EXCEPT !.pc = "user"])
  /\ UNCHANGED <<conf, accepted, sent, tries, told, vaultVars>>

\* No token, no connection, the message refused, a database that fails.
Fails(p) ==
  /\ Faults
  /\ req[p].pc \in {"user", "send", "record"}
  /\ Set(p, Answer(req[p], "error"))
  /\ UNCHANGED <<conf, accepted, sent, tries, told, vaultVars>>

\* Mutants of Record: a row that cannot be written is ignored.
RecordIgnored(p) ==
  LET r == req[p] IN
  /\ r.pc = "record"
  /\ \E n \in 0..1 : sent' = [sent EXCEPT ![r.msg] = @ + n]
  /\ Set(p, Answer(r, "ok"))
  /\ UNCHANGED <<conf, accepted, tries, told, vaultVars>>

\* from is the user's emailUsername: without one the row is refused.
Record(p) ==
  LET r == req[p] IN
  /\ r.pc = "record"
  /\ \/ /\ r.name
        /\ sent' = [sent EXCEPT ![r.msg] = @ + 1]
        /\ Set(p, Answer(r, "ok"))
     \/ /\ ~r.name
        /\ Set(p, Answer(r, "error"))
        /\ UNCHANGED sent
  /\ UNCHANGED <<conf, accepted, tries, told, vaultVars>>

\* The response reaches the client, if it still waits.
Respond(p) ==
  LET r == req[p] IN
  /\ r.pc = "done"
  /\ told' = IF r.waits THEN [told EXCEPT ![r.msg] = IF r.resp = "ok" THEN "ok" ELSE "failed"]
             ELSE told
  /\ Set(p, Idle)
  /\ UNCHANGED <<conf, accepted, sent, tries, vaultVars>>

\* The client waits no longer; the handler runs on.
GiveUp(p) ==
  /\ Faults /\ req[p].waits
  /\ Set(p, [req[p] EXCEPT !.waits = FALSE])
  /\ told' = [told EXCEPT ![req[p].msg] = "failed"]
  /\ UNCHANGED <<conf, accepted, sent, tries, vaultVars>>

UpdateConfig ==
  /\ conf' \in Confs
  /\ \E w \in Passwords \cup {Nil, Keep} : UpdateUser(w)
  /\ UNCHANGED <<accepted, sent, tries, told, req>>

\* The process restarts: every client that waits sees its connection break.
Restart ==
  /\ Faults
  /\ Boot
  /\ req' = [p \in Procs |-> Idle]
  /\ told' = [m \in Msgs |-> IF told[m] = "waiting" THEN "failed" ELSE told[m]]
  /\ UNCHANGED <<conf, accepted, sent, tries>>

Step(p) == GraphUser(p) \/ Accept(p) \/ Refuse(p) \/ Record(p) \/ Respond(p)

Next == \/ \E p \in Procs : SendEmail(p) \/ Step(p) \/ Fails(p) \/ GiveUp(p)
        \/ UpdateConfig \/ Restart

Spec == Init /\ [][Next]_vars

\* Servers answer and the event loop serves every ready request.
FairSpec == Spec /\ \A p \in Procs : WF_vars(Step(p))

-----------------------------------------------------------------------------
(* Properties *)

\* The shape of the state; no more copies and rows than the client's tries.
TypeOK ==
  /\ VaultTypeOK
  /\ conf \in Confs
  /\ accepted \in [Msgs -> 0..MaxTries] /\ sent \in [Msgs -> 0..MaxTries]
  /\ tries \in [Msgs -> 0..MaxTries]
  /\ told \in [Msgs -> {"nothing", "waiting", "ok", "failed"}]
  /\ req \in [Procs -> [pc : {"idle", "user", "send", "record", "done"},
                        msg : Msgs \cup {Nil}, name : BOOLEAN, waits : BOOLEAN,
                        pass : Passwords \cup {Nil, Garbage},
                        resp : {"none", "ok", "notfound", "error"}]]

Recording(m) == {p \in Procs : req[p].pc = "record" /\ req[p].msg = m}

\* Every row in the SENT folder stands for a copy of its own that a server
\* accepted, however often a message is tried and wherever an attempt stops.
RecordedWasSent ==
  \A m \in Msgs : sent[m] + Cardinality(Recording(m)) <= accepted[m]

\* A client that was told "ok" has its message accepted and in the SENT folder;
\* told so at its first try, exactly once.
OkIsDone ==
  \A m \in Msgs : told[m] = "ok" =>
    /\ accepted[m] > 0 /\ sent[m] > 0
    /\ tries[m] = 1 => accepted[m] = 1 /\ sent[m] = 1

\* Whatever is saved, and however often the process restarts, mail is only ever
\* sent with a password the user saved, as it was saved; without a configured
\* salt with that or with one the server cannot know.
UsesSavedPassword ==
  \A p \in Procs : req[p].pc = "send" /\ req[p].pass # Nil =>
    req[p].pass \in everSaved \/ (~salted /\ req[p].pass = Garbage)

\* Every request ends.
RequestsEnd == \A p \in Procs : req[p].pc # "idle" ~> req[p].pc = "idle"
=============================================================================
