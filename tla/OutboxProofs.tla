---------------------------- MODULE OutboxProofs ----------------------------
(***************************************************************************)
(* Proofs about Outbox and the CredentialVault it extends, for every number *)
(* of requests, messages, passwords and tries: the type invariant, that the *)
(* SENT folder lists only what a server accepted, that "ok" is true, and    *)
(* that mail is sent with a password the user saved.                        *)
(***************************************************************************)
EXTENDS Outbox, Counting, TLAPS

Request == [pc : {"idle", "user", "send", "record", "done"},
            msg : Msgs \cup {Nil}, name : BOOLEAN, waits : BOOLEAN,
            pass : Passwords \cup {Nil, Garbage},
            resp : {"none", "ok", "notfound", "error"}]

\* The state without the bounds on the counters.
Types ==
  /\ VaultTypeOK
  /\ conf \in Confs
  /\ accepted \in [Msgs -> Nat] /\ sent \in [Msgs -> Nat] /\ tries \in [Msgs -> Nat]
  /\ told \in [Msgs -> {"nothing", "waiting", "ok", "failed"}]
  /\ req \in [Procs -> Request]
  /\ \A p \in Procs : req[p].pc # "idle" => req[p].msg \in Msgs

\* The requests that may still send message m.
Sending(m) == {p \in Procs : req[p].pc \in {"user", "send"} /\ req[p].msg = m}

\* Every accepted copy, and every one that may come, is a try of the client; every
\* row, and every one that may come, is an accepted copy.
Counts ==
  \A m \in Msgs : /\ tries[m] <= MaxTries
                  /\ accepted[m] + Cardinality(Sending(m)) <= tries[m]
                  /\ sent[m] + Cardinality(Recording(m)) <= accepted[m]

\* "ok", on its way to the client and there, comes after the row.
Oks ==
  /\ \A p \in Procs : req[p].pc = "done" /\ req[p].resp = "ok" => sent[req[p].msg] > 0
  /\ \A m \in Msgs : told[m] = "ok" => sent[m] > 0

\* The column holds a password the user saved, the last one if its key is known;
\* only without a salt may it be under another key.
Vault ==
  /\ column # Nil => column.text \in everSaved
  /\ column # Nil /\ column.form = "other" => ~salted
  /\ saved.password # Nil /\ (salted \/ saved.here) => column = Text("own", saved.password)

\* Graph is asked without a mail password.
NoPassword == \A p \in Procs : req[p].pc = "user" => req[p].pass = Nil

\* The inductive invariant.
IInv == Types /\ Counts /\ Oks /\ Vault /\ NoPassword /\ UsesSavedPassword

-----------------------------------------------------------------------------
(* Counting requests *)

\* How the step of one request changes both counts.
LEMMA Turn ==
  ASSUME req \in [Procs -> Request], NEW p \in Procs, NEW r \in Request, Set(p, r),
         NEW m \in Msgs
  PROVE  /\ Cardinality(Sending(m)) \in Nat /\ Cardinality(Recording(m)) \in Nat
         /\ Cardinality(Sending(m))' \in Nat /\ Cardinality(Recording(m))' \in Nat
         /\ LET was == req[p].pc \in {"user", "send"} /\ req[p].msg = m
                is == r.pc \in {"user", "send"} /\ r.msg = m
            IN /\ (was <=> is) => Cardinality(Sending(m))' = Cardinality(Sending(m))
               /\ was /\ ~is => Cardinality(Sending(m))' = Cardinality(Sending(m)) - 1
               /\ ~was /\ is => Cardinality(Sending(m))' = Cardinality(Sending(m)) + 1
         /\ LET was == req[p].pc = "record" /\ req[p].msg = m
                is == r.pc = "record" /\ r.msg = m
            IN /\ (was <=> is) => Cardinality(Recording(m))' = Cardinality(Recording(m))
               /\ was /\ ~is => Cardinality(Recording(m))' = Cardinality(Recording(m)) - 1
               /\ ~was /\ is => Cardinality(Recording(m))' = Cardinality(Recording(m)) + 1
<1>1. \A q \in Procs : req'[q] = IF q = p THEN r ELSE req[q] BY DEF Set
<1>2. /\ IsFiniteSet(Sending(m)) /\ IsFiniteSet(Sending(m)')
      /\ IsFiniteSet(Recording(m)) /\ IsFiniteSet(Recording(m)')
  <2>1. /\ Sending(m) \subseteq Procs /\ Sending(m)' \subseteq Procs
        /\ Recording(m) \subseteq Procs /\ Recording(m)' \subseteq Procs
    BY DEF Sending, Recording
  <2> QED BY <2>1, ProcsAssumption, FS_Subset
<1>3. Sending(m) \ {p} = Sending(m)' \ {p} /\ Recording(m) \ {p} = Recording(m)' \ {p}
  BY <1>1 DEF Sending, Recording
<1>4. /\ p \in Sending(m) <=> req[p].pc \in {"user", "send"} /\ req[p].msg = m
      /\ p \in Sending(m)' <=> r.pc \in {"user", "send"} /\ r.msg = m
      /\ p \in Recording(m) <=> req[p].pc = "record" /\ req[p].msg = m
      /\ p \in Recording(m)' <=> r.pc = "record" /\ r.msg = m
  BY <1>1 DEF Sending, Recording
<1>5. /\ Cardinality(Sending(m)) \in Nat /\ Cardinality(Sending(m)') \in Nat
      /\ (p \in Sending(m) <=> p \in Sending(m)') => Cardinality(Sending(m)') = Cardinality(Sending(m))
      /\ p \in Sending(m) /\ p \notin Sending(m)' => Cardinality(Sending(m)') = Cardinality(Sending(m)) - 1
      /\ p \notin Sending(m) /\ p \in Sending(m)' => Cardinality(Sending(m)') = Cardinality(Sending(m)) + 1
  BY <1>2, <1>3, CountStep
<1>6. /\ Cardinality(Recording(m)) \in Nat /\ Cardinality(Recording(m)') \in Nat
      /\ (p \in Recording(m) <=> p \in Recording(m)') => Cardinality(Recording(m)') = Cardinality(Recording(m))
      /\ p \in Recording(m) /\ p \notin Recording(m)' => Cardinality(Recording(m)') = Cardinality(Recording(m)) - 1
      /\ p \notin Recording(m) /\ p \in Recording(m)' => Cardinality(Recording(m)') = Cardinality(Recording(m)) + 1
  BY <1>2, <1>3, CountStep
<1> QED BY <1>4, <1>5, <1>6

-----------------------------------------------------------------------------
(* Steps *)

\* What holds of a request that takes its turn: its new record, the table of requests
\* after it, and the vault if the step leaves it alone.
LEMMA TurnKeeps ==
  ASSUME Types, NEW p \in Procs, NEW r \in Request, Set(p, r),
         r.pc # "idle" => r.msg \in Msgs
  PROVE  /\ req' \in [Procs -> Request]
         /\ \A q \in Procs : req'[q] = IF q = p THEN r ELSE req[q]
         /\ \A q \in Procs : req'[q].pc # "idle" => req'[q].msg \in Msgs
BY DEF Types, Set

LEMMA VaultKept ==
  ASSUME Vault, VaultTypeOK, UNCHANGED vaultVars
  PROVE  Vault' /\ VaultTypeOK'
BY DEF Vault, VaultTypeOK, vaultVars

\* What a find returns is null, a password the user saved or, without a salt, garbage.
LEMMA FindUserOK ==
  ASSUME Vault, VaultTypeOK, NEW pass \in FindUser
  PROVE  /\ pass \in Passwords \cup {Nil, Garbage}
         /\ pass # Nil => pass \in everSaved \/ (~salted /\ pass = Garbage)
<1>1. CASE column = Nil BY <1>1 DEF FindUser, Decrypt
<1>2. CASE column # Nil
  <2>1. column.form \in Forms /\ column.text \in Passwords /\ column.text \in everSaved
    BY <1>2 DEF Vault, VaultTypeOK
  <2>2. CASE column.form \in {"own", "legacy"}
    BY <1>2, <2>1, <2>2 DEF FindUser, Decrypt
  <2>3. CASE column.form = "other"
    BY <1>2, <2>1, <2>3 DEF FindUser, Decrypt, Vault
  <2> QED BY <2>1, <2>2, <2>3 DEF Forms
<1> QED BY <1>1, <1>2

\* A process without a request.
LEMMA IdleOK == Idle \in Request /\ Idle.pc = "idle" /\ Idle.resp = "none" /\ Idle.pass = Nil
BY DEF Idle, Request

LEMMA AnswerOK ==
  ASSUME NEW r \in Request, NEW resp \in {"ok", "notfound", "error"}
  PROVE  LET a == Answer(r, resp) IN
         a \in Request /\ a.pc = "done" /\ a.resp = resp /\ a.msg = r.msg
BY DEF Answer, Request

LEMMA InitInv == Init => IInv
<1> SUFFICES ASSUME Init PROVE IInv OBVIOUS
<1> USE DEF Init, VaultInit
<1>1. Types BY IdleOK, ConfsAssumption DEF Types, VaultTypeOK, Text, Forms, Request
<1>2. Counts
  <2> SUFFICES ASSUME NEW m \in Msgs PROVE Cardinality(Sending(m)) = 0 /\ Cardinality(Recording(m)) = 0
    BY TriesAssumption DEF Counts
  <2>1. Sending(m) = {} /\ Recording(m) = {} BY IdleOK DEF Sending, Recording
  <2> QED BY <2>1, FS_EmptySet
<1>3. Oks BY IdleOK DEF Oks
<1>4. Vault BY DEF Vault, Text
<1>5. UsesSavedPassword BY IdleOK DEF UsesSavedPassword
<1>6. NoPassword BY IdleOK DEF NoPassword
<1> QED BY <1>1, <1>2, <1>3, <1>4, <1>5, <1>6 DEF IInv

\* The ways through sendEmail: a request that goes on has a password to go on with.
LEMMA DispatchOK ==
  ASSUME Vault, VaultTypeOK, conf \in Conf, NEW pass \in FindUser,
         NEW r \in Request, r.resp = "none", r.pass = Nil, r.msg \in Msgs
  PROVE  LET d == Dispatch(conf, pass, r) IN
         /\ d \in Request /\ d.msg = r.msg /\ d.pc \in {"user", "send", "done"}
         /\ d.resp # "ok" /\ (d.pc = "user" => d.pass = Nil)
         /\ d.pc = "send" /\ d.pass # Nil =>
              d.pass \in everSaved \/ (~salted /\ d.pass = Garbage)
<1> DEFINE d == Dispatch(conf, pass, r)
<1>1. CASE conf.graph BY <1>1 DEF Dispatch, Request
<1>2. CASE ~conf.graph /\ ~conf.smtp BY <1>2, AnswerOK DEF Dispatch
<1>3. CASE ~conf.graph /\ conf.smtp /\ (~conf.full \/ pass = Nil)
  BY <1>3, AnswerOK DEF Dispatch
<1>4. CASE ~conf.graph /\ conf.smtp /\ conf.full /\ pass # Nil
  BY <1>4, FindUserOK DEF Dispatch, Request
<1> QED BY <1>1, <1>2, <1>3, <1>4 DEF Conf

LEMMA SendEmailInv == ASSUME IInv, NEW p \in Procs, SendEmail(p) PROVE IInv'
<1> USE DEF IInv
<1>1. /\ req[p].pc = "idle" /\ UNCHANGED <<conf, accepted, sent>> /\ UNCHANGED vaultVars
  BY DEF SendEmail
<1>2. PICK m \in Msgs : LET r == [Idle EXCEPT !.msg = m, !.waits = TRUE] IN
       /\ told[m] \in {"nothing", "failed"} /\ tries[m] < MaxTries
       /\ \/ \E pass \in FindUser : Set(p, Dispatch(conf, pass, r))
          \/ Set(p, [r EXCEPT !.pc = "user"])
       /\ tries' = [tries EXCEPT ![m] = @ + 1]
       /\ told' = [told EXCEPT ![m] = "waiting"]
  BY DEF SendEmail
<1> DEFINE r == [Idle EXCEPT !.msg = m, !.waits = TRUE]
<1>3. r \in Request /\ r.resp = "none" /\ r.pass = Nil /\ r.msg = m BY DEF Idle, Request
<1>4. PICK n \in Request : /\ Set(p, n) /\ n.msg = m /\ n.pc \in {"user", "send", "done"}
                           /\ n.resp # "ok" /\ (n.pc = "user" => n.pass = Nil)
                           /\ n.pc = "send" /\ n.pass # Nil =>
                                n.pass \in everSaved \/ (~salted /\ n.pass = Garbage)
  <2>1. CASE Set(p, [r EXCEPT !.pc = "user"])
    <3> DEFINE u == [r EXCEPT !.pc = "user"]
    <3>1. u \in Request /\ u.msg = m /\ u.pc = "user" /\ u.resp = "none" /\ u.pass = Nil
      BY <1>3 DEF Request
    <3> HIDE DEF u
    <3> QED BY <2>1, <3>1 DEF u
  <2>2. CASE \E pass \in FindUser : Set(p, Dispatch(conf, pass, r))
    <3>1. PICK pass \in FindUser : Set(p, Dispatch(conf, pass, r)) BY <2>2
    <3>2. conf \in Conf BY ConfsAssumption DEF Types
    <3> QED BY <1>3, <3>1, <3>2, DispatchOK DEF Types
  <2> QED BY <1>2, <2>1, <2>2
<1>5. /\ req' \in [Procs -> Request]
      /\ \A q \in Procs : req'[q] = IF q = p THEN n ELSE req[q]
      /\ \A q \in Procs : req'[q].pc # "idle" => req'[q].msg \in Msgs
  BY <1>4, TurnKeeps
<1>6. Vault' /\ VaultTypeOK' BY <1>1, VaultKept DEF Types
<1>7. Types' BY <1>1, <1>2, <1>5, <1>6 DEF Types
<1>8. Counts'
  <2> SUFFICES ASSUME NEW k \in Msgs
               PROVE  /\ tries'[k] <= MaxTries
                      /\ accepted'[k] + Cardinality(Sending(k))' <= tries'[k]
                      /\ sent'[k] + Cardinality(Recording(k))' <= accepted'[k]
    BY DEF Counts
  <2>1. req \in [Procs -> Request] BY DEF Types
  <2>2. /\ Cardinality(Sending(k)) \in Nat /\ Cardinality(Recording(k)) \in Nat
        /\ k # m => Cardinality(Sending(k))' = Cardinality(Sending(k))
        /\ Cardinality(Sending(k))' \in {Cardinality(Sending(k)), Cardinality(Sending(k)) + 1}
        /\ Cardinality(Recording(k))' = Cardinality(Recording(k))
    BY <1>1, <1>4, <2>1, Turn
  <2>3. tries'[k] = (IF k = m THEN tries[k] + 1 ELSE tries[k]) /\ tries[k] \in Nat
        /\ accepted[k] \in Nat /\ sent[k] \in Nat
    BY <1>2 DEF Types
  <2> QED BY <1>1, <1>2, <2>2, <2>3, TriesAssumption DEF Counts
<1>9. Oks' BY <1>1, <1>2, <1>4, <1>5 DEF Oks, Types
<1>10. UsesSavedPassword' BY <1>1, <1>4, <1>5 DEF UsesSavedPassword, vaultVars
<1>11. NoPassword' BY <1>4, <1>5 DEF NoPassword
<1> QED BY <1>6, <1>7, <1>8, <1>9, <1>10, <1>11

\* A step of a request that neither sends nor records: it may come to the next place
\* before its send, or end.
LEMMA QuietInv ==
  ASSUME IInv, NEW p \in Procs, NEW r \in Request, Set(p, r),
         UNCHANGED <<conf, accepted, sent, tries, vaultVars>>,
         told' \in [Msgs -> {"nothing", "waiting", "ok", "failed"}],
         \A m \in Msgs : told'[m] = "ok" => sent[m] > 0,
         r.pc # "idle" => r.msg = req[p].msg /\ r.msg \in Msgs,
         r.pc \in {"user", "send"} => req[p].pc \in {"user", "send"},
         r.pc = "record" => req[p].pc = "record",
         r.pc = "done" /\ r.resp = "ok" => req[p].pc = "done" /\ req[p].resp = "ok",
         r.pc = "user" => r.pass = Nil,
         r.pc = "send" => r.pass = Nil \/ (req[p].pc = "send" /\ r.pass = req[p].pass)
  PROVE  IInv'
<1> USE DEF IInv
<1>1. UNCHANGED <<conf, accepted, sent, tries>> /\ UNCHANGED vaultVars OBVIOUS
<1>2. /\ req' \in [Procs -> Request]
      /\ \A q \in Procs : req'[q] = IF q = p THEN r ELSE req[q]
      /\ \A q \in Procs : req'[q].pc # "idle" => req'[q].msg \in Msgs
  BY TurnKeeps
<1>3. Vault' /\ VaultTypeOK' BY <1>1, VaultKept DEF Types
<1>4. Types' BY <1>1, <1>2, <1>3 DEF Types
<1>5. Counts'
  <2> SUFFICES ASSUME NEW k \in Msgs
               PROVE  /\ tries'[k] <= MaxTries
                      /\ accepted'[k] + Cardinality(Sending(k))' <= tries'[k]
                      /\ sent'[k] + Cardinality(Recording(k))' <= accepted'[k]
    BY DEF Counts
  <2>1. req \in [Procs -> Request] BY DEF Types
  <2>2. /\ Cardinality(Sending(k)) \in Nat /\ Cardinality(Recording(k)) \in Nat
        /\ Cardinality(Sending(k))' \in Nat /\ Cardinality(Recording(k))' \in Nat
        /\ Cardinality(Sending(k))' <= Cardinality(Sending(k))
        /\ Cardinality(Recording(k))' <= Cardinality(Recording(k))
    BY <2>1, Turn
  <2>3. tries[k] \in Nat /\ accepted[k] \in Nat /\ sent[k] \in Nat BY DEF Types
  <2> QED BY <1>1, <2>2, <2>3, TriesAssumption DEF Counts
<1>6. Oks' BY <1>1, <1>2 DEF Oks
<1>7. UsesSavedPassword' BY <1>1, <1>2 DEF UsesSavedPassword, vaultVars
<1>8. NoPassword' BY <1>2 DEF NoPassword
<1> QED BY <1>3, <1>4, <1>5, <1>6, <1>7, <1>8

LEMMA GraphUserInv == ASSUME IInv, NEW p \in Procs, GraphUser(p) PROVE IInv'
<1> DEFINE r == [req[p] EXCEPT !.pc = "send", !.name = conf.name]
<1>1. /\ req[p] \in Request /\ req[p].msg \in Msgs /\ req[p].pc = "user" /\ req[p].pass = Nil
      /\ told \in [Msgs -> {"nothing", "waiting", "ok", "failed"}]
      /\ conf.name \in BOOLEAN
  BY ConfsAssumption DEF GraphUser, IInv, Types, NoPassword, Conf
<1>2. r \in Request /\ r.msg = req[p].msg /\ r.pc = "send" /\ r.pass = Nil
  BY <1>1 DEF Request
<1>3. /\ Set(p, r) /\ UNCHANGED <<conf, accepted, sent, tries, vaultVars>> /\ UNCHANGED told
  BY DEF GraphUser
<1>4. \A m \in Msgs : told'[m] = "ok" => sent[m] > 0 BY <1>3 DEF IInv, Oks
<1> HIDE DEF r
<1> QED BY <1>1, <1>2, <1>3, <1>4, QuietInv

\* Steps that answer with an error without having sent.
LEMMA ErrorInv ==
  ASSUME IInv, NEW p \in Procs, req[p].pc # "idle", Set(p, Answer(req[p], "error")),
         UNCHANGED <<conf, accepted, sent, tries, told, vaultVars>>
  PROVE  IInv'
<1> DEFINE r == Answer(req[p], "error")
<1>1. /\ req[p] \in Request /\ req[p].msg \in Msgs
      /\ told \in [Msgs -> {"nothing", "waiting", "ok", "failed"}]
  BY DEF IInv, Types
<1>2. r \in Request /\ r.msg = req[p].msg /\ r.pc = "done" /\ r.resp = "error"
  BY <1>1, AnswerOK
<1>3. \A m \in Msgs : told'[m] = "ok" => sent[m] > 0 BY DEF IInv, Oks
<1>4. Set(p, r) /\ UNCHANGED <<conf, accepted, sent, tries, vaultVars>> /\ UNCHANGED told
  OBVIOUS
<1> HIDE DEF r
<1> QED BY <1>1, <1>2, <1>3, <1>4, QuietInv

LEMMA RefuseInv == ASSUME IInv, NEW p \in Procs, Refuse(p) PROVE IInv'
BY ErrorInv DEF Refuse

LEMMA FailsInv == ASSUME IInv, NEW p \in Procs, Fails(p) PROVE IInv'
BY ErrorInv DEF Fails

LEMMA GiveUpInv == ASSUME IInv, NEW p \in Procs, GiveUp(p) PROVE IInv'
<1> DEFINE r == [req[p] EXCEPT !.waits = FALSE]
<1>1. req[p] \in Request /\ (req[p].pc # "idle" => req[p].msg \in Msgs) BY DEF IInv, Types
<1>2. r \in Request /\ r.msg = req[p].msg /\ r.pc = req[p].pc /\ r.pass = req[p].pass
      /\ r.resp = req[p].resp
  BY <1>1 DEF Request
<1>3. /\ Set(p, r) /\ UNCHANGED <<conf, accepted, sent, tries, vaultVars>>
      /\ told' = [told EXCEPT ![req[p].msg] = "failed"]
  BY DEF GiveUp
<1>4. /\ told' \in [Msgs -> {"nothing", "waiting", "ok", "failed"}]
      /\ \A m \in Msgs : told'[m] = "ok" => sent[m] > 0
  BY <1>3 DEF IInv, Oks, Types
<1>5. r.pc = "user" => r.pass = Nil BY <1>2 DEF IInv, NoPassword
<1> HIDE DEF r
<1> QED BY <1>1, <1>2, <1>3, <1>4, <1>5, QuietInv

LEMMA RespondInv == ASSUME IInv, NEW p \in Procs, Respond(p) PROVE IInv'
<1>1. /\ Set(p, Idle) /\ UNCHANGED <<conf, accepted, sent, tries, vaultVars>>
      /\ req[p].pc = "done"
      /\ told' = IF req[p].waits
                 THEN [told EXCEPT ![req[p].msg] = IF req[p].resp = "ok" THEN "ok" ELSE "failed"]
                 ELSE told
  BY DEF Respond
<1>2. /\ told' \in [Msgs -> {"nothing", "waiting", "ok", "failed"}]
      /\ \A m \in Msgs : told'[m] = "ok" => sent[m] > 0
  BY <1>1 DEF IInv, Oks, Types
<1> QED BY <1>1, <1>2, IdleOK, QuietInv

LEMMA AcceptInv == ASSUME IInv, NEW p \in Procs, Accept(p) PROVE IInv'
<1> USE DEF IInv
<1> DEFINE m == req[p].msg
<1>1. /\ req[p] \in Request /\ m \in Msgs /\ req[p].pc = "send"
      /\ req \in [Procs -> Request]
      /\ UNCHANGED <<conf, sent, tries, told>> /\ UNCHANGED vaultVars
      /\ accepted' = [accepted EXCEPT ![m] = @ + 1]
  BY DEF Accept, Types
<1>2. PICK r \in Request : /\ Set(p, r) /\ r.msg = m /\ r.pc \in {"record", "done"}
                           /\ r.pc = "done" => r.resp = "error"
  <2> DEFINE u == [req[p] EXCEPT !.pc = "record"]
  <2>1. u \in Request /\ u.msg = m /\ u.pc = "record" BY <1>1 DEF Request
  <2>2. Set(p, u) \/ Set(p, Answer(req[p], "error")) BY DEF Accept
  <2> HIDE DEF u
  <2> QED BY <1>1, <2>1, <2>2, AnswerOK
<1>3. /\ req' \in [Procs -> Request]
      /\ \A q \in Procs : req'[q] = IF q = p THEN r ELSE req[q]
      /\ \A q \in Procs : req'[q].pc # "idle" => req'[q].msg \in Msgs
  BY <1>1, <1>2, TurnKeeps
<1>4. Vault' /\ VaultTypeOK' BY <1>1, VaultKept DEF Types
<1>5. Types' BY <1>1, <1>3, <1>4 DEF Types
<1>6. Counts'
  <2> SUFFICES ASSUME NEW k \in Msgs
               PROVE  /\ tries'[k] <= MaxTries
                      /\ accepted'[k] + Cardinality(Sending(k))' <= tries'[k]
                      /\ sent'[k] + Cardinality(Recording(k))' <= accepted'[k]
    BY DEF Counts
  <2>1. /\ Cardinality(Sending(k)) \in Nat /\ Cardinality(Recording(k)) \in Nat
        /\ k # m => /\ Cardinality(Sending(k))' = Cardinality(Sending(k))
                    /\ Cardinality(Recording(k))' = Cardinality(Recording(k))
        /\ k = m => /\ Cardinality(Sending(k))' = Cardinality(Sending(k)) - 1
                    /\ Cardinality(Recording(k))' <= Cardinality(Recording(k)) + 1
    BY <1>1, <1>2, Turn
  <2>2. /\ accepted'[k] = IF k = m THEN accepted[k] + 1 ELSE accepted[k]
        /\ tries[k] \in Nat /\ accepted[k] \in Nat /\ sent[k] \in Nat
    BY <1>1 DEF Types
  <2>3. Cardinality(Recording(k))' \in Nat BY <1>1, <1>2, Turn
  <2> QED BY <1>1, <2>1, <2>2, <2>3, TriesAssumption DEF Counts
<1>7. Oks' BY <1>1, <1>2, <1>3 DEF Oks
<1>8. UsesSavedPassword' BY <1>1, <1>2, <1>3 DEF UsesSavedPassword, vaultVars
<1>9. NoPassword' BY <1>2, <1>3 DEF NoPassword
<1> QED BY <1>4, <1>5, <1>6, <1>7, <1>8, <1>9

LEMMA RecordInv == ASSUME IInv, NEW p \in Procs, Record(p) PROVE IInv'
<1> USE DEF IInv
<1> DEFINE m == req[p].msg
<1>1. /\ req[p] \in Request /\ m \in Msgs /\ req[p].pc = "record"
      /\ req \in [Procs -> Request]
      /\ UNCHANGED <<conf, accepted, tries, told>> /\ UNCHANGED vaultVars
  BY DEF Record, Types
<1>2. CASE ~req[p].name BY <1>1, <1>2, ErrorInv DEF Record
<1>3. CASE req[p].name
  <2> DEFINE r == Answer(req[p], "ok")
  <2>1. Set(p, r) /\ sent' = [sent EXCEPT ![m] = @ + 1] BY <1>3 DEF Record
  <2>2. r \in Request /\ r.msg = m /\ r.pc = "done" BY <1>1, AnswerOK
  <2> HIDE DEF r
  <2>3. /\ req' \in [Procs -> Request]
        /\ \A q \in Procs : req'[q] = IF q = p THEN r ELSE req[q]
        /\ \A q \in Procs : req'[q].pc # "idle" => req'[q].msg \in Msgs
    BY <1>1, <2>1, <2>2, TurnKeeps
  <2>4. Vault' /\ VaultTypeOK' BY <1>1, VaultKept DEF Types
  <2>5. Types' BY <1>1, <2>1, <2>3, <2>4 DEF Types
  <2>6. \A k \in Msgs : /\ sent[k] \in Nat
                        /\ sent'[k] = IF k = m THEN sent[k] + 1 ELSE sent[k]
    BY <2>1 DEF Types
  <2>7. Counts'
    <3> SUFFICES ASSUME NEW k \in Msgs
                 PROVE  /\ tries'[k] <= MaxTries
                        /\ accepted'[k] + Cardinality(Sending(k))' <= tries'[k]
                        /\ sent'[k] + Cardinality(Recording(k))' <= accepted'[k]
      BY DEF Counts
    <3>1. /\ Cardinality(Sending(k)) \in Nat /\ Cardinality(Recording(k)) \in Nat
          /\ Cardinality(Sending(k))' = Cardinality(Sending(k))
          /\ k # m => Cardinality(Recording(k))' = Cardinality(Recording(k))
          /\ k = m => Cardinality(Recording(k))' = Cardinality(Recording(k)) - 1
      BY <1>1, <2>1, <2>2, Turn
    <3>2. tries[k] \in Nat /\ accepted[k] \in Nat BY DEF Types
    <3> QED BY <1>1, <2>6, <3>1, <3>2, TriesAssumption DEF Counts
  <2>8. Oks'
    <3>1. \A q \in Procs : req'[q].pc = "done" /\ req'[q].resp = "ok" => sent'[req'[q].msg] > 0
      <4> SUFFICES ASSUME NEW q \in Procs, req'[q].pc = "done", req'[q].resp = "ok"
                   PROVE  sent'[req'[q].msg] > 0
        OBVIOUS
      <4>1. CASE q = p BY <1>1, <2>2, <2>3, <2>6, <4>1
      <4>2. CASE q # p
        <5>1. req'[q] = req[q] /\ req[q].msg \in Msgs /\ sent[req[q].msg] > 0
          BY <2>3, <4>2 DEF Oks, Types
        <5> QED BY <2>6, <5>1
      <4> QED BY <4>1, <4>2
    <3>2. \A k \in Msgs : told'[k] = "ok" => sent'[k] > 0 BY <1>1, <2>6 DEF Oks
    <3> QED BY <3>1, <3>2 DEF Oks
  <2>9. UsesSavedPassword' BY <1>1, <2>2, <2>3 DEF UsesSavedPassword, vaultVars
  <2>10. NoPassword' BY <2>2, <2>3 DEF NoPassword
  <2> QED BY <2>4, <2>5, <2>7, <2>8, <2>9, <2>10
<1> QED BY <1>2, <1>3

\* A new configuration: what running requests hold stays a password of the user's.
LEMMA UpdateConfigInv == ASSUME IInv, UpdateConfig PROVE IInv'
<1> USE DEF IInv
<1>1. conf' \in Confs /\ UNCHANGED <<accepted, sent, tries, told, req>> BY DEF UpdateConfig
<1>2. PICK w \in Passwords \cup {Nil, Keep} : UpdateUser(w) BY DEF UpdateConfig
<1>3. UNCHANGED salted /\ everSaved \subseteq everSaved' BY <1>2 DEF UpdateUser
<1>4. VaultTypeOK' /\ Vault'
  <2>1. VaultTypeOK /\ Vault BY DEF Types
  <2>2. CASE w = Keep
    BY <2>1, <2>2, <1>2, PasswordsAssumption DEF UpdateUser, VaultTypeOK, Vault
  <2>3. CASE w = Nil
    BY <2>1, <2>3, <1>2, PasswordsAssumption DEF UpdateUser, VaultTypeOK, Vault, Encrypt
  <2>4. CASE w \in Passwords
    <3>1. /\ column' = Text("own", w) /\ saved' = [password |-> w, here |-> TRUE]
          /\ everSaved' = everSaved \cup {w} /\ UNCHANGED salted
      BY <1>2, <2>4, PasswordsAssumption DEF UpdateUser, Encrypt
    <3> QED BY <2>1, <2>4, <3>1 DEF VaultTypeOK, Vault, Text, Forms
  <2> QED BY <2>2, <2>3, <2>4
<1>5. Types' BY <1>1, <1>4 DEF Types
<1>6. Counts' BY <1>1 DEF Counts, Sending, Recording
<1>7. Oks' BY <1>1 DEF Oks
<1>8. UsesSavedPassword' BY <1>1, <1>3 DEF UsesSavedPassword
<1>9. NoPassword' BY <1>1 DEF NoPassword
<1> QED BY <1>4, <1>5, <1>6, <1>7, <1>8, <1>9

\* A restart: without a salt every text is under another key from now on.
LEMMA RestartInv == ASSUME IInv, Restart PROVE IInv'
<1> USE DEF IInv
<1>1. /\ UNCHANGED <<conf, accepted, sent, tries>>
      /\ req' = [p \in Procs |-> Idle]
      /\ told' = [m \in Msgs |-> IF told[m] = "waiting" THEN "failed" ELSE told[m]]
  BY DEF Restart
<1>2. /\ UNCHANGED <<salted, everSaved>> /\ saved' = [saved EXCEPT !.here = FALSE]
      /\ column' = IF salted THEN column ELSE Outdated(column)
  BY DEF Restart, Boot
<1>3. VaultTypeOK' /\ Vault'
  <2>1. VaultTypeOK /\ Vault BY DEF Types
  <2>2. CASE salted \/ column = Nil BY <1>2, <2>1, <2>2 DEF VaultTypeOK, Vault, Outdated
  <2>3. CASE ~salted /\ column # Nil
    <3>1. /\ column' \in [form : Forms, text : Passwords] /\ column'.text = column.text
      BY <1>2, <2>1, <2>3 DEF VaultTypeOK, Outdated, Forms
    <3>2. saved'.here = FALSE /\ saved' \in [password : Passwords \cup {Nil}, here : BOOLEAN]
      BY <1>2, <2>1 DEF VaultTypeOK
    <3> QED BY <1>2, <2>1, <2>3, <3>1, <3>2 DEF VaultTypeOK, Vault
  <2> QED BY <2>2, <2>3
<1>4. Types' BY <1>1, <1>3, IdleOK DEF Types
<1>5. Counts'
  <2> SUFFICES ASSUME NEW m \in Msgs
               PROVE  Cardinality(Sending(m))' = 0 /\ Cardinality(Recording(m))' = 0
    <3>1. \A m \in Msgs : /\ tries[m] \in Nat /\ accepted[m] \in Nat /\ sent[m] \in Nat
                          /\ Cardinality(Sending(m)) \in Nat /\ Cardinality(Recording(m)) \in Nat
      <4> TAKE m \in Msgs
      <4>1. Sending(m) \subseteq Procs /\ Recording(m) \subseteq Procs BY DEF Sending, Recording
      <4>2. Cardinality(Sending(m)) \in Nat /\ Cardinality(Recording(m)) \in Nat
        BY <4>1, ProcsAssumption, FS_Subset, FS_CardinalityType
      <4> QED BY <4>2 DEF Types
    <3> QED BY <1>1, <3>1, TriesAssumption DEF Counts
  <2>1. Sending(m)' = {} /\ Recording(m)' = {} BY <1>1, IdleOK DEF Sending, Recording
  <2> QED BY <2>1, FS_EmptySet
<1>6. Oks' BY <1>1, IdleOK DEF Oks
<1>7. UsesSavedPassword' BY <1>1, IdleOK DEF UsesSavedPassword
<1>8. NoPassword' BY <1>1, IdleOK DEF NoPassword
<1> QED BY <1>3, <1>4, <1>5, <1>6, <1>7, <1>8

LEMMA NextInv == ASSUME IInv, [Next]_vars PROVE IInv'
<1>1. CASE UNCHANGED vars
  BY <1>1 DEF vars, vaultVars, IInv, Types, VaultTypeOK, Counts, Sending, Recording, Oks,
              Vault, NoPassword, UsesSavedPassword
<1>2. ASSUME NEW p \in Procs, SendEmail(p) \/ Step(p) \/ Fails(p) \/ GiveUp(p) PROVE IInv'
  BY <1>2, SendEmailInv, GraphUserInv, AcceptInv, RefuseInv, RecordInv, RespondInv, FailsInv,
     GiveUpInv DEF Step
<1>3. CASE UpdateConfig BY <1>3, UpdateConfigInv
<1>4. CASE Restart BY <1>4, RestartInv
<1> QED BY <1>1, <1>2, <1>3, <1>4 DEF Next

-----------------------------------------------------------------------------
(* Theorems *)

\* The state of a single send, all sends together: the invariant the others follow from.
THEOREM Invariant == Spec => []IInv
<1>1. Init => IInv BY InitInv
<1>2. IInv /\ [Next]_vars => IInv' BY NextInv
<1> QED BY <1>1, <1>2, PTL DEF Spec

\* The counts as numbers, for the theorems below.
LEMMA CountsOf ==
  ASSUME IInv, NEW m \in Msgs
  PROVE  /\ sent[m] \in Nat /\ accepted[m] \in Nat /\ tries[m] \in Nat
         /\ sent[m] <= accepted[m] /\ accepted[m] <= tries[m] /\ tries[m] <= MaxTries
<1>1. Sending(m) \subseteq Procs /\ Recording(m) \subseteq Procs BY DEF Sending, Recording
<1>2. Cardinality(Sending(m)) \in Nat /\ Cardinality(Recording(m)) \in Nat
  BY <1>1, ProcsAssumption, FS_Subset, FS_CardinalityType
<1>3. sent[m] \in Nat /\ accepted[m] \in Nat /\ tries[m] \in Nat BY DEF IInv, Types
<1> QED BY <1>2, <1>3, TriesAssumption DEF IInv, Counts

\* TypeOK of Outbox: the types of the state, and that no message is accepted or
\* recorded more often than the client sent it, however attempts overlap.
THEOREM TypeCorrect == Spec => []TypeOK
<1>1. IInv => TypeOK
  <2> SUFFICES ASSUME IInv PROVE TypeOK OBVIOUS
  <2>1. \A m \in Msgs : /\ sent[m] \in 0..MaxTries /\ accepted[m] \in 0..MaxTries
                        /\ tries[m] \in 0..MaxTries
    BY CountsOf, TriesAssumption
  <2>2. Types BY DEF IInv
  <2> QED BY <2>1, <2>2 DEF TypeOK, Types, Request
<1> QED BY <1>1, Invariant, PTL

\* sendEmail writes a SENT row only after the server accepted a copy: every row has
\* a copy of its own, for any number of overlapping tries, failures and restarts.
THEOREM SentRowsStandForMail == Spec => []RecordedWasSent
<1>1. IInv => RecordedWasSent BY DEF IInv, Counts, RecordedWasSent
<1> QED BY <1>1, Invariant, PTL

\* A client that was told "ok" has its message accepted and recorded, and exactly once
\* if it sent it once.
THEOREM OkIsTrue == Spec => []OkIsDone
<1>1. IInv => OkIsDone
  <2> SUFFICES ASSUME IInv, NEW m \in Msgs, told[m] = "ok"
               PROVE  /\ accepted[m] > 0 /\ sent[m] > 0
                      /\ tries[m] = 1 => accepted[m] = 1 /\ sent[m] = 1
    BY DEF OkIsDone
  <2>1. sent[m] > 0 BY DEF IInv, Oks
  <2> QED BY <2>1, CountsOf
<1> QED BY <1>1, Invariant, PTL

\* The encryption middleware returns the password saved last, as it was, whenever the
\* key that encrypted it is still the key of the process.
THEOREM PasswordReadBack == Spec => []PasswordKept
<1>1. IInv => PasswordKept
  <2> SUFFICES ASSUME IInv, saved.password # Nil, salted \/ saved.here
               PROVE  FindUser = {saved.password}
    BY DEF PasswordKept
  <2>1. column = Text("own", saved.password) /\ column # Nil
    <3>1. column = Text("own", saved.password) BY DEF IInv, Vault
    <3>2. VaultTypeOK BY DEF IInv, Types
    <3> QED BY <3>1, <3>2, NilAssumption DEF VaultTypeOK, Text, Forms
  <2> QED BY <2>1 DEF FindUser, Decrypt, Text
<1> QED BY <1>1, Invariant, PTL

\* Mail is only sent with a password the user saved, through any configuration change
\* and restart; without a configured salt with that or with garbage.
THEOREM PasswordsAreSaved == Spec => []UsesSavedPassword
<1>1. IInv => UsesSavedPassword BY DEF IInv
<1> QED BY <1>1, Invariant, PTL
=============================================================================
