------------------------------ MODULE MCOutbox ------------------------------
(* The instance of Outbox that TLC checks; the sets are in outbox.cfg. *)
EXTENDS Outbox

\* One configuration per way through sendEmail: Graph with and without a name,
\* SMTP complete and incomplete, neither.
SomeConfs ==
  {[graph |-> TRUE, smtp |-> FALSE, full |-> FALSE, name |-> n] : n \in BOOLEAN}
    \cup {[graph |-> FALSE, smtp |-> TRUE, full |-> f, name |-> f] : f \in BOOLEAN}
    \cup {[graph |-> FALSE, smtp |-> FALSE, full |-> TRUE, name |-> TRUE]}
=============================================================================
