----------------------------- MODULE MCGateway -----------------------------
(* The instance of Gateway that TLC checks; the sets are in gateway.cfg. *)
EXTENDS Gateway
=============================================================================
